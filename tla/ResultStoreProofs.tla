--------------------------- MODULE ResultStoreProofs ---------------------------
(***************************************************************************)
(* Proofs about ResultStore for every set of clients, every set of results  *)
(* and all limits.  The inductive invariant IInv says of the store that map *)
(* and queue agree and that handles ascend, and of each client that the     *)
(* store still has its result or had a reason to drop it, and that the rows *)
(* it received are the first ones of its result.                            *)
(***************************************************************************)
EXTENDS ResultStore, SetInduction, SequenceTheorems

(* The queue of a store: its members in increasing order.                   *)
Ascending(q) == \A i, j \in 1..Len(q) : i < j => q[i] < q[j]
Members(q) == {q[i] : i \in 1..Len(q)}

(* The recursion of retain has a solution, one element of the queue at a    *)
(* time.                                                                    *)
LEMMA RetainedIsFold ==
  ASSUME NEW queue \in Seq(Nat), NEW live
  PROVE  \E f \in [0..Len(queue) -> Seq(Nat)] :
           /\ f[0] = <<>>
           /\ \A i \in 1..Len(queue) :
                f[i] = IF queue[i] \in live THEN Append(f[i - 1], queue[i]) ELSE f[i - 1]
           /\ Retained(queue, live) = f[Len(queue)]
<1> DEFINE n == Len(queue)
           Step(i, q) == IF queue[i] \in live THEN Append(q, queue[i]) ELSE q
           step == [p \in (1..n) \X Seq(Nat) |-> Step(p[1], p[2])]
           Body(f) == [i \in 0..n |-> IF i = 0 THEN <<>> ELSE Step(i, f[i - 1])]
<1>0. n \in Nat /\ <<>> \in Seq(Nat) /\ \A i \in 1..n : queue[i] \in Nat
  OBVIOUS
<1>1. \A i \in 1..n, q \in Seq(Nat) : Step(i, q) \in Seq(Nat)
  BY <1>0
<1>2. step \in [(1..n) \X Seq(Nat) -> Seq(Nat)]
  <2> HIDE DEF Step
  <2> QED BY <1>1
<1>3. PICK f \in [0..n -> Seq(Nat)] : f[0] = <<>> /\ \A i \in 1..n : f[i] = step[<<i, f[i - 1]>>]
  <2>1. \E f : Steps(f, Seq(Nat), <<>>, n, step)
    <3> HIDE DEF step, n
    <3> QED BY <1>0, <1>2, Recursion
  <2> QED BY <2>1 DEF Steps
<1>4. ASSUME NEW i \in 1..n PROVE f[i] = Step(i, f[i - 1])
  <2>0. i - 1 \in 0..n
    BY <1>0
  <2>1. <<i, f[i - 1]>> \in (1..n) \X Seq(Nat)
    BY <1>3, <2>0
  <2> HIDE DEF Step
  <2> QED BY <1>3, <2>1
<1>5. f = Body(f)
  <2> HIDE DEF Step
  <2>1. \A i \in 0..n : f[i] = IF i = 0 THEN <<>> ELSE Step(i, f[i - 1])
    BY <1>0, <1>3, <1>4
  <2> QED BY <2>1
<1> DEFINE g == CHOOSE h : h = Body(h)
<1>6. g = Body(g)
  <2> HIDE DEF Body
  <2> QED BY <1>5
<1>7. \A i \in 0..n : g[i] = IF i = 0 THEN <<>> ELSE Step(i, g[i - 1])
  <2> HIDE DEF Step, g
  <2> QED BY <1>6
<1>8. DOMAIN g = 0..n
  <2> HIDE DEF Step, g
  <2> QED BY <1>6
<1>9. \A i \in 0..n : g[i] \in Seq(Nat)
  <2> DEFINE Done == {i \in Nat : i <= n => g[i] \in Seq(Nat)}
  <2>1. 0 \in Done
    <3> HIDE DEF g, Step
    <3>1. 0 \in 0..n
      BY <1>0
    <3>2. g[0] = <<>>
      BY <1>7, <3>1
    <3> QED BY <1>0, <3>2
  <2>2. ASSUME NEW i \in Nat, i \in Done PROVE i + 1 \in Done
    <3> SUFFICES ASSUME i + 1 <= n PROVE g[i + 1] \in Seq(Nat)
      OBVIOUS
    <3> HIDE DEF g, Step
    <3>1. i + 1 \in 1..n /\ (i + 1) - 1 = i /\ g[i] \in Seq(Nat)
      BY <1>0, <2>2
    <3>2. g[i + 1] = Step(i + 1, g[i])
      BY <1>0, <1>7, <3>1
    <3> QED BY <1>1, <3>1, <3>2
  <2>3. Nat \subseteq Done
    <3> HIDE DEF Done
    <3> QED BY <2>1, <2>2, NatSetInduction
  <2> HIDE DEF g
  <2> QED BY <1>0, <2>3
<1>10. g \in [0..n -> Seq(Nat)]
  <2>1. g = [i \in 0..n |-> g[i]]
    <3> HIDE DEF Step, g
    <3> QED BY <1>6, <1>8
  <2> HIDE DEF g
  <2> QED BY <1>9, <2>1
<1>11. Retained(queue, live) = g[n]
  BY DEF Retained
<1>12. /\ g[0] = <<>>
       /\ \A i \in 1..n : g[i] = Step(i, g[i - 1])
  <2> HIDE DEF g, Step
  <2>1. 0 \in 0..n /\ \A i \in 1..n : i \in 0..n /\ i # 0
    BY <1>0
  <2> QED BY <1>7, <2>1
<1> HIDE DEF g
<1> QED BY <1>10, <1>11, <1>12

(* retain keeps the members of live, each once, in the same order.          *)
LEMMA RetainedMembers ==
  ASSUME NEW queue \in Seq(Nat), Ascending(queue), NEW live
  PROVE  /\ Retained(queue, live) \in Seq(Nat)
         /\ Members(Retained(queue, live)) = Members(queue) \cap live
         /\ Ascending(Retained(queue, live))
<1> DEFINE n == Len(queue)
<1>0. n \in Nat /\ \A i \in 1..n : queue[i] \in Nat
  OBVIOUS
<1>1. PICK f \in [0..n -> Seq(Nat)] :
        /\ f[0] = <<>>
        /\ \A i \in 1..n : f[i] = IF queue[i] \in live THEN Append(f[i - 1], queue[i]) ELSE f[i - 1]
        /\ Retained(queue, live) = f[n]
  BY RetainedIsFold
<1> DEFINE Good(i) == /\ Ascending(f[i])
                      /\ Members(f[i]) = {queue[j] : j \in 1..i} \cap live
           Done == {i \in Nat : i <= n => Good(i)}
<1>2. 0 \in Done
  BY <1>1 DEF Ascending, Members
<1>3. ASSUME NEW i \in Nat, i \in Done PROVE i + 1 \in Done
  <2> SUFFICES ASSUME i + 1 <= n PROVE Good(i + 1)
    OBVIOUS
  <2> DEFINE q == f[i]
             x == queue[i + 1]
  <2>1. /\ q \in Seq(Nat) /\ Good(i) /\ i + 1 \in 1..n /\ x \in Nat
        /\ f[i + 1] = IF x \in live THEN Append(q, x) ELSE q
    <3>1. i \in 0..n /\ i + 1 \in 1..n /\ (i + 1) - 1 = i /\ i <= n
      BY <1>0
    <3> QED BY <1>0, <1>1, <1>3, <3>1
  <2>2. {queue[j] : j \in 1..(i + 1)} = {queue[j] : j \in 1..i} \cup {x}
    <3>1. 1..(i + 1) = (1..i) \cup {i + 1}
      OBVIOUS
    <3> QED BY <3>1
  <2>3. CASE x \notin live
    BY <2>1, <2>2, <2>3
  <2>4. CASE x \in live
    <3>1. f[i + 1] = Append(q, x)
      BY <2>1, <2>4
    <3>2. /\ Len(Append(q, x)) = Len(q) + 1 /\ Len(q) \in Nat
          /\ \A j \in 1..Len(q) : Append(q, x)[j] = q[j] /\ q[j] \in Nat
          /\ Append(q, x)[Len(q) + 1] = x
      BY <2>1
    <3>3. \A j \in 1..Len(q) : q[j] < x
      <4>1. ASSUME NEW j \in 1..Len(q) PROVE q[j] < x
        <5>1. q[j] \in Members(q)
          BY DEF Members
        <5>2. PICK k \in 1..i : q[j] = queue[k]
          BY <2>1, <5>1
        <5>3. k \in 1..n /\ i + 1 \in 1..n /\ k < i + 1
          BY <2>1, <5>2
        <5> QED BY <5>2, <5>3 DEF Ascending
      <4> QED BY <4>1
    <3>4. Ascending(f[i + 1])
      <4> HIDE DEF q, x
      <4>1. Ascending(q)
        BY <2>1 DEF q
      <4>2. ASSUME NEW a \in 1..(Len(q) + 1), NEW b \in 1..(Len(q) + 1), a < b
            PROVE  Append(q, x)[a] < Append(q, x)[b]
        <5>1. a \in 1..Len(q)
          BY <3>2, <4>2
        <5>2. CASE b = Len(q) + 1
          BY <3>2, <3>3, <5>1, <5>2
        <5>3. CASE b # Len(q) + 1
          <6>1. b \in 1..Len(q)
            BY <3>2, <5>3
          <6> QED BY <3>2, <4>1, <4>2, <5>1, <6>1 DEF Ascending
        <5> QED BY <5>2, <5>3
      <4> QED BY <3>1, <3>2, <4>2 DEF Ascending
    <3>5. Members(f[i + 1]) = Members(q) \cup {x}
      <4> HIDE DEF q, x
      <4>1. 1..(Len(q) + 1) = (1..Len(q)) \cup {Len(q) + 1}
        BY <3>2
      <4> QED BY <3>1, <3>2, <4>1 DEF Members
    <3> QED BY <2>1, <2>2, <2>4, <3>4, <3>5
  <2> QED BY <2>3, <2>4
<1>4. n \in Done
  <2> HIDE DEF Done
  <2> QED BY <1>0, <1>2, <1>3, NatSetInduction
<1>5. Good(n) /\ n \in 0..n
  BY <1>0, <1>4
<1>6. {queue[j] : j \in 1..n} = Members(queue)
  BY DEF Members
<1> QED BY <1>1, <1>5, <1>6

-----------------------------------------------------------------------------
Enough(live, queue, n) ==
  n = Len(queue) \/ Cardinality(live \ {queue[i] : i \in 1..n}) <= MaxHandles

(* The loop of prune_locked stops as soon as the map is small enough.       *)
LEMMA PoppedLeast ==
  ASSUME NEW live, NEW queue \in Seq(Nat)
  PROVE  /\ Popped(live, queue) \in 0..Len(queue)
         /\ Enough(live, queue, Popped(live, queue))
         /\ \A n \in 0..(Popped(live, queue) - 1) : ~Enough(live, queue, n)
<1> DEFINE T == {n \in 0..Len(queue) : Enough(live, queue, n)}
           Least(k) == Enough(live, queue, k) /\ \A n \in 0..(k - 1) : ~Enough(live, queue, n)
<1>1. Len(queue) \in Nat /\ Len(queue) \in T
  BY DEF Enough
<1>2. T \in SUBSET Nat /\ T # {}
  BY <1>1
<1>3. PICK k \in T : \A m \in T : k <= m
  <2> HIDE DEF T
  <2> QED BY <1>2, LeastNatural
<1>4. k \in 0..Len(queue) /\ Enough(live, queue, k)
  BY <1>3
<1>5. \A n \in 0..(k - 1) : n \in 0..Len(queue) /\ ~(k <= n)
  BY <1>1, <1>4
<1>6. \A n \in 0..(k - 1) : ~Enough(live, queue, n)
  <2> HIDE DEF Enough
  <2> QED BY <1>3, <1>5
<1>7. \E j \in 0..Len(queue) : Least(j)
  BY <1>4, <1>6
<1>8. Popped(live, queue) = CHOOSE j \in 0..Len(queue) : Least(j)
  BY DEF Popped, Enough
<1> HIDE DEF Least
<1>9. Popped(live, queue) \in 0..Len(queue) /\ Least(Popped(live, queue))
  BY <1>7, <1>8
<1> QED BY <1>9 DEF Least

(* What stays in an ascending queue when its first k members are popped.    *)
LEMMA RestOfQueue ==
  ASSUME NEW q \in Seq(Nat), Ascending(q), NEW k \in 0..Len(q)
  PROVE  /\ SubSeq(q, k + 1, Len(q)) \in Seq(Nat)
         /\ Ascending(SubSeq(q, k + 1, Len(q)))
         /\ Members(SubSeq(q, k + 1, Len(q))) = Members(q) \ {q[i] : i \in 1..k}
<1> DEFINE r == SubSeq(q, k + 1, Len(q))
           n == Len(q)
<1>0. n \in Nat /\ k \in Nat /\ k <= n /\ \A i \in 1..n : q[i] \in Nat
  OBVIOUS
<1>1. /\ r \in Seq(Nat) /\ Len(r) = n - k
      /\ \A i \in 1..(n - k) : r[i] = q[k + i]
  <2>1. \A i \in (k + 1)..n : q[i] \in Nat
    BY <1>0
  <2>2. /\ r \in Seq(Nat) /\ Len(r) = IF k + 1 <= n THEN n - (k + 1) + 1 ELSE 0
        /\ \A i \in 1..(n - (k + 1) + 1) : r[i] = q[k + 1 + i - 1]
    BY <1>0, <2>1, SubSeqProperties
  <2> HIDE DEF r, n
  <2> QED BY <1>0, <2>2
<1> HIDE DEF r, n
<1>2. Ascending(r)
  <2> SUFFICES ASSUME NEW i \in 1..(n - k), NEW j \in 1..(n - k), i < j PROVE r[i] < r[j]
    BY <1>1 DEF Ascending
  <2>1. k + i \in 1..n /\ k + j \in 1..n /\ k + i < k + j
    BY <1>0
  <2> QED BY <1>1, <2>1 DEF Ascending, n
<1>3. ASSUME NEW x \in Members(r) PROVE x \in Members(q) \ {q[i] : i \in 1..k}
  <2>1. PICK i \in 1..(n - k) : x = q[k + i]
    BY <1>1 DEF Members
  <2>2. k + i \in 1..n /\ \A j \in 1..k : j \in 1..n /\ j < k + i
    BY <1>0
  <2>3. \A j \in 1..k : q[j] < q[k + i] /\ q[j] \in Nat /\ q[k + i] \in Nat
    BY <1>0, <2>2 DEF Ascending, n
  <2>4. \A j \in 1..k : q[j] # q[k + i]
    BY <2>3
  <2> QED BY <2>1, <2>2, <2>4 DEF Members, n
<1>4. ASSUME NEW x \in Members(q), x \notin {q[i] : i \in 1..k} PROVE x \in Members(r)
  <2>1. PICK j \in 1..n : x = q[j]
    BY DEF Members, n
  <2>2. j \notin 1..k
    BY <1>4, <2>1
  <2>3. j - k \in 1..(n - k) /\ k + (j - k) = j
    BY <1>0, <2>2
  <2> QED BY <1>1, <2>1, <2>3 DEF Members
<1> QED BY <1>1, <1>2, <1>3, <1>4 DEF r, n

-----------------------------------------------------------------------------
(* Map and queue of the store agree; handles are the numbers of insertions. *)
StoreInv ==
  /\ sequence \in 0..MaxInserts /\ now \in 0..MaxTime
  /\ order \in Seq(Nat) /\ Ascending(order)
  /\ Members(order) = DOMAIN handles
  /\ DOMAIN handles \subseteq 1..sequence
  /\ \A h \in DOMAIN handles : /\ handles[h].values \in Results
                               /\ handles[h].created_at \in 0..now
  /\ Cardinality(DOMAIN handles) <= MaxHandles + 1

Gone(h, created) == sequence - h >= MaxHandles \/ now - created > TTL

(* What prune_locked keeps, and why it drops the rest.                      *)
LEMMA PruneKeeps ==
  ASSUME StoreInv
  PROVE  /\ prune_locked.order \in Seq(Nat) /\ Ascending(prune_locked.order)
         /\ Members(prune_locked.order) = DOMAIN prune_locked.handles
         /\ DOMAIN prune_locked.handles \subseteq DOMAIN handles
         /\ \A h \in DOMAIN prune_locked.handles : prune_locked.handles[h] = handles[h]
         /\ IsFiniteSet(DOMAIN prune_locked.handles)
         /\ Cardinality(DOMAIN prune_locked.handles) <= MaxHandles
         /\ \A h \in DOMAIN handles \ DOMAIN prune_locked.handles :
              Gone(h, handles[h].created_at)
<1> DEFINE live == Unexpired
           q == Retained(order, live)
           k == Popped(live, q)
           popped == {q[i] : i \in 1..k}
<1>0. /\ sequence \in Nat /\ now \in Nat /\ MaxHandles \in Nat /\ TTL \in Nat
      /\ DOMAIN handles \subseteq 1..sequence
      /\ \A h \in DOMAIN handles : handles[h].created_at \in Nat
  BY LimitsAssumption DEF StoreInv
<1>1. live \subseteq DOMAIN handles /\ \A h \in DOMAIN handles \ live : now - handles[h].created_at > TTL
  BY <1>0 DEF Unexpired
<1> HIDE DEF live
<1>2. q \in Seq(Nat) /\ Ascending(q) /\ Members(q) = live
  <2>1. Members(order) \cap live = live
    BY <1>1 DEF StoreInv
  <2> QED BY <2>1, RetainedMembers DEF StoreInv
<1> HIDE DEF q
<1>3. k \in 0..Len(q) /\ Enough(live, q, k) /\ \A n \in 0..(k - 1) : ~Enough(live, q, n)
  BY <1>2, PoppedLeast
<1> HIDE DEF k
<1>4. prune_locked = [handles |-> Restrict(handles, live \ popped),
                      order |-> SubSeq(q, k + 1, Len(q))]
  BY DEF prune_locked, live, q, k
<1>5. /\ prune_locked.order = SubSeq(q, k + 1, Len(q))
      /\ DOMAIN prune_locked.handles = live \ popped
      /\ \A h \in live \ popped : prune_locked.handles[h] = handles[h]
  <2> HIDE DEF popped
  <2> QED BY <1>4 DEF Restrict
<1>6. /\ prune_locked.order \in Seq(Nat) /\ Ascending(prune_locked.order)
      /\ Members(prune_locked.order) = live \ popped
  BY <1>2, <1>3, <1>5, RestOfQueue
<1>7. \A S \in SUBSET (1..sequence) : IsFiniteSet(S)
  <2>1. IsFiniteSet(1..sequence)
    BY <1>0, FS_Interval
  <2> QED BY <2>1, FS_Subset
<1>8. live \in SUBSET (1..sequence) /\ live \ popped \in SUBSET (1..sequence)
  BY <1>0, <1>1
<1>9. Cardinality(live \ popped) <= MaxHandles
  <2>1. CASE k = Len(q)
    <3>1. live \ popped = {}
      BY <1>2, <2>1 DEF Members
    <3> QED BY <1>0, <3>1, FS_EmptySet
  <2>2. CASE k # Len(q)
    BY <1>3, <2>2 DEF Enough
  <2> QED BY <2>1, <2>2
<1>10. ASSUME NEW h \in popped PROVE sequence - h >= MaxHandles
  <2>1. PICK i \in 1..k : h = q[i]
    OBVIOUS
  <2>2. /\ Len(q) \in Nat /\ i \in 1..Len(q) /\ i - 1 \in 0..(k - 1) /\ i - 1 # Len(q)
        /\ i - 1 \in Nat
    BY <1>2, <1>3
  <2>3. h \in live /\ h \in 1..sequence
    BY <1>2, <1>8, <2>1, <2>2 DEF Members
  <2> DEFINE rest == live \ {q[j] : j \in 1..(i - 1)}
  <2>4. ~(Cardinality(rest) <= MaxHandles)
    BY <1>3, <2>2 DEF Enough
  <2>5. rest \subseteq h..sequence
    <3>1. ASSUME NEW x \in rest PROVE x \in h..sequence
      <4>1. PICK j \in 1..Len(q) : x = q[j]
        BY <1>2 DEF Members
      <4>2. j \notin 1..(i - 1)
        BY <4>1
      <4>3. j = i \/ i < j
        BY <2>2, <4>2
      <4>4. x = h \/ h < x
        BY <1>2, <2>1, <2>2, <4>1, <4>3 DEF Ascending
      <4>5. x \in 1..sequence
        BY <1>8
      <4> QED BY <1>0, <2>3, <4>4, <4>5
    <3> QED BY <3>1
  <2>6. /\ IsFiniteSet(h..sequence)
        /\ Cardinality(h..sequence) = sequence - h + 1
    BY <1>0, <2>3, FS_Interval
  <2>7. Cardinality(rest) <= sequence - h + 1 /\ Cardinality(rest) \in Nat
    <3> HIDE DEF rest
    <3>1. Cardinality(rest) <= Cardinality(h..sequence) /\ IsFiniteSet(rest)
      BY <2>5, <2>6, FS_Subset
    <3> QED BY <2>6, <3>1, FS_CardinalityType
  <2> HIDE DEF rest
  <2> QED BY <1>0, <2>3, <2>4, <2>7
<1>11. \A h \in DOMAIN handles \ (live \ popped) : Gone(h, handles[h].created_at)
  BY <1>1, <1>10 DEF Gone
<1> HIDE DEF popped
<1> QED BY <1>1, <1>5, <1>6, <1>7, <1>8, <1>9, <1>11

(* Every operation prunes; the store stays in order, and what it drops is   *)
(* gone for a reason.                                                       *)
LEMMA PruneStoreInv ==
  ASSUME StoreInv, handles' = prune_locked.handles, order' = prune_locked.order,
         UNCHANGED <<sequence, now>>
  PROVE  StoreInv'
<1>1. \A h \in DOMAIN handles' : h \in DOMAIN handles /\ handles'[h] = handles[h]
  BY PruneKeeps
<1>2. Cardinality(DOMAIN handles') <= MaxHandles + 1
  <2>1. Cardinality(DOMAIN handles') \in Nat /\ Cardinality(DOMAIN handles') <= MaxHandles
    BY PruneKeeps, FS_CardinalityType
  <2> QED BY <2>1, LimitsAssumption
<1>3. Members(order') = DOMAIN handles' /\ order' \in Seq(Nat) /\ Ascending(order')
  BY PruneKeeps
<1> QED BY <1>1, <1>2, <1>3 DEF StoreInv

(* insert prunes and then adds the new handle at the end of the queue: it   *)
(* is larger than every handle before it.                                   *)
LEMMA InsertStoreInv ==
  ASSUME StoreInv, NEW v \in Results,
         sequence < MaxInserts, sequence' = sequence + 1, now' = now,
         order' = Append(prune_locked.order, sequence'),
         handles' = [h \in DOMAIN prune_locked.handles \cup {sequence'} |->
                       IF h = sequence' THEN [values |-> v, created_at |-> now]
                       ELSE prune_locked.handles[h]]
  PROVE  /\ StoreInv'
         /\ DOMAIN handles' = DOMAIN prune_locked.handles \cup {sequence'}
         /\ sequence' \notin DOMAIN handles
<1> DEFINE q == prune_locked.order
           D == DOMAIN prune_locked.handles
           n == Len(q)
<1>0. /\ sequence \in Nat /\ now \in Nat /\ sequence' \in 0..MaxInserts /\ MaxHandles \in Nat
      /\ MaxInserts \in Nat
  BY LimitsAssumption DEF StoreInv
<1>1. /\ q \in Seq(Nat) /\ Ascending(q) /\ Members(q) = D /\ D \subseteq DOMAIN handles
      /\ \A h \in D : prune_locked.handles[h] = handles[h]
      /\ IsFiniteSet(D) /\ Cardinality(D) <= MaxHandles /\ D \subseteq 1..sequence
  BY PruneKeeps DEF StoreInv
<1>2. DOMAIN handles' = D \cup {sequence'}
  OBVIOUS
<1>3. sequence' \notin DOMAIN handles /\ sequence' \notin D
  BY <1>0, <1>1 DEF StoreInv
<1>4. \A h \in DOMAIN handles' : handles'[h].values \in Results /\ handles'[h].created_at \in 0..now
  <2>1. ASSUME NEW h \in D PROVE handles'[h] = handles[h] /\ h \in DOMAIN handles
    BY <1>1, <1>3
  <2>2. handles'[sequence'] = [values |-> v, created_at |-> now]
    OBVIOUS
  <2>3. handles'[sequence'].values \in Results /\ handles'[sequence'].created_at \in 0..now
    BY <1>0, <2>2
  <2>4. \A h \in D : handles'[h].values \in Results /\ handles'[h].created_at \in 0..now
    BY <2>1 DEF StoreInv
  <2> HIDE DEF D
  <2> QED BY <1>2, <2>3, <2>4
<1>5. Cardinality(DOMAIN handles') <= MaxHandles + 1
  <2>1. Cardinality(D) \in Nat /\ Cardinality(D \cup {sequence'}) = Cardinality(D) + 1
    BY <1>1, <1>3, FS_CardinalityType, FS_AddElement
  <2> QED BY <1>0, <1>1, <1>2, <2>1
<1> HIDE DEF q, D
<1>6. /\ order' \in Seq(Nat) /\ Len(order') = n + 1 /\ n \in Nat
      /\ \A i \in 1..n : order'[i] = q[i] /\ q[i] \in Nat
      /\ order'[n + 1] = sequence'
  BY <1>0, <1>1 DEF q
<1>7. \A i \in 1..n : q[i] < sequence'
  <2>1. \A i \in 1..n : q[i] \in 1..sequence
    BY <1>1 DEF Members
  <2> QED BY <1>0, <2>1
<1>8. Ascending(order')
  <2> SUFFICES ASSUME NEW i \in 1..(n + 1), NEW j \in 1..(n + 1), i < j PROVE order'[i] < order'[j]
    BY <1>6 DEF Ascending
  <2>1. i \in 1..n /\ (j \in 1..n \/ j = n + 1)
    BY <1>6
  <2>2. CASE j = n + 1
    BY <1>6, <1>7, <2>1, <2>2
  <2>3. CASE j \in 1..n
    BY <1>1, <1>6, <2>1, <2>3 DEF Ascending
  <2> QED BY <2>1, <2>2, <2>3
<1>9. Members(order') = D \cup {sequence'}
  <2>1. 1..(n + 1) = (1..n) \cup {n + 1}
    BY <1>6
  <2>2. Members(order') = {order'[i] : i \in 1..n} \cup {order'[n + 1]}
    BY <1>6, <2>1 DEF Members
  <2>3. {order'[i] : i \in 1..n} = Members(q)
    BY <1>6 DEF Members, n
  <2> QED BY <1>1, <1>6, <2>2, <2>3
<1>10. DOMAIN handles' \subseteq 1..sequence'
  BY <1>0, <1>1, <1>2
<1> QED BY <1>0, <1>2, <1>3, <1>4, <1>5, <1>6, <1>8, <1>9, <1>10 DEF StoreInv, D

-----------------------------------------------------------------------------
(* A page takes what fits, at least one row if there is one.                *)
LEMMA PageRowsFit ==
  ASSUME NEW rest, Len(rest) \in Nat
  PROVE  /\ PageRows(rest) \in 0..Len(rest)
         /\ PageRows(rest) <= PageSize
         /\ PageRows(rest) >= 2 => Fits(rest, PageRows(rest))
         /\ PageRows(rest) = 0 => Len(rest) = 0
<1> DEFINE L == Len(rest)
           Full(n) == n = L \/ n = PageSize \/ (n >= 1 /\ ~Fits(rest, n + 1))
           T == {n \in 0..L : n <= PageSize /\ Full(n)}
           Page(n) == /\ n <= PageSize
                      /\ \A m \in 2..n : Fits(rest, m)
                      /\ n = Len(rest) \/ n = PageSize \/ (n >= 1 /\ ~Fits(rest, n + 1))
<1>0. PageSize \in Nat /\ PageSize # 0 /\ L \in Nat
  BY LimitsAssumption
<1>1. T # {} /\ T \in SUBSET Nat
  <2>1. CASE L <= PageSize
    <3>1. L \in T
      BY <1>0, <2>1
    <3> QED BY <1>0, <3>1
  <2>2. CASE ~(L <= PageSize)
    <3>1. PageSize \in T
      BY <1>0, <2>2
    <3> QED BY <1>0, <3>1
  <2> QED BY <2>1, <2>2
<1>2. PICK n \in T : \A m \in T : n <= m
  <2> HIDE DEF T
  <2> QED BY <1>1, LeastNatural
<1>3. n \in 0..L /\ n <= PageSize /\ Full(n)
  BY <1>2
<1>4. ASSUME NEW m \in 2..n PROVE Fits(rest, m)
  <2>1. /\ m - 1 \in 0..L /\ m - 1 <= PageSize /\ ~(n <= m - 1) /\ m - 1 >= 1 /\ (m - 1) + 1 = m
    BY <1>0, <1>3
  <2>2. ~Full(m - 1)
    BY <1>2, <2>1
  <2> QED BY <2>1, <2>2
<1>5. n \in 0..Len(rest) /\ Page(n)
  BY <1>3, <1>4
<1>6. PageRows(rest) = CHOOSE j \in 0..Len(rest) : Page(j)
  BY DEF PageRows
<1>7. PageRows(rest) \in 0..Len(rest) /\ Page(PageRows(rest))
  <2> HIDE DEF Page
  <2> QED BY <1>5, <1>6
<1> QED BY <1>0, <1>7

(* The length of a page depends on its rows alone.                          *)
LEMMA PageBytes ==
  ASSUME NEW rest, NEW n \in Nat, NEW rows, \A i \in 1..n : rows[i] = rest[i]
  PROVE  Fits(rows, n) <=> Fits(rest, n)
<1>1. [i \in 1..n |-> Size[rows[i]]] = [i \in 1..n |-> Size[rest[i]]]
  OBVIOUS
<1>2. ArrayBytes(rows, n) = ArrayBytes(rest, n)
  BY <1>1 DEF ArrayBytes
<1> QED BY <1>2 DEF Fits

(* The rows from an offset on, cut to a page, continue what was received.   *)
LEMMA NextPage ==
  ASSUME NEW v \in Seq(DOMAIN Size), NEW o \in 0..Len(v)
  PROVE  LET rest == SubSeq(v, o + 1, Len(v))
             rows == SubSeq(rest, 1, PageRows(rest))
         IN  /\ rows \in Seq(DOMAIN Size) /\ o + Len(rows) \in o..Len(v)
             /\ SubSeq(v, 1, o) \o rows = SubSeq(v, 1, o + Len(rows))
             /\ Len(SubSeq(v, 1, o)) = o
             /\ Len(rows) = 0 => o = Len(v)
             /\ Len(rows) <= PageSize /\ (Len(rows) <= 1 \/ Fits(rows, Len(rows)))
<1> DEFINE D == DOMAIN Size
           L == Len(v)
           rest == SubSeq(v, o + 1, L)
           n == PageRows(rest)
           rows == SubSeq(rest, 1, n)
<1>0. /\ L \in Nat /\ o \in Nat /\ o <= L /\ \A i \in 1..L : v[i] \in D
  OBVIOUS
<1>1. /\ rest \in Seq(D) /\ Len(rest) = L - o
      /\ \A i \in 1..(L - o) : rest[i] = v[o + i]
  <2>1. \A i \in (o + 1)..L : v[i] \in D
    BY <1>0
  <2>2. /\ rest \in Seq(D) /\ Len(rest) = IF o + 1 <= L THEN L - (o + 1) + 1 ELSE 0
        /\ \A i \in 1..(L - (o + 1) + 1) : rest[i] = v[o + 1 + i - 1]
    BY <1>0, <2>1, SubSeqProperties
  <2> HIDE DEF rest, L
  <2> QED BY <1>0, <2>2
<1> HIDE DEF rest
<1>2. n \in 0..(L - o) /\ n <= PageSize /\ (n >= 2 => Fits(rest, n)) /\ (n = 0 => L - o = 0)
  <2>1. Len(rest) \in Nat
    BY <1>1
  <2> QED BY <1>1, <2>1, PageRowsFit
<1> HIDE DEF n
<1>3. rows \in Seq(D) /\ Len(rows) = n /\ \A i \in 1..n : rows[i] = rest[i]
  <2>1. \A i \in 1..n : rest[i] \in D
    BY <1>0, <1>1, <1>2
  <2>2. n \in Int /\ n \in Nat
    BY <1>0, <1>2
  <2>3. /\ rows \in Seq(D) /\ Len(rows) = IF 1 <= n THEN n - 1 + 1 ELSE 0
        /\ \A i \in 1..(n - 1 + 1) : rows[i] = rest[1 + i - 1]
    BY <2>1, <2>2, SubSeqProperties
  <2> HIDE DEF rows
  <2> QED BY <2>2, <2>3
<1> HIDE DEF rows
<1>4. /\ SubSeq(v, 1, o) \in Seq(D) /\ Len(SubSeq(v, 1, o)) = o
      /\ \A i \in 1..o : SubSeq(v, 1, o)[i] = v[i]
  <2>1. /\ SubSeq(v, 1, o) \in Seq(D) /\ Len(SubSeq(v, 1, o)) = IF 1 <= o THEN o - 1 + 1 ELSE 0
        /\ \A i \in 1..(o - 1 + 1) : SubSeq(v, 1, o)[i] = v[1 + i - 1]
    <3>1. \A i \in 1..o : v[i] \in D
      BY <1>0
    <3> QED BY <1>0, <3>1, SubSeqProperties
  <2> QED BY <1>0, <2>1
<1>5. /\ SubSeq(v, 1, o + n) \in Seq(D) /\ Len(SubSeq(v, 1, o + n)) = o + n
      /\ \A i \in 1..(o + n) : SubSeq(v, 1, o + n)[i] = v[i]
  <2>1. \A i \in 1..(o + n) : v[i] \in D
    BY <1>0, <1>2
  <2>2. o + n \in Nat
    BY <1>0, <1>2
  <2>3. /\ SubSeq(v, 1, o + n) \in Seq(D)
        /\ Len(SubSeq(v, 1, o + n)) = IF 1 <= o + n THEN (o + n) - 1 + 1 ELSE 0
        /\ \A i \in 1..((o + n) - 1 + 1) : SubSeq(v, 1, o + n)[i] = v[1 + i - 1]
    BY <2>1, <2>2, SubSeqProperties
  <2> QED BY <2>2, <2>3
<1>6. SubSeq(v, 1, o) \o rows = SubSeq(v, 1, o + n)
  <2> DEFINE a == SubSeq(v, 1, o)
             b == SubSeq(v, 1, o + n)
  <2>1. /\ a \o rows \in Seq(D) /\ Len(a \o rows) = o + n
        /\ \A i \in 1..(o + n) : (a \o rows)[i] = IF i <= o THEN a[i] ELSE rows[i - o]
    <3>1. a \in Seq(D) /\ Len(a) = o
      BY <1>4
    <3> HIDE DEF a
    <3> QED BY <1>3, <3>1, ConcatProperties
  <2>2. ASSUME NEW i \in 1..(o + n) PROVE (a \o rows)[i] = b[i]
    <3>1. CASE i <= o
      BY <1>0, <1>4, <1>5, <2>1, <3>1
    <3>2. CASE ~(i <= o)
      <4>1. i - o \in 1..n /\ i - o \in 1..(L - o) /\ o + (i - o) = i
        BY <1>0, <1>2, <3>2
      <4>2. rows[i - o] = v[i]
        BY <1>1, <1>3, <4>1
      <4> QED BY <1>5, <2>1, <3>2, <4>2
    <3> QED BY <3>1, <3>2
  <2>3. b \in Seq(D) /\ Len(b) = o + n
    BY <1>5
  <2> HIDE DEF a, b
  <2>4. a \o rows = b
    BY <2>1, <2>2, <2>3, SeqEqual
  <2> QED BY <2>4 DEF a, b
<1>7. n \in Nat /\ (Fits(rows, n) <=> Fits(rest, n))
  BY <1>0, <1>2, <1>3, PageBytes
<1>8. Len(rows) <= 1 \/ Fits(rows, Len(rows))
  BY <1>2, <1>3, <1>7
<1>9. o + Len(rows) \in o..L /\ (Len(rows) = 0 => o = L) /\ Len(rows) <= PageSize
  BY <1>0, <1>2, <1>3
<1> QED BY <1>3, <1>4, <1>6, <1>8, <1>9 DEF rows, rest, n

-----------------------------------------------------------------------------
Rows == Seq(DOMAIN Size)

ClientTypes ==
  /\ status \in [Clients -> {"idle", "open", "done", "lost"}]
  /\ handle \in [Clients -> Nat] /\ asked \in [Clients -> Nat] /\ offset \in [Clients -> Nat]
  /\ result \in [Clients -> Rows] /\ got \in [Clients -> Rows] /\ page \in [Clients -> Rows]

(* The store has the result that an open client asked for, or had to drop   *)
(* it; a client has the first rows of its result, up to its offset.         *)
ClientInv(c) ==
  /\ handle[c] \in 0..sequence /\ asked[c] \in 0..now
  /\ result[c] \in Results \cup {<<>>}
  /\ offset[c] \in 0..Len(result[c])
  /\ got[c] = SubSeq(result[c], 1, offset[c])
  /\ status[c] = "open" =>
       IF handle[c] \in DOMAIN handles
       THEN handles[handle[c]].values = result[c] /\ handles[handle[c]].created_at = asked[c]
       ELSE Gone(handle[c], asked[c])
  /\ status[c] = "lost" => Gone(handle[c], asked[c])
  /\ Len(page[c]) <= PageSize
  /\ Len(page[c]) <= 1 \/ Fits(page[c], Len(page[c]))

IInv == StoreInv /\ ClientTypes /\ \A c \in Clients : ClientInv(c)

(* An empty store and clients that have asked for nothing.                  *)
LEMMA InitIInv == Init => IInv
<1> SUFFICES ASSUME Init PROVE IInv
  OBVIOUS
<1>0. /\ PageSize \in Nat /\ MaxInserts \in Nat /\ MaxTime \in Nat /\ MaxHandles \in Nat
      /\ <<>> \in Rows
  BY LimitsAssumption DEF Rows
<1>1. DOMAIN handles = {} /\ order \in Seq(Nat) /\ Len(order) = 0
  BY DEF Init
<1>2. Cardinality(DOMAIN handles) = 0
  BY <1>1, FS_EmptySet
<1>3. StoreInv
  BY <1>0, <1>1, <1>2 DEF Init, StoreInv, Ascending, Members
<1>4. ClientTypes
  BY <1>0 DEF Init, ClientTypes
<1>5. SubSeq(<<>>, 1, 0) = <<>>
  BY SubSeqEmpty
<1>6. \A c \in Clients : ClientInv(c)
  BY <1>0, <1>5 DEF Init, ClientInv
<1> QED BY <1>3, <1>4, <1>6 DEF IInv

(* What holds of a client stays so while others use the store and time      *)
(* passes.                                                                  *)
LEMMA Bystander ==
  ASSUME StoreInv, StoreInv', ClientTypes, NEW c \in Clients, ClientInv(c),
         sequence' >= sequence, now' >= now,
         handle[c] \in DOMAIN handles' =>
           handle[c] \in DOMAIN handles /\ handles'[handle[c]] = handles[handle[c]],
         handle[c] \in DOMAIN handles \ DOMAIN handles' =>
           Gone(handle[c], handles[handle[c]].created_at),
         status'[c] = status[c], handle'[c] = handle[c], asked'[c] = asked[c],
         result'[c] = result[c], offset'[c] = offset[c], got'[c] = got[c], page'[c] = page[c]
  PROVE  ClientInv(c)'
<1>0. /\ sequence \in Nat /\ sequence' \in Nat /\ now \in Nat /\ now' \in Nat
      /\ MaxHandles \in Nat /\ TTL \in Nat /\ handle[c] \in Nat /\ asked[c] \in Nat
  BY LimitsAssumption DEF StoreInv, ClientTypes
<1>1. Gone(handle[c], asked[c]) => (sequence' - handle[c] >= MaxHandles \/ now' - asked[c] > TTL)
  BY <1>0 DEF Gone
<1>2. Gone(handle[c], asked[c]) => Gone(handle[c], asked[c])'
  BY <1>1 DEF Gone
<1>3. handle'[c] \in 0..sequence' /\ asked'[c] \in 0..now'
  BY <1>0 DEF ClientInv
<1>4. status[c] = "open" =>
        IF handle[c] \in DOMAIN handles'
        THEN handles'[handle[c]].values = result[c] /\ handles'[handle[c]].created_at = asked[c]
        ELSE Gone(handle[c], asked[c])
  BY DEF ClientInv
<1> HIDE DEF Gone
<1> QED BY <1>2, <1>3, <1>4 DEF ClientInv

(* Pruning alone, as in every operation but the insertion.                  *)
LEMMA PruneBystander ==
  ASSUME IInv, handles' = prune_locked.handles, order' = prune_locked.order,
         UNCHANGED <<sequence, now>>, NEW c \in Clients,
         status'[c] = status[c], handle'[c] = handle[c], asked'[c] = asked[c],
         result'[c] = result[c], offset'[c] = offset[c], got'[c] = got[c], page'[c] = page[c]
  PROVE  ClientInv(c)'
<1>0. sequence \in Nat /\ now \in Nat
  BY DEF IInv, StoreInv
<1>1. StoreInv /\ StoreInv' /\ ClientTypes /\ ClientInv(c)
  BY PruneStoreInv DEF IInv
<1>2. /\ \A h \in DOMAIN handles' : h \in DOMAIN handles /\ handles'[h] = handles[h]
      /\ \A h \in DOMAIN handles \ DOMAIN handles' : Gone(h, handles[h].created_at)
  BY <1>1, PruneKeeps
<1>3. sequence' >= sequence /\ now' >= now
  BY <1>0
<1> QED BY <1>1, <1>2, <1>3, Bystander

(* A query of one client may evict the results of others, never in silence: *)
(* what is dropped is Gone.                                                 *)
LEMMA InsertIInv == ASSUME IInv, NEW c \in Clients, Insert(c) PROVE IInv'
<1>1. PICK v \in Results :
        /\ order' = Append(prune_locked.order, sequence')
        /\ handles' = [h \in DOMAIN prune_locked.handles \cup {sequence'} |->
                         IF h = sequence' THEN [values |-> v, created_at |-> now]
                         ELSE prune_locked.handles[h]]
        /\ result' = [result EXCEPT ![c] = v]
  BY DEF Insert
<1>2. /\ sequence < MaxInserts /\ sequence' = sequence + 1 /\ now' = now
      /\ status' = [status EXCEPT ![c] = "open"]
      /\ handle' = [handle EXCEPT ![c] = sequence']
      /\ asked' = [asked EXCEPT ![c] = now]
      /\ offset' = [offset EXCEPT ![c] = 0]
      /\ got' = [got EXCEPT ![c] = <<>>]
      /\ page' = [page EXCEPT ![c] = <<>>]
  BY DEF Insert
<1>3. /\ StoreInv /\ ClientTypes /\ sequence \in Nat /\ now \in Nat /\ PageSize \in Nat
      /\ v \in Rows /\ <<>> \in Rows
  BY LimitsAssumption DEF IInv, StoreInv, Rows
<1>4. /\ StoreInv'
      /\ DOMAIN handles' = DOMAIN prune_locked.handles \cup {sequence'}
      /\ sequence' \notin DOMAIN handles
  BY <1>1, <1>2, <1>3, InsertStoreInv
<1>5. ClientTypes'
  BY <1>1, <1>2, <1>3 DEF ClientTypes
<1>6. ASSUME NEW d \in Clients, d # c PROVE ClientInv(d)'
  <2>1. /\ status'[d] = status[d] /\ handle'[d] = handle[d] /\ asked'[d] = asked[d]
        /\ result'[d] = result[d] /\ offset'[d] = offset[d] /\ got'[d] = got[d]
        /\ page'[d] = page[d]
    BY <1>1, <1>2, <1>3, <1>6 DEF ClientTypes
  <2>2. sequence' >= sequence /\ now' >= now
    BY <1>2, <1>3
  <2>3. ClientInv(d) /\ handle[d] \in 0..sequence
    BY <1>6 DEF IInv, ClientInv
  <2>4. handle[d] # sequence'
    BY <1>2, <1>3, <2>3
  <2>5. /\ \A h \in DOMAIN prune_locked.handles :
             h \in DOMAIN handles /\ prune_locked.handles[h] = handles[h]
        /\ \A h \in DOMAIN handles \ DOMAIN prune_locked.handles : Gone(h, handles[h].created_at)
    BY <1>3, PruneKeeps
  <2>6. handle[d] \in DOMAIN handles' =>
          handle[d] \in DOMAIN handles /\ handles'[handle[d]] = handles[handle[d]]
    BY <1>1, <1>4, <2>4, <2>5
  <2>7. handle[d] \in DOMAIN handles \ DOMAIN handles' =>
          Gone(handle[d], handles[handle[d]].created_at)
    BY <1>4, <2>5
  <2> QED BY <1>3, <1>4, <2>1, <2>2, <2>3, <2>6, <2>7, Bystander
<1>7. ClientInv(c)'
  <2>1. /\ status'[c] = "open" /\ handle'[c] = sequence' /\ asked'[c] = now /\ result'[c] = v
        /\ offset'[c] = 0 /\ got'[c] = <<>> /\ page'[c] = <<>>
    BY <1>1, <1>2, <1>3 DEF ClientTypes
  <2>2. handles'[sequence'] = [values |-> v, created_at |-> now] /\ sequence' \in DOMAIN handles'
    BY <1>1, <1>4
  <2>3. SubSeq(v, 1, 0) = <<>> /\ Len(v) \in Nat /\ sequence' \in 0..sequence' /\ now \in 0..now'
    BY <1>2, <1>3, SubSeqEmpty DEF Rows
  <2>4. handles'[handle'[c]].values = result'[c] /\ handles'[handle'[c]].created_at = asked'[c]
    BY <2>1, <2>2
  <2>5. 0 \in 0..Len(v) /\ Len(page'[c]) = 0
    BY <2>1, <2>3
  <2> QED BY <1>3, <2>1, <2>2, <2>3, <2>4, <2>5 DEF ClientInv
<1> QED BY <1>4, <1>5, <1>6, <1>7 DEF IInv

(* A page is the next part of the client's own result.                      *)
LEMMA FetchedRows ==
  ASSUME IInv, NEW c \in Clients, Fetch(c)
  PROVE  \E rows \in Rows :
           LET n == offset[c] + Len(rows) IN
           /\ n \in offset[c]..Len(result[c])
           /\ Len(rows) = 0 => offset[c] = Len(result[c])
           /\ Len(rows) <= PageSize /\ (Len(rows) <= 1 \/ Fits(rows, Len(rows)))
           /\ got[c] \o rows = SubSeq(result[c], 1, n) /\ Len(got[c]) = offset[c]
           /\ page' = [page EXCEPT ![c] = rows]
           /\ got' = [got EXCEPT ![c] = got[c] \o rows]
           /\ offset' = [offset EXCEPT ![c] = n]
           /\ status' = [status EXCEPT ![c] = IF n < Len(result[c]) THEN "open" ELSE "done"]
<1>1. /\ status[c] = "open" /\ handle[c] \in DOMAIN handles' /\ handles' = prune_locked.handles
  BY DEF Fetch
<1>2. handle[c] \in DOMAIN handles /\ handles'[handle[c]] = handles[handle[c]]
  BY <1>1, PruneKeeps DEF IInv
<1>3. handles'[handle[c]].values = result[c]
  BY <1>1, <1>2 DEF IInv, ClientInv
<1> DEFINE v == result[c]
           o == offset[c]
           rest == SubSeq(v, o + 1, Len(v))
           rows == SubSeq(rest, 1, PageRows(rest))
<1>4. v \in Seq(DOMAIN Size) /\ o \in 0..Len(v) /\ got[c] = SubSeq(v, 1, o)
  BY DEF IInv, ClientInv, ClientTypes, Rows
<1>5. /\ page' = [page EXCEPT ![c] = rows]
      /\ got' = [got EXCEPT ![c] = got[c] \o rows]
      /\ offset' = [offset EXCEPT ![c] = o + Len(rows)]
      /\ status' = [status EXCEPT ![c] = IF o + Len(rows) < Len(v) THEN "open" ELSE "done"]
  BY <1>3 DEF Fetch
<1>6. /\ rows \in Seq(DOMAIN Size) /\ o + Len(rows) \in o..Len(v)
      /\ SubSeq(v, 1, o) \o rows = SubSeq(v, 1, o + Len(rows))
      /\ Len(SubSeq(v, 1, o)) = o
      /\ Len(rows) = 0 => o = Len(v)
      /\ Len(rows) <= PageSize /\ (Len(rows) <= 1 \/ Fits(rows, Len(rows)))
  <2> HIDE DEF v, o
  <2> QED BY <1>4, NextPage
<1> HIDE DEF rows
<1> QED BY <1>4, <1>5, <1>6 DEF Rows

(* A page served keeps the rows received a prefix of the result.            *)
LEMMA FetchIInv == ASSUME IInv, NEW c \in Clients, Fetch(c) PROVE IInv'
<1>1. PICK rows \in Rows :
           /\ offset[c] + Len(rows) \in offset[c]..Len(result[c])
           /\ Len(rows) <= PageSize /\ (Len(rows) <= 1 \/ Fits(rows, Len(rows)))
           /\ got[c] \o rows = SubSeq(result[c], 1, offset[c] + Len(rows))
           /\ page' = [page EXCEPT ![c] = rows]
           /\ got' = [got EXCEPT ![c] = got[c] \o rows]
           /\ offset' = [offset EXCEPT ![c] = offset[c] + Len(rows)]
           /\ status' = [status EXCEPT ![c] = IF offset[c] + Len(rows) < Len(result[c])
                                              THEN "open" ELSE "done"]
  BY FetchedRows
<1>2. /\ handles' = prune_locked.handles /\ order' = prune_locked.order
      /\ status[c] = "open" /\ handle[c] \in DOMAIN handles'
      /\ UNCHANGED <<sequence, now, handle, asked, result>>
  BY DEF Fetch
<1>3. StoreInv /\ ClientTypes /\ StoreInv'
  BY <1>2, PruneStoreInv DEF IInv
<1>4. offset[c] \in Nat /\ Len(rows) \in Nat /\ got[c] \o rows \in Rows /\ Len(result[c]) \in Nat
  BY <1>3 DEF ClientTypes, Rows
<1>5. ClientTypes'
  BY <1>1, <1>2, <1>3, <1>4 DEF ClientTypes
<1>6. ASSUME NEW d \in Clients, d # c PROVE ClientInv(d)'
  <2>1. /\ status'[d] = status[d] /\ handle'[d] = handle[d] /\ asked'[d] = asked[d]
        /\ result'[d] = result[d] /\ offset'[d] = offset[d] /\ got'[d] = got[d]
        /\ page'[d] = page[d]
    BY <1>1, <1>2, <1>3, <1>6 DEF ClientTypes
  <2> QED BY <1>2, <2>1, PruneBystander
<1>7. ClientInv(c)'
  <2>1. /\ status'[c] # "lost" /\ handle'[c] = handle[c] /\ asked'[c] = asked[c]
        /\ result'[c] = result[c] /\ offset'[c] = offset[c] + Len(rows)
        /\ got'[c] = got[c] \o rows /\ page'[c] = rows
    BY <1>1, <1>2, <1>3 DEF ClientTypes
  <2>2. /\ ClientInv(c) /\ handle[c] \in DOMAIN handles
        /\ handles'[handle[c]] = handles[handle[c]]
    BY <1>2, <1>3, PruneKeeps DEF IInv
  <2>3. handles'[handle[c]].values = result[c] /\ handles'[handle[c]].created_at = asked[c]
    BY <1>2, <2>2 DEF ClientInv
  <2>4. offset[c] + Len(rows) \in 0..Len(result[c])
    BY <1>1, <1>4
  <2> QED BY <1>1, <1>2, <2>1, <2>2, <2>3, <2>4 DEF ClientInv
<1> QED BY <1>3, <1>5, <1>6, <1>7 DEF IInv

(* An unknown handle: the result was dropped before or is dropped now.      *)
LEMMA FetchFailsIInv == ASSUME IInv, NEW c \in Clients, FetchFails(c) PROVE IInv'
<1>1. /\ handles' = prune_locked.handles /\ order' = prune_locked.order
      /\ status[c] = "open" /\ handle[c] \notin DOMAIN handles'
      /\ status' = [status EXCEPT ![c] = "lost"]
      /\ UNCHANGED <<sequence, now, handle, asked, result, offset, got, page>>
  BY DEF FetchFails
<1>2. StoreInv /\ ClientTypes /\ StoreInv'
  BY <1>1, PruneStoreInv DEF IInv
<1>3. ClientTypes'
  BY <1>1, <1>2 DEF ClientTypes
<1>4. ASSUME NEW d \in Clients, d # c PROVE ClientInv(d)'
  <2>1. status'[d] = status[d]
    BY <1>1, <1>2, <1>4 DEF ClientTypes
  <2> QED BY <1>1, <2>1, PruneBystander
<1>5. ClientInv(c)'
  <2>1. status'[c] = "lost" /\ ClientInv(c)
    BY <1>1, <1>2 DEF ClientTypes, IInv
  <2>2. Gone(handle[c], asked[c])
    <3>1. CASE handle[c] \in DOMAIN handles
      <4>1. handles[handle[c]].created_at = asked[c]
        BY <1>1, <2>1, <3>1 DEF ClientInv
      <4>2. Gone(handle[c], handles[handle[c]].created_at)
        BY <1>1, <1>2, <3>1, PruneKeeps
      <4> QED BY <4>1, <4>2
    <3>2. CASE handle[c] \notin DOMAIN handles
      BY <1>1, <2>1, <3>2 DEF ClientInv
    <3> QED BY <3>1, <3>2
  <2>3. Gone(handle[c], asked[c])'
    BY <1>1, <2>2 DEF Gone
  <2> QED BY <1>1, <2>1, <2>3 DEF ClientInv
<1> QED BY <1>2, <1>3, <1>4, <1>5 DEF IInv

(* Every step of the server and of the clock keeps the invariant.           *)
LEMMA NextIInv == IInv /\ [Next]_vars => IInv'
<1> SUFFICES ASSUME IInv, [Next]_vars PROVE IInv'
  OBVIOUS
<1>1. CASE Tick
  <2>1. /\ now' = now + 1 /\ now < MaxTime
        /\ UNCHANGED <<sequence, handles, order, status, handle, asked, result, offset, got, page>>
    BY <1>1 DEF Tick, store, client
  <2>2. /\ StoreInv /\ ClientTypes /\ sequence \in Nat /\ now \in Nat /\ MaxTime \in Nat
    BY LimitsAssumption DEF IInv, StoreInv
  <2>3. now' \in 0..MaxTime /\ now' >= now /\ sequence' >= sequence
        /\ \A i \in 0..now : i \in 0..now'
    BY <2>1, <2>2
  <2>4. StoreInv'
    BY <2>1, <2>2, <2>3 DEF StoreInv
  <2>5. ClientTypes'
    BY <2>1, <2>2 DEF ClientTypes
  <2>6. ASSUME NEW c \in Clients PROVE ClientInv(c)'
    <3>1. ClientInv(c)
      BY DEF IInv
    <3> QED BY <2>1, <2>2, <2>3, <2>4, <3>1, Bystander
  <2> QED BY <2>4, <2>5, <2>6 DEF IInv
<1>2. CASE FetchElsewhere
  <2>1. /\ handles' = prune_locked.handles /\ order' = prune_locked.order
        /\ UNCHANGED <<sequence, now, status, handle, asked, result, offset, got, page>>
    BY <1>2 DEF FetchElsewhere, client
  <2>2. StoreInv' /\ ClientTypes'
    BY <2>1, PruneStoreInv DEF IInv, ClientTypes
  <2>3. \A c \in Clients : ClientInv(c)'
    BY <2>1, PruneBystander
  <2> QED BY <2>2, <2>3 DEF IInv
<1>3. CASE UNCHANGED vars
  <2>1. UNCHANGED <<sequence, now, handles, order, status, handle, asked, result, offset, got, page>>
    BY <1>3 DEF vars, store, client
  <2>2. StoreInv' /\ ClientTypes'
    BY <2>1 DEF IInv, StoreInv, ClientTypes
  <2>3. \A c \in Clients : ClientInv(c)'
    BY <2>1 DEF IInv, ClientInv, Gone
  <2> QED BY <2>2, <2>3 DEF IInv
<1> QED BY <1>1, <1>2, <1>3, InsertIInv, FetchIInv, FetchFailsIInv DEF Next

(* Whatever is inserted, fetched, expired and evicted in whatever order,    *)
(* the store and its clients agree as IInv says.                            *)
THEOREM Invariance == Spec => []IInv
  BY InitIInv, NextIInv, PTL DEF Spec

-----------------------------------------------------------------------------
(* Handles, clocks and offsets stay in their ranges: no offset passes the   *)
(* end of the result it belongs to.                                         *)
THEOREM TypeCorrect == Spec => []TypeOK
<1>1. IInv => TypeOK
  <2> SUFFICES ASSUME IInv PROVE TypeOK
    OBVIOUS
  <2>1. handle \in [Clients -> 0..sequence]
    BY DEF IInv, ClientTypes, ClientInv
  <2>2. /\ sequence \in 0..MaxInserts /\ now \in 0..MaxTime
        /\ DOMAIN handles \subseteq 1..sequence
        /\ \A h \in DOMAIN handles : /\ handles[h].values \in Results
                                     /\ handles[h].created_at \in 0..now
    BY DEF IInv, StoreInv
  <2>3. /\ status \in [Clients -> {"idle", "open", "done", "lost"}]
        /\ \A c \in Clients : /\ result[c] \in Results \cup {<<>>}
                              /\ offset[c] \in 0..Len(result[c])
    BY DEF IInv, ClientTypes, ClientInv
  <2> QED BY <2>1, <2>2, <2>3 DEF TypeOK
<1> QED BY <1>1, Invariance, PTL

(* prune_locked leaves map and queue in agreement, the queue in the order   *)
(* of insertion, and an insertion passes the limit by one at most.          *)
THEOREM StoreStaysBounded == Spec => []StoreBounded
<1>1. IInv => StoreBounded
  <2> SUFFICES ASSUME StoreInv PROVE StoreBounded
    BY DEF IInv
  <2>1. DOMAIN order = 1..Len(order)
    BY DEF StoreInv
  <2> QED BY <2>1 DEF StoreInv, StoreBounded, Ascending, Members
<1> QED BY <1>1, Invariance, PTL

(* A handle is only ever unknown to its client when its result has expired  *)
(* or as many results as the store holds were inserted after it.            *)
THEOREM LossHasCause == Spec => []LostMeansDisplaced
<1>1. IInv => LostMeansDisplaced
  BY DEF IInv, ClientInv, LostMeansDisplaced, Gone
<1> QED BY <1>1, Invariance, PTL

(* page_value keeps to the page size and to the byte limit, which counts    *)
(* brackets and separators; only a single row may be longer.                *)
THEOREM PagesWithinLimits == Spec => []PageWithinLimits
<1>1. IInv => PageWithinLimits
  BY DEF IInv, ClientInv, PageWithinLimits
<1> QED BY <1>1, Invariance, PTL

(* Every step of the store is a step of Paging or invisible to clients.     *)
LEMMA StepIsPaging == ASSUME IInv, [Next]_vars PROVE [P!PagingNext]_(P!pagingVars)
<1>1. ASSUME NEW c \in Clients, Insert(c) PROVE P!Open(c)
  BY <1>1 DEF Insert, P!Open
<1>2. ASSUME NEW c \in Clients, Fetch(c) PROVE P!Deliver(c)
  <2>1. PICK rows \in Rows :
             /\ offset[c] + Len(rows) \in offset[c]..Len(result[c])
             /\ Len(rows) = 0 => offset[c] = Len(result[c])
             /\ got[c] \o rows = SubSeq(result[c], 1, offset[c] + Len(rows))
             /\ Len(got[c]) = offset[c]
             /\ got' = [got EXCEPT ![c] = got[c] \o rows]
             /\ status' = [status EXCEPT ![c] = IF offset[c] + Len(rows) < Len(result[c])
                                                THEN "open" ELSE "done"]
    BY <1>2, FetchedRows
  <2>2. status[c] = "open" /\ result' = result
    BY <1>2 DEF Fetch
  <2> DEFINE n == offset[c] + Len(rows)
  <2>3. offset[c] \in Nat /\ Len(rows) \in Nat /\ Len(result[c]) \in Nat
    BY DEF IInv, ClientTypes, Rows
  <2>4. /\ n \in Len(got[c])..Len(result[c])
        /\ n = Len(got[c]) => n = Len(result[c])
        /\ n < Len(result[c]) <=> n # Len(result[c])
    BY <2>1, <2>3
  <2>5. got' = [got EXCEPT ![c] = SubSeq(result[c], 1, n)]
    BY <2>1
  <2>6. status' = [status EXCEPT ![c] = IF n = Len(result[c]) THEN "done" ELSE status[c]]
    <3> HIDE DEF n
    <3>1. status' = [status EXCEPT ![c] = IF n < Len(result[c]) THEN "open" ELSE "done"]
      BY <2>1 DEF n
    <3> QED BY <2>2, <2>4, <3>1
  <2> HIDE DEF n
  <2> QED BY <2>2, <2>4, <2>5, <2>6 DEF P!Deliver
<1>3. ASSUME NEW c \in Clients, FetchFails(c) PROVE P!Lose(c)
  BY <1>3 DEF FetchFails, P!Lose
<1>4. CASE Tick \/ FetchElsewhere \/ UNCHANGED vars
  <2>1. UNCHANGED <<status, result, got>>
    BY <1>4 DEF Tick, FetchElsewhere, vars, client
  <2> QED BY <2>1 DEF P!pagingVars
<1>5. CASE \E c \in Clients : Insert(c) \/ Fetch(c) \/ FetchFails(c)
  BY <1>1, <1>2, <1>3, <1>5 DEF P!PagingNext
<1> QED BY <1>4, <1>5 DEF Next

(* However the store prunes, its clients see Paging's steps only: every     *)
(* client receives the rows of its own result, in order and each once, and  *)
(* no page is empty while rows are left.                                    *)
THEOREM ImplementsPagingSafety == Spec => P!PagingSafety
<1>1. Init => P!PagingInit
  BY DEF Init, P!PagingInit
<1>2. IInv /\ [Next]_vars => [P!PagingNext]_(P!pagingVars)
  BY StepIsPaging
<1> QED BY <1>1, <1>2, Invariance, PTL DEF Spec, P!PagingSafety
=============================================================================
