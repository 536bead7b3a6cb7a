--------------------------- MODULE DeltaChainProofs ---------------------------
(***************************************************************************)
(* Proofs about DeltaChain, for any objects, properties, columns, writers   *)
(* and chain lengths, in three parts.                                       *)
(*                                                                         *)
(* Reads as of a commit sequence number: the invariant IInv keeps the CSN   *)
(* ranges of the chain in order and the references of records within their  *)
(* delta.  What readback computes plays no part: the proofs show that the   *)
(* sets of records are the same.                                            *)
(*                                                                         *)
(* Readback: the records of an object have an order, the state is that of   *)
(* all records but the last with the last one applied, and so the last      *)
(* record decides.  The invariant TInv says of every built delta how its    *)
(* rows lie with respect to the states of the parent it names; updates,     *)
(* checkpoints, compaction and what makes a chain unreadable follow from it.*)
(*                                                                         *)
(* Reads as of a commit time, where all deltas are built by the tools of    *)
(* this repository: the invariant CommitInv.                                *)
(***************************************************************************)
EXTENDS DeltaChain, SetInduction

(* Rows that refer to rows among them, of the same object and earlier.      *)
RefsWithin(rows) ==
  \A k \in DOMAIN rows : rows[k].prev # 0 =>
    /\ rows[k].prev \in DOMAIN rows
    /\ rows[rows[k].prev].obj = rows[k].obj
    /\ rows[rows[k].prev].ts < rows[k].ts

(* A delta whose header bounds the CSNs of its rows.                        *)
HeaderBounds(d) ==
  /\ d.csnMin \in Nat \ {0}
  /\ d.csnMax \in Nat
  /\ d.csnMin <= d.csnMax
  /\ \A k \in DOMAIN d.rows : /\ d.rows[k].csn \in Nat
                               /\ d.csnMin <= d.rows[k].csn /\ d.rows[k].csn <= d.csnMax
  /\ RefsWithin(d.rows)

(* The CSN ranges of any two deltas of the chain are disjoint and in order; *)
(* the summary compares neighbours only.                                    *)
AppendOnly(ch) ==
  /\ \A i \in DOMAIN ch : HeaderBounds(ch[i])
  /\ \A i, j \in DOMAIN ch : i < j => ch[i].csnMax < ch[j].csnMin

SlotsBounded == \A w \in Writers : slot[w] # NoArtifact => HeaderBounds(slot[w].delta)

(* The inductive invariant.  Chain and slots are a sequence and a function  *)
(* into some sets: the values in their rows come out of readback, and no    *)
(* proof needs to know them.                                                *)
IInv ==
  /\ \E S : chain \in Seq(S)
  /\ \E S : slot \in [Writers -> S]
  /\ AppendOnly(chain)
  /\ SlotsBounded
  /\ \A k \in DOMAIN base : base[k].prev = 0
  /\ created \in Nat

-----------------------------------------------------------------------------
(* The maximum of a finite set of integers.                                 *)
LEMMA MaxOfFinite ==
  ASSUME NEW S \in SUBSET Int, IsFiniteSet(S), S # {}
  PROVE  MaxOf(S) \in S /\ \A x \in S : x <= MaxOf(S)
<1>1. \E x \in S : \A y \in S : y <= x
  BY FiniteExtremes
<1> QED BY <1>1 DEF MaxOf

(* CsnMax of a chain is a number that no delta of the chain exceeds.        *)
LEMMA CsnMaxBounds ==
  ASSUME NEW S, NEW ch \in Seq(S), AppendOnly(ch)
  PROVE  /\ CsnMax(ch) \in Nat
         /\ CsnMax(ch) = 0 \/ \E i \in DOMAIN ch : CsnMax(ch) = ch[i].csnMax
<1> DEFINE T == {0} \cup {ch[i].csnMax : i \in DOMAIN ch}
<1>1. T \subseteq Nat
  BY DEF AppendOnly, HeaderBounds
<1>2. \E x \in T : \A y \in T : y <= x
  <2>1. CASE Len(ch) = 0
    BY <2>1
  <2>2. CASE Len(ch) # 0
    <3>1. Len(ch) \in DOMAIN ch /\ DOMAIN ch = 1..Len(ch) /\ Len(ch) \in Nat
      BY <2>2
    <3>2. \A i \in DOMAIN ch : ch[i].csnMax <= ch[Len(ch)].csnMax
      BY <3>1 DEF AppendOnly, HeaderBounds
    <3>3. 0 <= ch[Len(ch)].csnMax
      BY <3>1 DEF AppendOnly, HeaderBounds
    <3> QED
      BY <3>1, <3>2, <3>3
  <2> QED
    BY <2>1, <2>2
<1>3. MaxOf(T) \in T
  BY <1>2 DEF MaxOf
<1> QED
  BY <1>1, <1>3 DEF CsnMax

(* Appending a delta that the summary accepts keeps the chain append-only:  *)
(* from neighbours to all pairs.                                            *)
LEMMA AppendKeepsOrder ==
  ASSUME NEW S, NEW ch \in Seq(S), AppendOnly(ch),
         NEW d, HeaderBounds(d), SummaryValid(Append(ch, d))
  PROVE  AppendOnly(Append(ch, d))
<1> DEFINE ext == Append(ch, d)
           n == Len(ch)
<1>1. /\ n \in Nat /\ DOMAIN ch = 1..n /\ DOMAIN ext = 1..(n + 1)
      /\ \A i \in 1..n : ext[i] = ch[i]
      /\ ext[n + 1] = d
  <2>1. ch \in Seq(S \cup {d}) /\ d \in S \cup {d}
    OBVIOUS
  <2> QED
    BY <2>1
<1>0. SummaryValid(ext)
  OBVIOUS
<1> HIDE DEF ext, n
<1>2. \A i \in 1..n : HeaderBounds(ch[i])
  BY <1>1 DEF AppendOnly
<1>3. \A i, j \in 1..n : i < j => ch[i].csnMax < ch[j].csnMin
  BY <1>1 DEF AppendOnly
<1>4. n > 0 => ch[n].csnMax < d.csnMin
  <2> SUFFICES ASSUME n > 0 PROVE ch[n].csnMax < d.csnMin
    OBVIOUS
  <2>1. n + 1 \in DOMAIN ext /\ n + 1 > 1 /\ (n + 1) - 1 = n
    BY <1>1
  <2>2. ext[(n + 1) - 1].csnMax < ext[n + 1].csnMin
    BY <1>0, <2>1 DEF SummaryValid
  <2> QED
    BY <2>1, <2>2, <1>1
<1>5. \A i \in 1..n : ch[i].csnMax < d.csnMin
  <2> SUFFICES ASSUME NEW i \in 1..n PROVE ch[i].csnMax < d.csnMin
    OBVIOUS
  <2>1. CASE i = n
    BY <2>1, <1>1, <1>4
  <2>2. CASE i < n
    <3>1. n \in 1..n /\ ch[i].csnMax < ch[n].csnMin
      BY <2>2, <1>1, <1>3
    <3> QED
      BY <3>1, <1>1, <1>2, <1>4 DEF HeaderBounds
  <2> QED
    BY <1>1, <2>1, <2>2
<1>6. \A i \in 1..(n + 1) : HeaderBounds(ext[i])
  BY <1>1, <1>2
<1>7. \A i, j \in 1..(n + 1) : i < j => ext[i].csnMax < ext[j].csnMin
  <2> SUFFICES ASSUME NEW i \in 1..(n + 1), NEW j \in 1..(n + 1), i < j
               PROVE  ext[i].csnMax < ext[j].csnMin
    OBVIOUS
  <2>1. i \in 1..n /\ (j \in 1..n \/ j = n + 1)
    BY <1>1
  <2> QED
    BY <2>1, <1>1, <1>3, <1>5
<1> QED
  BY <1>1, <1>6, <1>7 DEF AppendOnly, ext

-----------------------------------------------------------------------------
(* The initial states have no chain and no built delta.                     *)
LEMMA InitIInv == Init => IInv
<1> SUFFICES ASSUME Init PROVE IInv
  OBVIOUS
<1>1. chain \in Seq({})
  BY DEF Init
<1>2. slot \in [Writers -> {NoArtifact}]
  BY DEF Init
<1>3. AppendOnly(chain)
  BY DEF Init, AppendOnly
<1>4. SlotsBounded
  BY DEF Init, SlotsBounded
<1>5. (\A k \in DOMAIN base : base[k].prev = 0) /\ created \in Nat
  BY DEF Init
<1> QED
  BY <1>1, <1>2, <1>3, <1>4, <1>5 DEF IInv

(* A writer that builds a delta with a truthful header keeps the invariant. *)
LEMMA BuildKeepsIInv ==
  ASSUME IInv, NEW w \in Writers, NEW a, HeaderBounds(a.delta),
         slot' = [slot EXCEPT ![w] = a], chain' = chain, base' = base,
         created' = created
  PROVE  IInv'
<1>1. PICK S : slot \in [Writers -> S]
  BY DEF IInv
<1>2. slot' \in [Writers -> S \cup {a}]
  BY <1>1
<1>3. SlotsBounded'
  <2> SUFFICES ASSUME NEW v \in Writers, slot'[v] # NoArtifact
               PROVE  HeaderBounds(slot'[v].delta)
    BY DEF SlotsBounded, HeaderBounds, RefsWithin
  <2>1. CASE v = w
    BY <2>1, <1>1
  <2>2. CASE v # w
    <3>1. slot'[v] = slot[v]
      BY <2>2, <1>1
    <3> QED
      BY <3>1 DEF IInv, SlotsBounded
  <2> QED
    BY <2>1, <2>2
<1>4. \E T : chain' \in Seq(T)
  BY DEF IInv
<1>5. AppendOnly(chain)'
  BY DEF IInv, AppendOnly, HeaderBounds, RefsWithin
<1> QED
  BY <1>2, <1>3, <1>4, <1>5 DEF IInv

(* temporal_prev_refs: a reference is to the nearest row before that has    *)
(* the same object.                                                         *)
LEMMA StampedRefs ==
  ASSUME NEW n \in Nat, NEW plan, DOMAIN plan = 1..n, NEW cols, NEW csn \in Nat, NEW ts \in Nat,
         NEW parents
  PROVE  LET rows == StampedRows(plan, cols, csn, ts, parents) IN
         /\ DOMAIN rows = 1..n
         /\ \A k \in 1..n :
              /\ rows[k].obj = plan[k].obj /\ rows[k].ts = ts + k - 1
              /\ rows[k].prev \in Nat
              /\ rows[k].prev # 0 =>
                   /\ rows[k].kind # "Baseline"
                   /\ rows[k].prev \in 1..n /\ rows[k].prev < k
                   /\ rows[rows[k].prev].obj = rows[k].obj
                   /\ rows[rows[k].prev].ts < rows[k].ts
                   /\ \A l \in 1..n : rows[k].prev < l /\ l < k => rows[l].obj # rows[k].obj
<1> DEFINE rows == StampedRows(plan, cols, csn, ts, parents)
<1>1. DOMAIN rows = 1..n
  BY DEF StampedRows
<1>2. ASSUME NEW k \in 1..n
      PROVE  /\ rows[k].obj = plan[k].obj /\ rows[k].ts = ts + k - 1
             /\ rows[k].prev = PrevRef(plan, k, parents)
             /\ rows[k].kind = IF plan[k].dead THEN "Tombstone"
                               ELSE IF parents[plan[k].obj] # NoState THEN "Delta" ELSE "Baseline"
  BY DEF StampedRows
<1> HIDE DEF rows
<1>3. ASSUME NEW k \in 1..n
      PROVE  LET j == PrevRef(plan, k, parents) IN
             /\ j \in Nat
             /\ j # 0 => /\ parents[plan[k].obj] # NoState \/ plan[k].dead
                        /\ j \in 1..n /\ j < k /\ plan[j].obj = plan[k].obj
                        /\ \A l \in 1..n : j < l /\ l < k => plan[l].obj # plan[k].obj
  <2> DEFINE T == {0} \cup {j \in 1..(k - 1) : plan[j].obj = plan[k].obj}
  <2>1. T \in SUBSET (0..k) /\ T # {}
    OBVIOUS
  <2>2. IsFiniteSet(T) /\ T \in SUBSET Int
    <3> HIDE DEF T
    <3>1. IsFiniteSet(0..k) /\ \A x \in 0..k : x \in Int
      BY FS_Interval
    <3>2. IsFiniteSet(T)
      BY <2>1, <3>1, FS_Subset
    <3> QED BY <2>1, <3>1, <3>2
  <2>3. MaxOf(T) \in T /\ \A x \in T : x <= MaxOf(T)
    <3> HIDE DEF T
    <3> QED BY <2>1, <2>2, MaxOfFinite
  <2>4. PrevRef(plan, k, parents) = IF parents[plan[k].obj] # NoState \/ plan[k].dead THEN MaxOf(T) ELSE 0
    BY DEF PrevRef
  <2> DEFINE m == MaxOf(T)
  <2>5. m \in T /\ \A x \in T : x <= m
    BY <2>3
  <2> HIDE DEF m
  <2>6. m \in Nat /\ (m # 0 => m \in 1..n /\ m < k /\ plan[m].obj = plan[k].obj)
    BY <2>5
  <2>7. ASSUME NEW l \in 1..n, m < l, l < k, plan[l].obj = plan[k].obj PROVE FALSE
    <3>1. l \in T
      BY <2>7
    <3> QED BY <2>5, <2>6, <2>7, <3>1
  <2> QED BY <2>4, <2>6, <2>7 DEF m
<1>4. ASSUME NEW k \in 1..n
      PROVE  /\ rows[k].prev \in Nat
             /\ rows[k].prev # 0 =>
                   /\ rows[k].kind # "Baseline"
                   /\ rows[k].prev \in 1..n /\ rows[k].prev < k
                   /\ rows[rows[k].prev].obj = rows[k].obj
                   /\ rows[rows[k].prev].ts < rows[k].ts
                   /\ \A l \in 1..n : rows[k].prev < l /\ l < k => rows[l].obj # rows[k].obj
  <2> DEFINE j == PrevRef(plan, k, parents)
  <2>1. /\ j \in Nat
        /\ j # 0 => /\ parents[plan[k].obj] # NoState \/ plan[k].dead
                   /\ j \in 1..n /\ j < k /\ plan[j].obj = plan[k].obj
                   /\ \A l \in 1..n : j < l /\ l < k => plan[l].obj # plan[k].obj
    BY <1>3
  <2>2. rows[k].prev = j
    BY <1>2
  <2> HIDE DEF j
  <2>3. ASSUME j # 0 PROVE rows[k].kind # "Baseline"
    BY <1>2, <2>1, <2>3
  <2>4. ASSUME j # 0 PROVE rows[j].obj = rows[k].obj /\ rows[j].ts < rows[k].ts
    BY <1>2, <2>1, <2>4
  <2>5. ASSUME j # 0 PROVE \A l \in 1..n : j < l /\ l < k => rows[l].obj # rows[k].obj
    BY <1>2, <2>1, <2>5
  <2> QED BY <2>1, <2>2, <2>3, <2>4, <2>5
<1> QED BY <1>1, <1>2, <1>4 DEF rows

(* The rows of cove map are stamped from the header's csn_min on.           *)
LEMMA SemanticKeepsIInv ==
  ASSUME IInv, NEW w \in Writers, NEW csn \in Nat \ {0}, NEW ts \in Nat, NEW parents,
         BuildSemantic(w, csn, ts, parents), chain' = chain, base' = base,
         created' = created
  PROVE  IInv'
<1>1. PICK plan \in Plans, cols \in ColumnSets :
        slot' = [slot EXCEPT ![w] = Artifact(
          [csnMin |-> csn, csnMax |-> csn + (Len(plan) - 1), tStart |-> ts,
           tEnd |-> ts + (Len(plan) - 1),
           rows |-> StampedRows(plan, cols, csn, ts, parents)], "map")]
  BY DEF BuildSemantic
<1> DEFINE d == [csnMin |-> csn, csnMax |-> csn + (Len(plan) - 1), tStart |-> ts,
                 tEnd |-> ts + (Len(plan) - 1),
                 rows |-> StampedRows(plan, cols, csn, ts, parents)]
<1>2. PICK n \in 1..MaxRows : plan \in [1..n -> [obj : Objects, dead : BOOLEAN]]
  BY DEF Plans
<1>3. Len(plan) = n /\ DOMAIN plan = 1..n /\ n \in Nat /\ n >= 1
  BY <1>2, ChainAssumption DEF ChainAssumption
<1>4. \A k \in DOMAIN d.rows : d.rows[k].csn = csn + k - 1 /\ k \in 1..n
  BY <1>3 DEF StampedRows
<1>5. d.csnMin = csn /\ d.csnMax = csn + (n - 1) /\ d.rows = StampedRows(plan, cols, csn, ts, parents)
  BY <1>3
<1> HIDE DEF d
<1>9. RefsWithin(d.rows)
  <2> DEFINE rows == StampedRows(plan, cols, csn, ts, parents)
  <2>1. /\ DOMAIN rows = 1..n
        /\ \A k \in 1..n : rows[k].prev # 0 =>
             /\ rows[k].prev \in 1..n
             /\ rows[rows[k].prev].obj = rows[k].obj
             /\ rows[rows[k].prev].ts < rows[k].ts
    BY <1>3, StampedRefs
  <2> HIDE DEF rows
  <2>2. RefsWithin(rows)
    BY <2>1 DEF RefsWithin
  <2> QED BY <1>5, <2>2 DEF rows
<1>6. HeaderBounds(d)
  BY <1>3, <1>4, <1>5, <1>9 DEF HeaderBounds
<1>7. Artifact(d, "map").delta = d
  BY DEF Artifact
<1>8. slot' = [slot EXCEPT ![w] = Artifact(d, "map")]
  BY <1>1 DEF d
<1> QED
  BY <1>6, <1>7, <1>8, BuildKeepsIInv

(* chain-extend: the summary's check of neighbours is enough.               *)
LEMMA ExtendKeepsIInv ==
  ASSUME IInv, NEW w \in Writers, Extend(w)
  PROVE  IInv'
<1> DEFINE a == slot[w]
           ch == Append(chain, a.delta)
<1>1. a # NoArtifact /\ slot' = [slot EXCEPT ![w] = NoArtifact]
  BY DEF Extend
<1>2. PICK S : slot \in [Writers -> S]
  BY DEF IInv
<1>3. slot' \in [Writers -> S \cup {NoArtifact}]
  BY <1>1, <1>2
<1>4. SlotsBounded'
  <2> SUFFICES ASSUME NEW v \in Writers, slot'[v] # NoArtifact
               PROVE  HeaderBounds(slot'[v].delta)
    BY DEF SlotsBounded, HeaderBounds, RefsWithin
  <2>1. slot'[v] = slot[v]
    BY <1>1, <1>2
  <2> QED
    BY <2>1 DEF IInv, SlotsBounded
<1>5. PICK C : chain \in Seq(C)
  BY DEF IInv
<1>8. base' = base /\ created' \in Nat
  BY ChainAssumption DEF Extend, IInv, Times, ChainAssumption
<1>6. CASE SummaryValid(ch) /\ chain' = ch
  <2>1. HeaderBounds(a.delta)
    BY <1>1 DEF IInv, SlotsBounded
  <2>2. AppendOnly(ch)
    BY <1>5, <1>6, <2>1, AppendKeepsOrder DEF IInv
  <2>3. AppendOnly(chain)'
    BY <1>6, <2>2 DEF AppendOnly, HeaderBounds, RefsWithin
  <2>4. chain' \in Seq(C \cup {a.delta})
    <3>1. chain \in Seq(C \cup {a.delta}) /\ a.delta \in C \cup {a.delta}
      BY <1>5
    <3> QED
      BY <3>1, <1>6
  <2> QED
    BY <1>3, <1>4, <1>8, <2>3, <2>4 DEF IInv
<1>7. CASE chain' = chain
  <2>1. AppendOnly(chain)'
    BY <1>7 DEF IInv, AppendOnly, HeaderBounds, RefsWithin
  <2> QED
    BY <1>3, <1>4, <1>5, <1>7, <1>8, <2>1 DEF IInv
<1> QED
  BY <1>6, <1>7 DEF Extend

(* Every step keeps the invariant.                                          *)
LEMMA NextIInv == IInv /\ [Next]_vars => IInv'
<1> SUFFICES ASSUME IInv, [Next]_vars PROVE IInv'
  OBVIOUS
<1> USE ChainAssumption
<1>1. CASE Compact
  <2>1. chain' = <<>> /\ slot' = slot
    BY <1>1 DEF Compact
  <2>4. (\A k \in DOMAIN base' : base'[k].prev = 0) /\ created' \in Nat
    BY <1>1 DEF Compact, RowOf
  <2>2. chain' \in Seq({}) /\ AppendOnly(chain)'
    BY <2>1 DEF AppendOnly
  <2>3. SlotsBounded'
    BY <2>1 DEF IInv, SlotsBounded, HeaderBounds, RefsWithin
  <2> QED
    BY <2>1, <2>2, <2>3, <2>4 DEF IInv
<1>2. ASSUME NEW w \in Writers, BuildFirst(w) PROVE IInv'
  <2>1. PICK start \in FirstStarts :
          BuildSemantic(w, start[1], start[2], LatestStates)
    BY <1>2 DEF BuildFirst
  <2>2. start[1] \in Nat \ {0} /\ start[2] \in Nat
    BY DEF ChainAssumption
  <2>3. chain' = chain /\ base' = base /\ created' = created
    BY <1>2 DEF BuildFirst
  <2> QED
    BY <2>1, <2>2, <2>3, SemanticKeepsIInv
<1>3. ASSUME NEW w \in Writers, BuildDelta(w) PROVE IInv'
  <2>1. PICK now \in Times :
          BuildSemantic(w, CsnMax(chain) + 1, MaxOf({now, created + 1}), LatestStates)
    BY <1>3 DEF BuildDelta
  <2>2. CsnMax(chain) \in Nat
    BY CsnMaxBounds DEF IInv
  <2>3. CsnMax(chain) + 1 \in Nat \ {0}
    BY <2>2
  <2>4. chain' = chain /\ base' = base /\ created' = created
    BY <1>3 DEF BuildDelta
  <2>5. MaxOf({now, created + 1}) \in Nat
    <3>1. now \in Nat /\ created + 1 \in Nat
      BY DEF IInv, Times, ChainAssumption
    <3>2. \E x \in {now, created + 1} : \A y \in {now, created + 1} : y <= x
      BY <3>1
    <3> QED BY <3>1, <3>2 DEF MaxOf
  <2> QED
    BY <2>1, <2>3, <2>4, <2>5, SemanticKeepsIInv
<1>4. ASSUME NEW w \in Writers, BuildForeign(w) PROVE IInv'
  <2>1. PICK o \in Objects, kind \in ForeignKinds, cols \in ColumnSets,
             csn \in Csns, lo \in Csns, hi \in Csns, ts \in Times, t \in Times :
          /\ lo <= csn /\ csn <= hi
          /\ slot' = [slot EXCEPT ![w] = Artifact(
               [csnMin |-> lo, csnMax |-> hi, tStart |-> t, tEnd |-> t,
                rows |-> <<[obj |-> o, kind |-> kind, csn |-> csn, ts |-> ts,
                            vals |-> [p \in cols |-> csn], prev |-> 0]>>], "foreign")]
    BY <1>4 DEF BuildForeign
  <2> DEFINE r == [obj |-> o, kind |-> kind, csn |-> csn, ts |-> ts,
                   vals |-> [p \in cols |-> csn], prev |-> 0]
             d == [csnMin |-> lo, csnMax |-> hi, tStart |-> t, tEnd |-> t, rows |-> <<r>>]
  <2>2. r.csn = csn /\ r.prev = 0
    OBVIOUS
  <2>3. d.csnMin = lo /\ d.csnMax = hi /\ d.rows = <<r>>
    OBVIOUS
  <2>4. slot' = [slot EXCEPT ![w] = Artifact(d, "foreign")]
    BY <2>1
  <2> HIDE DEF r, d
  <2>5. HeaderBounds(d)
    BY <2>1, <2>2, <2>3 DEF HeaderBounds, RefsWithin, Csns, ChainAssumption
  <2>6. Artifact(d, "foreign").delta = d
    BY DEF Artifact
  <2>7. chain' = chain /\ base' = base /\ created' = created
    BY <1>4 DEF BuildForeign
  <2> QED
    BY <2>4, <2>5, <2>6, <2>7, BuildKeepsIInv
<1>5. ASSUME NEW w \in Writers, BuildCheckpoint(w) PROVE IInv'
  <2> DEFINE st == LatestStates
             csn == CheckpointCsn(st)
             ts == CheckpointTime(st)
  <2>1. PICK order \in Orders(Live(st)) :
          slot' = [slot EXCEPT ![w] = Artifact(
            [csnMin |-> csn, csnMax |-> csn, tStart |-> ts, tEnd |-> ts,
             rows |-> [i \in DOMAIN order |->
                         RowOf(order[i], st[order[i]], "Snapshot", csn, ts)]],
            "checkpoint")]
    BY <1>5 DEF BuildCheckpoint
  <2>2. csn \in Csns /\ chain' = chain /\ base' = base /\ created' = created
    BY <1>5 DEF BuildCheckpoint
  <2> HIDE DEF st, csn, ts
  <2> DEFINE d == [csnMin |-> csn, csnMax |-> csn, tStart |-> ts, tEnd |-> ts,
                   rows |-> [i \in DOMAIN order |->
                               RowOf(order[i], st[order[i]], "Snapshot", csn, ts)]]
  <2>3. d.csnMin = csn /\ d.csnMax = csn
    OBVIOUS
  <2>4. \A k \in DOMAIN d.rows : d.rows[k].csn = csn /\ d.rows[k].prev = 0
    BY DEF RowOf
  <2>5. slot' = [slot EXCEPT ![w] = Artifact(d, "checkpoint")]
    BY <2>1
  <2> HIDE DEF d
  <2>6. HeaderBounds(d)
    BY <2>2, <2>3, <2>4 DEF HeaderBounds, RefsWithin, Csns, ChainAssumption
  <2>7. Artifact(d, "checkpoint").delta = d
    BY DEF Artifact
  <2> QED
    BY <2>2, <2>5, <2>6, <2>7, BuildKeepsIInv
<1>6. ASSUME NEW w \in Writers, Extend(w) PROVE IInv'
  BY <1>6, ExtendKeepsIInv
<1>7. CASE UNCHANGED vars
  <2>1. chain' = chain /\ slot' = slot /\ base' = base /\ created' = created
    BY <1>7 DEF vars
  <2> QED
    BY <2>1 DEF IInv, AppendOnly, SlotsBounded, HeaderBounds, RefsWithin
<1> QED
  BY <1>1, <1>2, <1>3, <1>4, <1>5, <1>6, <1>7 DEF Next

(* The CSN ranges of the chain stay in order and headers bound their rows, *)
(* whatever the writers, their clocks and the other tools do.              *)
THEOREM ChainInvariance == Spec => []IInv
  BY InitIInv, NextIInv, PTL DEF Spec

-----------------------------------------------------------------------------
(* References within a delta hold whatever deltas are read.                 *)
LEMMA PlacedRefs ==
  ASSUME NEW b, \A k \in DOMAIN b : b[k].prev = 0, NEW ch, NEW ordinals,
         \A i \in ordinals : RefsWithin(ch[i].rows)
  PROVE  PrevRefsValid(Placed(b, ch, ordinals))
<1> SUFFICES ASSUME NEW x \in Placed(b, ch, ordinals), x.rec.prev # 0
             PROVE  \E y \in Placed(b, ch, ordinals) :
                      Refers(x, y) /\ y.rec.obj = x.rec.obj /\ Before(y, x)
  BY DEF PrevRefsValid
<1>1. ~(\E k \in DOMAIN b : x = [rec |-> b[k], ord |-> 0, row |-> k])
  OBVIOUS
<1>2. PICK i \in ordinals : \E k \in DOMAIN ch[i].rows :
        x = [rec |-> ch[i].rows[k], ord |-> i, row |-> k]
  BY <1>1 DEF Placed
<1>3. PICK k \in DOMAIN ch[i].rows : x = [rec |-> ch[i].rows[k], ord |-> i, row |-> k]
  BY <1>2
<1> DEFINE j == ch[i].rows[k].prev
           y == [rec |-> ch[i].rows[j], ord |-> i, row |-> j]
<1>4. /\ x.rec = ch[i].rows[k] /\ x.ord = i
      /\ y.rec = ch[i].rows[j] /\ y.ord = i /\ y.row = j
  BY <1>3
<1>5. j # 0 /\ j \in DOMAIN ch[i].rows /\ ch[i].rows[j].obj = ch[i].rows[k].obj
      /\ ch[i].rows[j].ts < ch[i].rows[k].ts
  BY <1>4 DEF RefsWithin
<1>6. y \in Placed(b, ch, ordinals)
  BY <1>5 DEF Placed
<1>7. Refers(x, y) /\ y.rec.obj = x.rec.obj /\ Before(y, x)
  <2> HIDE DEF y
  <2> QED BY <1>4, <1>5 DEF Refers, Before
<1> QED BY <1>6, <1>7

(* Two reads whose references hold and which see the same records agree.    *)
LEMMA SameSeen ==
  ASSUME NEW A, NEW B, NEW cut, PrevRefsValid(A), PrevRefsValid(B),
         {x \in A : Visible(x.rec, cut)} = {x \in B : Visible(x.rec, cut)}
  PROVE  Reconstruct(A, cut) = Reconstruct(B, cut)
  BY DEF Reconstruct

(* A delta that an as-of-CSN plan skips has no row that the cut sees.       *)
LEMMA SkippedIsInvisible ==
  ASSUME NEW n \in Nat, NEW ch, AppendOnly(ch), NEW i \in DOMAIN ch,
         Skipped(ch[i], AtCsn(n)), NEW k \in DOMAIN ch[i].rows
  PROVE  ~Visible(ch[i].rows[k], AtCsn(n))
<1>1. n < ch[i].csnMin
  BY DEF Skipped, AtCsn
<1>2. ch[i].csnMin \in Nat /\ ch[i].rows[k].csn \in Nat /\ ch[i].csnMin <= ch[i].rows[k].csn
  BY DEF AppendOnly, HeaderBounds
<1>3. ~(ch[i].rows[k].csn <= n)
  BY <1>1, <1>2
<1> QED
  BY <1>3 DEF Visible, AtCsn

(* What an as-of-CSN plan selects: the deltas that start at or below it.    *)
LEMMA SelectedByCsn ==
  ASSUME NEW n \in Nat, NEW ch
  PROVE  Selected(ch, AtCsn(n)) = {i \in DOMAIN ch : ~(n < ch[i].csnMin)}
  BY DEF Selected, Skipped, AtCsn

(* Pruning an append-only chain by CSN selects a prefix of it and loses no  *)
(* record that the cut sees.                                                *)
LEMMA PruningKeepsRecords ==
  ASSUME NEW S, NEW ch \in Seq(S), AppendOnly(ch), NEW n \in Nat,
         NEW b, \A k \in DOMAIN b : b[k].prev = 0
  PROVE  /\ DensePrefix(Selected(ch, AtCsn(n)))
         /\ ReadAt(b, ch, AtCsn(n)) = Everything(b, ch, AtCsn(n))
<1>1. DensePrefix(Selected(ch, AtCsn(n)))
  <2> SUFFICES ASSUME NEW i \in DOMAIN ch, ~(n < ch[i].csnMin), NEW j \in 1..i
               PROVE  j \in DOMAIN ch /\ ~(n < ch[j].csnMin)
    BY SelectedByCsn DEF DensePrefix
  <2>1. DOMAIN ch = 1..Len(ch) /\ Len(ch) \in Nat
    OBVIOUS
  <2>2. j \in DOMAIN ch
    BY <2>1
  <2>3. j = i \/ j < i
    BY <2>1
  <2>4. HeaderBounds(ch[i]) /\ HeaderBounds(ch[j])
    BY <2>2 DEF AppendOnly
  <2>5. j < i => ch[j].csnMax < ch[i].csnMin
    BY <2>2 DEF AppendOnly
  <2> QED
    BY <2>2, <2>3, <2>4, <2>5 DEF HeaderBounds
<1>2. {x \in Placed(b, ch, Selected(ch, AtCsn(n))) : Visible(x.rec, AtCsn(n))}
        = {x \in Placed(b, ch, DOMAIN ch) : Visible(x.rec, AtCsn(n))}
  <2> DEFINE sel == Selected(ch, AtCsn(n))
  <2>1. sel \subseteq DOMAIN ch
    BY DEF Selected
  <2>2. ASSUME NEW x \in Placed(b, ch, sel) PROVE x \in Placed(b, ch, DOMAIN ch)
    BY <2>1 DEF Placed
  <2>3. ASSUME NEW x \in Placed(b, ch, DOMAIN ch), Visible(x.rec, AtCsn(n))
        PROVE  x \in Placed(b, ch, sel)
    <3>1. CASE \E k \in DOMAIN b : x = [rec |-> b[k], ord |-> 0, row |-> k]
      BY <3>1 DEF Placed
    <3>2. CASE \E i \in DOMAIN ch : \E k \in DOMAIN ch[i].rows :
                 x = [rec |-> ch[i].rows[k], ord |-> i, row |-> k]
      <4>1. PICK i \in DOMAIN ch : \E k \in DOMAIN ch[i].rows :
                 x = [rec |-> ch[i].rows[k], ord |-> i, row |-> k]
        BY <3>2
      <4>2. PICK k \in DOMAIN ch[i].rows : x = [rec |-> ch[i].rows[k], ord |-> i, row |-> k]
        BY <4>1
      <4>3. x.rec = ch[i].rows[k]
        BY <4>2
      <4>4. ~Skipped(ch[i], AtCsn(n))
        BY <2>3, <4>3, SkippedIsInvisible
      <4>5. i \in sel
        BY <4>4 DEF Selected
      <4> HIDE DEF sel
      <4> QED
        BY <4>2, <4>5 DEF Placed
    <3> QED
      BY <2>3, <3>1, <3>2 DEF Placed
  <2> HIDE DEF sel
  <2>4. {x \in Placed(b, ch, sel) : Visible(x.rec, AtCsn(n))}
          = {x \in Placed(b, ch, DOMAIN ch) : Visible(x.rec, AtCsn(n))}
    BY <2>2, <2>3
  <2> QED
    BY <2>4 DEF sel
<1>3. \A i \in DOMAIN ch : RefsWithin(ch[i].rows)
  BY DEF AppendOnly, HeaderBounds
<1>4. \A i \in Selected(ch, AtCsn(n)) : RefsWithin(ch[i].rows)
  BY <1>3 DEF Selected
<1>5. /\ PrevRefsValid(Placed(b, ch, DOMAIN ch))
      /\ PrevRefsValid(Placed(b, ch, Selected(ch, AtCsn(n))))
  BY <1>3, <1>4, PlacedRefs
<1> QED
  BY <1>1, <1>2, <1>5, SameSeen DEF ReadAt, Everything

(* Reads as of a CSN are exact whatever their plan skips, for every chain   *)
(* that chain-extend accepts, those with deltas of other tools included.    *)
THEOREM CsnPruning == Spec => []CsnPruningSound
<1>1. IInv => CsnPruningSound
  <2> SUFFICES ASSUME IInv, NEW n \in 0..MaxCsn
               PROVE  /\ DensePrefix(Selected(chain, AtCsn(n)))
                      /\ ReadAt(base, chain, AtCsn(n)) = Everything(base, chain, AtCsn(n))
    BY DEF CsnPruningSound
  <2>1. n \in Nat
    BY ChainAssumption DEF ChainAssumption
  <2> QED
    BY <2>1, PruningKeepsRecords DEF IInv
<1> QED
  BY <1>1, ChainInvariance, PTL

(* A delta that starts above n changes no read as of n.                     *)
LEMMA LaterDeltaUnseen ==
  ASSUME NEW S, NEW ch \in Seq(S), NEW d, NEW n \in Nat, n < d.csnMin, NEW b
  PROVE  ReadAt(b, Append(ch, d), AtCsn(n)) = ReadAt(b, ch, AtCsn(n))
<1> DEFINE ext == Append(ch, d)
<1>1. /\ Len(ch) \in Nat /\ DOMAIN ch = 1..Len(ch) /\ DOMAIN ext = 1..(Len(ch) + 1)
      /\ \A i \in DOMAIN ch : ext[i] = ch[i]
      /\ ext[Len(ch) + 1] = d
  <2>1. ch \in Seq(S \cup {d}) /\ d \in S \cup {d}
    OBVIOUS
  <2> QED
    BY <2>1
<1> HIDE DEF ext
<1>2. Selected(ext, AtCsn(n)) = Selected(ch, AtCsn(n))
  <2>1. \A i \in DOMAIN ch : i \in DOMAIN ext /\ ext[i].csnMin = ch[i].csnMin
    BY <1>1
  <2>2. \A i \in DOMAIN ext : ~(n < ext[i].csnMin) => i \in DOMAIN ch
    BY <1>1
  <2>3. Selected(ext, AtCsn(n)) = {i \in DOMAIN ext : ~(n < ext[i].csnMin)}
    BY SelectedByCsn
  <2>4. Selected(ch, AtCsn(n)) = {i \in DOMAIN ch : ~(n < ch[i].csnMin)}
    BY SelectedByCsn
  <2> QED
    BY <2>1, <2>2, <2>3, <2>4
<1>3. \A i \in Selected(ch, AtCsn(n)) : ext[i] = ch[i]
  BY <1>1 DEF Selected
<1>4. Placed(b, ext, Selected(ch, AtCsn(n))) = Placed(b, ch, Selected(ch, AtCsn(n)))
  <2> DEFINE sel == Selected(ch, AtCsn(n))
  <2>1. \A i \in sel : ext[i] = ch[i]
    BY <1>3
  <2> HIDE DEF sel
  <2>2. Placed(b, ext, sel) = Placed(b, ch, sel)
    BY <2>1 DEF Placed
  <2> QED
    BY <2>2 DEF sel
<1> QED
  BY <1>2, <1>4 DEF ReadAt, ext

(* No append changes a read as of a CSN that the chain has reached, for     *)
(* deltas of cove map, checkpoints and deltas of other tools alike.         *)
THEOREM SnapshotsStable == Spec => CsnSnapshotsStable
<1>1. IInv /\ [Next]_vars =>
        [chain' # <<>> =>
           \A n \in 0..CsnMax(chain) :
             ReadAt(base', chain', AtCsn(n)) = ReadAt(base, chain, AtCsn(n))]_vars
  <2> SUFFICES ASSUME IInv, [Next]_vars, chain' # <<>>, NEW n \in 0..CsnMax(chain)
               PROVE  ReadAt(base', chain', AtCsn(n)) = ReadAt(base, chain, AtCsn(n))
    OBVIOUS
  <2>1. CASE base' = base /\ chain' = chain
    BY <2>1
  <2>2. ASSUME NEW w \in Writers, Extend(w), chain' # chain
        PROVE  ReadAt(base', chain', AtCsn(n)) = ReadAt(base, chain, AtCsn(n))
    <3> DEFINE d == slot[w].delta
    <3>1. /\ slot[w] # NoArtifact /\ base' = base
          /\ SummaryValid(Append(chain, d)) /\ chain' = Append(chain, d)
      BY <2>2 DEF Extend
    <3>2. HeaderBounds(d)
      BY <3>1 DEF IInv, SlotsBounded
    <3>3. PICK S : chain \in Seq(S)
      BY DEF IInv
    <3>4. /\ CsnMax(chain) \in Nat
          /\ CsnMax(chain) = 0 \/ \E i \in DOMAIN chain : CsnMax(chain) = chain[i].csnMax
      BY <3>3, CsnMaxBounds DEF IInv
    <3> HIDE DEF d
    <3>5. \A i \in DOMAIN chain : chain[i].csnMax < d.csnMin
      <4>1. AppendOnly(Append(chain, d))
        BY <3>1, <3>2, <3>3, AppendKeepsOrder DEF IInv
      <4>2. /\ Len(chain) \in Nat /\ DOMAIN chain = 1..Len(chain)
            /\ DOMAIN Append(chain, d) = 1..(Len(chain) + 1)
            /\ \A i \in DOMAIN chain : Append(chain, d)[i] = chain[i]
            /\ Append(chain, d)[Len(chain) + 1] = d
        <5>1. chain \in Seq(S \cup {d}) /\ d \in S \cup {d}
          BY <3>3
        <5> QED
          BY <5>1
      <4> SUFFICES ASSUME NEW i \in DOMAIN chain PROVE chain[i].csnMax < d.csnMin
        OBVIOUS
      <4>3. /\ i \in DOMAIN Append(chain, d) /\ Len(chain) + 1 \in DOMAIN Append(chain, d)
            /\ i < Len(chain) + 1
        BY <4>2
      <4> QED
        BY <4>1, <4>2, <4>3 DEF AppendOnly
    <3>6. n \in Nat /\ n <= CsnMax(chain)
      BY <3>4
    <3>7. CsnMax(chain) < d.csnMin
      BY <3>2, <3>4, <3>5 DEF HeaderBounds
    <3>8. n < d.csnMin
      BY <3>2, <3>4, <3>6, <3>7 DEF HeaderBounds
    <3> QED
      BY <3>1, <3>3, <3>6, <3>8, LaterDeltaUnseen
  <2>3. CASE Compact
    BY <2>3 DEF Compact
  <2>4. ASSUME NEW w \in Writers,
               BuildFirst(w) \/ BuildDelta(w) \/ BuildForeign(w) \/ BuildCheckpoint(w)
        PROVE  base' = base /\ chain' = chain
    BY <2>4 DEF BuildFirst, BuildDelta, BuildForeign, BuildCheckpoint
  <2>5. ASSUME NEW w \in Writers, Extend(w) PROVE base' = base
    BY <2>5 DEF Extend
  <2>6. CASE UNCHANGED vars
    BY <2>1, <2>6 DEF vars
  <2>7. CASE \E w \in Writers : Extend(w)
    BY <2>1, <2>2, <2>5, <2>7
  <2>8. CASE \/ \E w \in Writers \ OtherTools :
                  BuildFirst(w) \/ BuildDelta(w) \/ BuildCheckpoint(w)
             \/ \E w \in Writers \cap OtherTools : BuildForeign(w)
    <3>1. base' = base /\ chain' = chain
      BY <2>4, <2>8
    <3> QED
      BY <2>1, <3>1
  <2> QED
    BY <2>3, <2>6, <2>7, <2>8 DEF Next
<1> QED
  BY <1>1, ChainInvariance, PTL DEF Spec, CsnSnapshotsStable

-----------------------------------------------------------------------------
(* A record with its place, and sets of records that Before orders.         *)
Places == [rec : Records, ord : Nat, row : Nat]
Ordered(S) == /\ S \subseteq Places /\ IsFiniteSet(S)
              /\ \A x, y \in S : x # y => Before(x, y) \/ Before(y, x)

IsLast(x, S) == x \in S /\ \A y \in S \ {x} : Before(y, x)

(* What record_sort_key compares are integers.                              *)
LEMMA PlaceTypes ==
  ASSUME NEW x \in Places
  PROVE  /\ x.rec \in Records /\ x.rec.ts \in Int /\ x.rec.csn \in Int
         /\ x.ord \in Int /\ x.row \in Int
  BY ChainAssumption DEF Places, Records, Csns, Times, ChainAssumption

(* record_sort_key is a strict order.                                       *)
LEMMA BeforeOrder ==
  ASSUME NEW x \in Places, NEW y \in Places, NEW z \in Places
  PROVE  /\ ~Before(x, x)
         /\ Before(x, y) => ~Before(y, x)
         /\ Before(x, y) /\ Before(y, z) => Before(x, z)
<1>1. \A w \in {x, y, z} : w.rec.ts \in Int /\ w.rec.csn \in Int /\ w.ord \in Int /\ w.row \in Int
  BY PlaceTypes
<1> QED BY <1>1 DEF Before

(* A set of records has one last record.                                    *)
LEMMA LastUnique ==
  ASSUME NEW S \in SUBSET Places, NEW x, IsLast(x, S)
  PROVE  LastOf(S) = x
<1>1. \A y \in S : (\A z \in S \ {y} : Before(z, y)) => y = x
  BY BeforeOrder DEF IsLast
<1> HIDE DEF Before
<1> QED BY <1>1 DEF IsLast, LastOf

(* A finite set of records that can be told apart has a last one.           *)
LEMMA LastExists ==
  ASSUME NEW S, Ordered(S), S # {}
  PROVE  IsLast(LastOf(S), S)
<1> DEFINE P == {T \in SUBSET S : T # {} => \E x : IsLast(x, T)}
<1>0. S \subseteq Places
  BY DEF Ordered
<1>1. {} \in P
  OBVIOUS
<1>2. ASSUME NEW T \in SUBSET S, NEW z \in S, T \in P PROVE T \cup {z} \in P
  <2>1. CASE T = {} \/ z \in T
    <3>1. T = {} => IsLast(z, T \cup {z})
      BY DEF IsLast
    <3>2. z \in T => T \cup {z} = T
      OBVIOUS
    <3> QED BY <1>2, <2>1, <3>1, <3>2
  <2>2. CASE T # {} /\ z \notin T
    <3>1. PICK x : IsLast(x, T)
      BY <1>2, <2>2
    <3>2. x \in T /\ x \in S /\ x # z /\ \A y \in T \ {x} : Before(y, x)
      BY <2>2, <3>1 DEF IsLast
    <3>3. Before(x, z) \/ Before(z, x)
      BY <3>2 DEF Ordered
    <3>4. CASE Before(x, z)
      <4>1. \A y \in T \ {x} : Before(y, z)
        BY <1>0, <3>2, <3>4, BeforeOrder
      <4>2. IsLast(z, T \cup {z})
        BY <3>4, <4>1 DEF IsLast
      <4> QED BY <4>2
    <3>5. CASE Before(z, x)
      <4>1. IsLast(x, T \cup {z})
        BY <3>2, <3>5 DEF IsLast
      <4> QED BY <4>1
    <3> QED BY <3>3, <3>4, <3>5
  <2> QED BY <2>1, <2>2
<1>3. S \in P
  <2> HIDE DEF P
  <2> QED BY <1>1, <1>2, FiniteSetInduction DEF Ordered
<1>4. PICK x : IsLast(x, S)
  BY <1>3
<1> QED BY <1>0, <1>4, LastUnique

(* Fewer records are ordered as well.                                       *)
LEMMA OrderedSubset ==
  ASSUME NEW S, Ordered(S), NEW T \in SUBSET S
  PROVE  Ordered(T)
  BY FS_Subset DEF Ordered

-----------------------------------------------------------------------------
(* What applying records yields.                                            *)
LEMMA ApplyTypes ==
  ASSUME NEW r \in Records, NEW s \in States \cup {NoState}
  PROVE  /\ Apply(r, s) \in States
         /\ Apply(r, s).csn = r.csn /\ Apply(r, s).ts = r.ts /\ Apply(r, s).kind = r.kind
         /\ Apply(r, s).live <=> r.kind # "Tombstone"
<1>1. /\ r.kind \in Kinds /\ r.csn \in Csns /\ r.ts \in Times
      /\ \A p \in DOMAIN r.vals : r.vals[p] \in {Null} \cup Csns
  BY DEF Records
<1>2. /\ FullState(r) \in States /\ FullState(r).csn = r.csn /\ FullState(r).ts = r.ts
      /\ FullState(r).kind = r.kind /\ (FullState(r).live <=> r.kind # "Tombstone")
  BY <1>1 DEF FullState, States
<1>3. CASE r.kind \in {"Baseline", "Snapshot"} \/ s = NoState
  <2>1. Apply(r, s) = FullState(r)
    BY <1>3 DEF Apply
  <2> QED BY <1>2, <2>1
<1>4. CASE s # NoState /\ r.kind = "Delta"
  <2>1. s.props \in [Props -> {Null} \cup Csns]
    BY <1>4 DEF States
  <2>2. Apply(r, s) =
         [kind |-> r.kind, csn |-> r.csn, ts |-> r.ts, live |-> TRUE,
          props |-> [p \in Props |-> IF p \in DOMAIN r.vals THEN r.vals[p] ELSE s.props[p]]]
    BY <1>4 DEF Apply
  <2> QED BY <1>1, <1>4, <2>1, <2>2 DEF States
<1>5. CASE s # NoState /\ r.kind = "Tombstone"
  <2>1. Apply(r, s) = [s EXCEPT !.kind = r.kind, !.csn = r.csn, !.ts = r.ts, !.live = FALSE]
    BY <1>5 DEF Apply
  <2> QED BY <1>1, <1>5, <2>1 DEF States
<1> QED BY <1>1, <1>3, <1>4, <1>5 DEF Kinds

(* The recursion of readback, and the functions that satisfy it.            *)
FoldStep(g, s) == IF s = {} THEN NoState ELSE Apply(LastOf(s).rec, g[s \ {LastOf(s)}])
FoldOf(g, S) == g = [s \in SUBSET S |-> FoldStep(g, s)]

(* The recursion has a solution: one pass of it for every record.           *)
LEMMA FoldExists ==
  ASSUME NEW S, Ordered(S)
  PROVE  \E g \in [SUBSET S -> States \cup {NoState}] : FoldOf(g, S)
<1> DEFINE V == States \cup {NoState}
           X == [SUBSET S -> V]
           n == Cardinality(S)
           first == [s \in SUBSET S |-> NoState]
           Pass(g) == [s \in SUBSET S |-> FoldStep(g, s)]
           step == [p \in (1..n) \X X |-> Pass(p[2])]
<1>0. n \in Nat /\ IsFiniteSet(S)
  BY FS_CardinalityType DEF Ordered
<1>1. first \in X
  OBVIOUS
<1>2. \A s \in SUBSET S : s # {} => LastOf(s) \in s /\ LastOf(s).rec \in Records
  <2>1. ASSUME NEW s \in SUBSET S, s # {} PROVE LastOf(s) \in s /\ LastOf(s).rec \in Records
    <3>1. LastOf(s) \in s
      BY <2>1, OrderedSubset, LastExists DEF IsLast
    <3>2. LastOf(s) \in Places
      BY <3>1 DEF Ordered
    <3> QED BY <3>1, <3>2, PlaceTypes
  <2> QED BY <2>1
<1>3. ASSUME NEW g \in X PROVE Pass(g) \in X
  <2>1. ASSUME NEW s \in SUBSET S PROVE FoldStep(g, s) \in V
    <3>1. CASE s = {}
      BY <3>1 DEF FoldStep
    <3>2. CASE s # {}
      <4>1. LastOf(s).rec \in Records /\ g[s \ {LastOf(s)}] \in V
        BY <1>2, <3>2
      <4>2. Apply(LastOf(s).rec, g[s \ {LastOf(s)}]) \in States
        BY <4>1, ApplyTypes
      <4> QED BY <3>2, <4>2 DEF FoldStep
    <3> QED BY <3>1, <3>2
  <2> HIDE DEF V
  <2> QED BY <2>1
<1>4. step \in [(1..n) \X X -> X]
  <2> HIDE DEF Pass, X
  <2> QED BY <1>3
<1>5. PICK f : Steps(f, X, first, n, step)
  <2> HIDE DEF step, X, first, n
  <2> QED BY <1>0, <1>1, <1>4, Recursion
<1>6. /\ f \in [0..n -> X] /\ f[0] = first
      /\ \A i \in 1..n : f[i] = Pass(f[i - 1])
  <2>1. f \in [0..n -> X] /\ f[0] = first
    BY <1>5 DEF Steps
  <2>2. ASSUME NEW i \in 1..n PROVE f[i] = Pass(f[i - 1])
    <3>1. f[i] = step[<<i, f[i - 1]>>]
      BY <1>5 DEF Steps
    <3>2. i - 1 \in 0..n
      BY <1>0
    <3>3. <<i, f[i - 1]>> \in (1..n) \X X
      BY <2>1, <3>2
    <3> HIDE DEF Pass, X
    <3> QED BY <3>1, <3>3
  <2> QED BY <2>1, <2>2
<1> HIDE DEF step
<1> DEFINE g == [s \in SUBSET S |-> f[Cardinality(s)][s]]
<1>7. ASSUME NEW s \in SUBSET S PROVE Cardinality(s) \in 0..n /\ IsFiniteSet(s)
  <2>1. IsFiniteSet(s) /\ Cardinality(s) <= n /\ Cardinality(s) \in Nat
    BY <1>0, FS_Subset, FS_CardinalityType
  <2> QED BY <1>0, <2>1
<1>8. g \in X
  <2>1. ASSUME NEW s \in SUBSET S PROVE f[Cardinality(s)][s] \in V
    <3>1. f[Cardinality(s)] \in X
      BY <1>6, <1>7
    <3> HIDE DEF V
    <3> QED BY <3>1
  <2> HIDE DEF V
  <2> QED BY <2>1
<1>9. ASSUME NEW s \in SUBSET S PROVE g[s] = FoldStep(g, s)
  <2>1. CASE s = {}
    <3>1. Cardinality(s) = 0
      BY <2>1, FS_EmptySet
    <3>2. g[s] = NoState
      BY <1>6, <3>1
    <3> HIDE DEF g
    <3> QED BY <2>1, <3>2 DEF FoldStep
  <2>2. CASE s # {}
    <3> DEFINE x == LastOf(s)
               t == s \ {x}
               k == Cardinality(s)
    <3>1. x \in s /\ t \in SUBSET S
      BY <1>2, <2>2
    <3>2. Cardinality(t) = k - 1 /\ k \in 1..n
      <4>1. Cardinality(t) = k - 1 /\ Cardinality(t) \in 0..n /\ k \in 0..n
        BY <1>7, <3>1, FS_RemoveElement
      <4> QED BY <1>0, <4>1
    <3>3. f[k] = Pass(f[k - 1])
      BY <1>6, <3>2
    <3>4. f[k][s] = FoldStep(f[k - 1], s)
      BY <3>3
    <3>5. f[k - 1][t] = g[t]
      BY <3>1, <3>2
    <3>6. g[s] = f[k][s]
      OBVIOUS
    <3> HIDE DEF g, k
    <3> QED BY <2>2, <3>4, <3>5, <3>6 DEF FoldStep
  <2> QED BY <2>1, <2>2
<1>10. FoldOf(g, S)
  <2>1. g = [s \in SUBSET S |-> g[s]]
    OBVIOUS
  <2> HIDE DEF g
  <2> QED BY <1>9, <2>1 DEF FoldOf
<1> HIDE DEF g
<1> QED BY <1>8, <1>10

(* Two solutions agree on the records that both cover.                      *)
LEMMA FoldUnique ==
  ASSUME NEW S, Ordered(S), NEW U, Ordered(U), NEW g, FoldOf(g, S), NEW h, FoldOf(h, U),
         NEW T, T \subseteq S, T \subseteq U
  PROVE  g[T] = h[T]
<1> DEFINE P == {s \in SUBSET T : g[s] = h[s]}
<1>1. Ordered(T) /\ IsFiniteSet(T)
  BY OrderedSubset DEF Ordered
<1>2. \A s \in SUBSET S : g[s] = FoldStep(g, s)
  BY DEF FoldOf
<1>3. \A s \in SUBSET U : h[s] = FoldStep(h, s)
  BY DEF FoldOf
<1>4. ASSUME NEW s \in SUBSET T, \A u \in SUBSET s : u # s => u \in P PROVE s \in P
  <2>1. s \in SUBSET S /\ s \in SUBSET U
    OBVIOUS
  <2>2. CASE s = {}
    <3>1. FoldStep(g, s) = NoState /\ FoldStep(h, s) = NoState
      BY <2>2 DEF FoldStep
    <3> QED BY <1>2, <1>3, <2>1, <3>1
  <2>3. CASE s # {}
    <3>1. LastOf(s) \in s
      BY <1>1, <2>3, OrderedSubset, LastExists DEF IsLast
    <3>2. s \ {LastOf(s)} \in P
      BY <1>4, <3>1
    <3>3. FoldStep(g, s) = FoldStep(h, s)
      BY <2>3, <3>2 DEF FoldStep
    <3> QED BY <1>2, <1>3, <2>1, <3>3
  <2> QED BY <2>2, <2>3
<1>5. T \in P
  <2> HIDE DEF P
  <2> QED BY <1>1, <1>4, SmallerSetsInduction
<1> QED BY <1>5

(* Readback is such a solution.                                             *)
LEMMA FoldedIs ==
  ASSUME NEW S, Ordered(S)
  PROVE  \E g \in [SUBSET S -> States \cup {NoState}] : FoldOf(g, S) /\ Folded(S) = g[S]
<1>1. PICK g \in [SUBSET S -> States \cup {NoState}] : FoldOf(g, S)
  BY FoldExists
<1> DEFINE h == CHOOSE f : f = [s \in SUBSET S |-> FoldStep(f, s)]
<1>2. FoldOf(h, S)
  <2> HIDE DEF FoldStep
  <2> QED BY <1>1 DEF FoldOf
<1>3. Folded(S) = h[S]
  BY DEF Folded, MapThenFoldSet, FoldStep
<1> HIDE DEF h
<1> QED BY <1>1, <1>2, <1>3, FoldUnique

(* Readback of a set of records is readback of all but the last, and then   *)
(* the last record applied.                                                 *)
LEMMA FoldedStep ==
  ASSUME NEW S, Ordered(S)
  PROVE  /\ S = {} => Folded(S) = NoState
         /\ S # {} => Folded(S) = Apply(LastOf(S).rec, Folded(S \ {LastOf(S)}))
         /\ Folded(S) \in States \cup {NoState}
<1>1. PICK g \in [SUBSET S -> States \cup {NoState}] : FoldOf(g, S) /\ Folded(S) = g[S]
  BY FoldedIs
<1>2. g[S] = FoldStep(g, S)
  BY <1>1 DEF FoldOf
<1>3. S \ {LastOf(S)} \subseteq S /\ Ordered(S \ {LastOf(S)})
  BY OrderedSubset
<1>4. PICK h : FoldOf(h, S \ {LastOf(S)}) /\ Folded(S \ {LastOf(S)}) = h[S \ {LastOf(S)}]
  BY <1>3, FoldedIs
<1>5. g[S \ {LastOf(S)}] = h[S \ {LastOf(S)}]
  BY <1>1, <1>3, <1>4, FoldUnique
<1>6. g[S] \in States \cup {NoState}
  BY <1>1
<1> QED BY <1>1, <1>2, <1>4, <1>5, <1>6 DEF FoldStep

(* The state of an object has the position of the last record for it.       *)
LEMMA FoldedLast ==
  ASSUME NEW S, Ordered(S), NEW m, IsLast(m, S)
  PROVE  /\ Folded(S) = Apply(m.rec, Folded(S \ {m}))
         /\ Folded(S \ {m}) \in States \cup {NoState}
         /\ m.rec \in Records
         /\ Folded(S) \in States /\ Folded(S) # NoState
         /\ Folded(S).csn = m.rec.csn /\ Folded(S).ts = m.rec.ts
         /\ Folded(S).kind = m.rec.kind
         /\ Folded(S).live <=> m.rec.kind # "Tombstone"
<1>1. LastOf(S) = m /\ m \in S /\ m \in Places /\ S # {}
  BY LastUnique DEF IsLast, Ordered
<1>2. Folded(S) = Apply(m.rec, Folded(S \ {m}))
  BY <1>1, FoldedStep
<1>3. Folded(S \ {m}) \in States \cup {NoState}
  BY OrderedSubset, FoldedStep
<1>4. m.rec \in Records
  BY <1>1, PlaceTypes
<1> QED BY <1>2, <1>3, <1>4, ApplyTypes, NoStateAssumption
-----------------------------------------------------------------------------
(* The records for an object, among some and among all of base and chain.   *)
Of(placed, o) == {x \in placed : x.rec.obj = o}
AllOf(b, ch, o) == Of(Placed(b, ch, DOMAIN ch), o)

(* The records of base and chain have different places, and so an order.    *)
LEMMA PlacedOrdered ==
  ASSUME NEW b \in Seq(Records), NEW ch \in Seq(Deltas)
  PROVE  Ordered(Placed(b, ch, DOMAIN ch))
<1> DEFINE InBase(k) == [rec |-> b[k], ord |-> 0, row |-> k]
           InDelta(i, k) == [rec |-> ch[i].rows[k], ord |-> i, row |-> k]
           B == {InBase(k) : k \in DOMAIN b}
           D(i) == {InDelta(i, k) : k \in DOMAIN ch[i].rows}
           S == Placed(b, ch, DOMAIN ch)
<1>1. DOMAIN b = 1..Len(b) /\ Len(b) \in Nat /\ DOMAIN ch = 1..Len(ch) /\ Len(ch) \in Nat
  OBVIOUS
<1>2. \A i \in DOMAIN ch : /\ ch[i].rows \in Seq(Records)
                           /\ DOMAIN ch[i].rows = 1..Len(ch[i].rows)
                           /\ Len(ch[i].rows) \in Nat
  <2>1. ASSUME NEW i \in DOMAIN ch PROVE ch[i].rows \in Seq(Records)
    <3>1. ch[i] \in Deltas
      OBVIOUS
    <3> QED BY <3>1 DEF Deltas
  <2> QED BY <2>1
<1>3. S = B \cup UNION {D(i) : i \in DOMAIN ch}
  BY DEF Placed
<1>4. ASSUME NEW x \in S
      PROVE  \/ \E k \in DOMAIN b : x = InBase(k)
             \/ \E i \in DOMAIN ch : \E k \in DOMAIN ch[i].rows : x = InDelta(i, k)
  BY <1>3
<1>5. \A k \in DOMAIN b : InBase(k) \in Places
  BY <1>1 DEF Places
<1>6. \A i \in DOMAIN ch : \A k \in DOMAIN ch[i].rows : InDelta(i, k) \in Places
  <2>1. ASSUME NEW i \in DOMAIN ch, NEW k \in DOMAIN ch[i].rows PROVE InDelta(i, k) \in Places
    <3>1. i \in Nat /\ k \in Nat /\ ch[i].rows[k] \in Records
      BY <1>1, <1>2
    <3> QED BY <3>1 DEF Places
  <2> QED BY <2>1
<1>7. S \subseteq Places
  <2> HIDE DEF InBase, InDelta, S
  <2> QED BY <1>4, <1>5, <1>6
<1>8. IsFiniteSet(S)
  <2>1. IsFiniteSet(B)
    <3> DEFINE f == [k \in DOMAIN b |-> InBase(k)]
    <3>1. B = {f[k] : k \in DOMAIN b}
      OBVIOUS
    <3>2. IsFiniteSet(DOMAIN b)
      BY <1>1, FS_Interval
    <3> HIDE DEF f, B
    <3> QED BY <3>1, <3>2, FiniteImage
  <2>2. \A i \in DOMAIN ch : IsFiniteSet(D(i))
    <3>1. ASSUME NEW i \in DOMAIN ch PROVE IsFiniteSet(D(i))
      <4> DEFINE f == [k \in DOMAIN ch[i].rows |-> InDelta(i, k)]
      <4>1. D(i) = {f[k] : k \in DOMAIN ch[i].rows}
        OBVIOUS
      <4>2. IsFiniteSet(DOMAIN ch[i].rows)
        BY <1>2, FS_Interval
      <4> HIDE DEF f, D
      <4> QED BY <4>1, <4>2, FiniteImage
    <3> QED BY <3>1
  <2>3. IsFiniteSet({D(i) : i \in DOMAIN ch})
    <3> DEFINE f == [i \in DOMAIN ch |-> D(i)]
    <3> HIDE DEF D
    <3>1. {D(i) : i \in DOMAIN ch} = {f[i] : i \in DOMAIN ch}
      OBVIOUS
    <3>2. IsFiniteSet(DOMAIN ch)
      BY <1>1, FS_Interval
    <3> HIDE DEF f
    <3> QED BY <3>1, <3>2, FiniteImage
  <2> HIDE DEF B, D, S
  <2>4. IsFiniteSet(UNION {D(i) : i \in DOMAIN ch})
    BY <2>2, <2>3, FS_UNION
  <2> QED BY <1>3, <2>1, <2>4, FS_Union
<1>9. ASSUME NEW x \in S, NEW y \in S, x # y PROVE Before(x, y) \/ Before(y, x)
  <2>1. x.ord # y.ord \/ x.row # y.row
    <3>1. CASE \E k \in DOMAIN b : x = InBase(k)
      <4>1. PICK k \in DOMAIN b : x = InBase(k)
        BY <3>1
      <4>2. CASE \E l \in DOMAIN b : y = InBase(l)
        BY <1>9, <4>1, <4>2
      <4>3. CASE \E i \in DOMAIN ch : \E l \in DOMAIN ch[i].rows : y = InDelta(i, l)
        <5>1. y.ord \in DOMAIN ch /\ x.ord = 0
          BY <4>1, <4>3
        <5> QED BY <1>1, <5>1
      <4> QED BY <1>4, <4>2, <4>3
    <3>2. CASE \E i \in DOMAIN ch : \E k \in DOMAIN ch[i].rows : x = InDelta(i, k)
      <4>1. PICK i \in DOMAIN ch : \E k \in DOMAIN ch[i].rows : x = InDelta(i, k)
        BY <3>2
      <4>2. PICK k \in DOMAIN ch[i].rows : x = InDelta(i, k)
        BY <4>1
      <4>3. CASE \E l \in DOMAIN b : y = InBase(l)
        <5>1. x.ord \in DOMAIN ch /\ y.ord = 0
          BY <4>2, <4>3
        <5> QED BY <1>1, <5>1
      <4>4. CASE \E j \in DOMAIN ch : \E l \in DOMAIN ch[j].rows : y = InDelta(j, l)
        <5>1. PICK j \in DOMAIN ch : \E l \in DOMAIN ch[j].rows : y = InDelta(j, l)
          BY <4>4
        <5>2. PICK l \in DOMAIN ch[j].rows : y = InDelta(j, l)
          BY <5>1
        <5>3. x.ord = i /\ x.row = k /\ y.ord = j /\ y.row = l
          BY <4>2, <5>2
        <5>4. i = j /\ k = l => x = y
          BY <4>2, <5>2
        <5> QED BY <1>9, <5>3, <5>4
      <4> QED BY <1>4, <4>3, <4>4
    <3> QED BY <1>4, <3>1, <3>2
  <2>2. x \in Places /\ y \in Places
    BY <1>7
  <2>3. /\ x.rec.ts \in Int /\ x.rec.csn \in Int /\ x.ord \in Int /\ x.row \in Int
        /\ y.rec.ts \in Int /\ y.rec.csn \in Int /\ y.ord \in Int /\ y.row \in Int
    BY <2>2, PlaceTypes
  <2> HIDE DEF S
  <2> QED BY <2>1, <2>3 DEF Before
<1> HIDE DEF S
<1>10. Ordered(S)
  BY <1>7, <1>8, <1>9 DEF Ordered
<1> QED BY <1>10 DEF S

(* The records for one object have an order.                                *)
LEMMA AllOfOrdered ==
  ASSUME NEW b \in Seq(Records), NEW ch \in Seq(Deltas), NEW o
  PROVE  Ordered(AllOf(b, ch, o))
<1>1. AllOf(b, ch, o) \in SUBSET Placed(b, ch, DOMAIN ch)
  BY DEF AllOf, Of
<1> QED BY <1>1, PlacedOrdered, OrderedSubset

(* A read of the latest states succeeds when the references of all records  *)
(* hold, and gives the states object by object.                             *)
LEMMA LatestReads ==
  ASSUME NEW b \in Seq(Records), NEW ch \in Seq(Deltas)
  PROVE  LET A == Placed(b, ch, DOMAIN ch)
             st == Everything(b, ch, Latest)
         IN /\ st # RefInvalid <=> PrevRefsValid(A) /\ StepsChained(A)
            /\ st # RefInvalid =>
                 st = [o \in Objects |-> LET s == Folded(AllOf(b, ch, o)) IN
                                         IF s = NoState \/ ~s.live THEN NoState ELSE s]
<1> DEFINE A == Placed(b, ch, DOMAIN ch)
           st == Everything(b, ch, Latest)
           f == [o \in Objects |-> Folded(AllOf(b, ch, o))]
           states == [o \in Objects |-> IF f[o] = NoState \/ ~f[o].live THEN NoState ELSE f[o]]
<1>1. {x \in A : Visible(x.rec, Latest)} = A
  BY DEF Visible, Latest
<1>2. f = [o \in Objects |-> Folded({x \in A : x.rec.obj = o})]
  BY DEF AllOf, Of
<1>3. st = IF PrevRefsValid(A) /\ StepsChained(A) THEN states ELSE RefInvalid
  <2> HIDE DEF A
  <2>1. Reconstruct(A, Latest) = IF PrevRefsValid(A) /\ StepsChained(A) THEN states ELSE RefInvalid
    BY <1>1, <1>2 DEF Reconstruct
  <2> QED BY <2>1 DEF Everything, A
<1>4. states \in [Objects -> States \cup {NoState}]
  <2>1. \A o \in Objects : f[o] \in States \cup {NoState}
    BY AllOfOrdered, FoldedStep
  <2> HIDE DEF f
  <2> QED BY <2>1
<1>5. states # RefInvalid
  BY <1>4, RefInvalidAssumption
<1>6. states = [o \in Objects |-> LET s == Folded(AllOf(b, ch, o)) IN
                                   IF s = NoState \/ ~s.live THEN NoState ELSE s]
  OBVIOUS
<1> HIDE DEF A, st, f, states
<1>7. /\ st # RefInvalid <=> PrevRefsValid(A) /\ StepsChained(A)
      /\ st # RefInvalid => st = states
  BY <1>3, <1>5
<1> QED BY <1>6, <1>7 DEF A, st

(* The latest states, object by object.                                     *)
LEMMA LatestByObject ==
  ASSUME NEW b \in Seq(Records), NEW ch \in Seq(Deltas), NEW o \in Objects,
         Everything(b, ch, Latest) # RefInvalid
  PROVE  LET s == Folded(AllOf(b, ch, o)) IN
         Everything(b, ch, Latest)[o] = IF s = NoState \/ ~s.live THEN NoState ELSE s
<1>1. Everything(b, ch, Latest) = [q \in Objects |-> LET s == Folded(AllOf(b, ch, q)) IN
                                         IF s = NoState \/ ~s.live THEN NoState ELSE s]
  BY LatestReads
<1> QED BY <1>1

(* Live states are typed; they come from a record that is no tombstone.     *)
LEMMA LatestTypes ==
  ASSUME NEW b \in Seq(Records), NEW ch \in Seq(Deltas), Everything(b, ch, Latest) # RefInvalid
  PROVE  LET st == Everything(b, ch, Latest) IN
         /\ st \in [Objects -> States \cup {NoState}]
         /\ \A o \in Live(st) : /\ o \in Objects /\ st[o] \in States /\ st[o].live
                                /\ st[o].kind # "Tombstone"
                                /\ st[o] = Folded(AllOf(b, ch, o))
<1> DEFINE st == Everything(b, ch, Latest)
<1>1. st = [o \in Objects |-> st[o]]
  <2>1. \E f : st = [o \in Objects |-> f[o]]
    <3> DEFINE f == [o \in Objects |-> LET s == Folded(AllOf(b, ch, o)) IN
                                       IF s = NoState \/ ~s.live THEN NoState ELSE s]
    <3>1. st = f
      BY LatestReads
    <3>2. f = [o \in Objects |-> f[o]]
      OBVIOUS
    <3> HIDE DEF f, st
    <3> QED BY <3>1, <3>2
  <2> HIDE DEF st
  <2> QED BY <2>1
<1>2. ASSUME NEW o \in Objects
      PROVE  /\ st[o] \in States \cup {NoState}
             /\ st[o] # NoState => /\ st[o] \in States /\ st[o].live
                                   /\ st[o].kind # "Tombstone"
                                   /\ st[o] = Folded(AllOf(b, ch, o))
  <2> DEFINE R == AllOf(b, ch, o)
             s == Folded(R)
  <2>1. Ordered(R) /\ st[o] = IF s = NoState \/ ~s.live THEN NoState ELSE s
    BY LatestByObject, AllOfOrdered
  <2>2. s \in States \cup {NoState}
    BY <2>1, FoldedStep
  <2>3. CASE st[o] = NoState
    BY <2>3
  <2>4. CASE st[o] # NoState
    <3>1. st[o] = s /\ s # NoState /\ s.live
      BY <2>1, <2>4
    <3>2. R # {}
      BY <2>1, <3>1, FoldedStep
    <3>3. s.live <=> LastOf(R).rec.kind # "Tombstone"
      BY <2>1, <3>2, LastExists, FoldedLast
    <3>4. s.kind = LastOf(R).rec.kind
      BY <2>1, <3>2, LastExists, FoldedLast
    <3> HIDE DEF s, R
    <3> QED BY <2>2, <3>1, <3>3, <3>4 DEF s, R
  <2> QED BY <2>3, <2>4
<1> HIDE DEF st
<1>3. st \in [Objects -> States \cup {NoState}]
  BY <1>1, <1>2
<1> QED BY <1>2, <1>3 DEF Live, st
-----------------------------------------------------------------------------
(* A delta of cove map, built on the states st: rows stamped one after the  *)
(* other, baselines for the objects that st lacks, the others after the     *)
(* states they change and with a reference to the row before of the object. *)
MapDelta(d, st) ==
  /\ \A k \in DOMAIN d.rows :
       /\ d.rows[k].csn = d.csnMin + k - 1 /\ d.rows[k].ts = d.tStart + k - 1
       /\ d.rows[k].kind \in {"Baseline", "Delta", "Tombstone"}
       /\ d.rows[k].kind = "Baseline" <=> st[d.rows[k].obj] = NoState
       /\ d.rows[k].prev # 0 =>
            /\ d.rows[k].kind # "Baseline"
            /\ d.rows[k].prev \in DOMAIN d.rows /\ d.rows[k].prev < k
            /\ d.rows[d.rows[k].prev].obj = d.rows[k].obj
            /\ \A l \in DOMAIN d.rows :
                 d.rows[k].prev < l /\ l < k => d.rows[l].obj # d.rows[k].obj
  /\ Anchored(d.rows, st)

(* A checkpoint of the states st: all that are live, and later than these.  *)
CheckpointDelta(d, st) ==
  /\ \A o \in Live(st) : /\ st[o].ts < d.tStart
                         /\ \E k \in DOMAIN d.rows : d.rows[k].obj = o
  /\ \A k \in DOMAIN d.rows :
       LET o == d.rows[k].obj IN
       /\ o \in Live(st)
       /\ d.rows[k] = RowOf(o, st[o], "Snapshot", d.csnMin, d.tStart)

(* What a writer has built, in terms of the states of its parent.           *)
Built(a) ==
  /\ a.delta \in Deltas
  /\ \E b \in Seq(Records), ch \in Seq(Deltas) :
       /\ a.onto = <<b, ch>>
       /\ a.by \in {"map", "checkpoint"} => Everything(b, ch, Latest) # RefInvalid
       /\ a.by = "map" => MapDelta(a.delta, Everything(b, ch, Latest))
       /\ a.by = "checkpoint" => CheckpointDelta(a.delta, Everything(b, ch, Latest))

(* The inductive invariant of types and builds. The states are those that   *)
(* readback computes, so their types come from the proofs about it.         *)
TInv ==
  /\ base \in Seq(Records) /\ chain \in Seq(Deltas)
  /\ created \in {0} \cup Times
  /\ compactions \in 0..MaxCompactions
  /\ \E S : slot \in [Writers -> S]
  /\ \A w \in Writers : slot[w] # NoArtifact => Built(slot[w])

(* A step that changes one slot keeps the invariant if the slot is empty or *)
(* holds a delta that fits its parent.                                      *)
LEMMA SlotKeepsTInv ==
  ASSUME TInv, NEW w \in Writers, NEW a, a # NoArtifact => Built(a),
         slot' = [slot EXCEPT ![w] = a],
         base' \in Seq(Records), chain' \in Seq(Deltas), created' \in {0} \cup Times,
         compactions' = compactions
  PROVE  TInv'
<1>1. PICK S : slot \in [Writers -> S]
  BY DEF TInv
<1>2. slot' \in [Writers -> S \cup {a}]
  BY <1>1
<1>3. ASSUME NEW v \in Writers, slot'[v] # NoArtifact PROVE Built(slot'[v])
  <2>1. CASE v = w
    BY <1>1, <1>3, <2>1
  <2>2. CASE v # w
    <3>1. slot'[v] = slot[v]
      BY <1>1, <2>2
    <3> QED BY <1>3, <3>1 DEF TInv
  <2> QED BY <2>1, <2>2
<1>4. compactions' \in 0..MaxCompactions
  BY DEF TInv
<1> HIDE DEF Built
<1>5. \A v \in Writers : slot'[v] # NoArtifact => Built(slot[v])'
  BY <1>3 DEF Built
<1> QED BY <1>2, <1>4, <1>5 DEF TInv

(* A delta is built on the chain and the states of the moment.              *)
LEMMA ArtifactBuilt ==
  ASSUME TInv, NEW d \in Deltas, NEW by,
         by \in {"map", "checkpoint"} => LatestStates # RefInvalid,
         by = "map" => MapDelta(d, LatestStates),
         by = "checkpoint" => CheckpointDelta(d, LatestStates)
  PROVE  Built(Artifact(d, by))
<1> DEFINE a == Artifact(d, by)
<1>1. a.delta = d /\ a.onto = <<base, chain>> /\ a.by = by
  BY DEF Artifact
<1>2. base \in Seq(Records) /\ chain \in Seq(Deltas)
  BY DEF TInv
<1> HIDE DEF a
<1>3. Built(a)
  BY <1>1, <1>2 DEF Built, LatestStates
<1> QED BY <1>3 DEF a

(* cove map builds typed rows that continue the states of the parent.       *)
LEMMA SemanticTInv ==
  ASSUME TInv, NEW w \in Writers, NEW csn \in Nat \ {0}, NEW ts \in Nat \ {0},
         BuildSemantic(w, csn, ts, LatestStates), UNCHANGED <<base, chain, created, compactions>>
  PROVE  TInv'
<1> DEFINE st == LatestStates
<1>0. st # RefInvalid /\ st \in [Objects -> States \cup {NoState}]
  BY LatestTypes DEF TInv, LatestStates, BuildSemantic
<1> HIDE DEF st
<1>1. PICK plan \in Plans, cols \in ColumnSets :
        /\ csn + (Len(plan) - 1) <= MaxCsn /\ ts + (Len(plan) - 1) <= MaxTime
        /\ Anchored(StampedRows(plan, cols, csn, ts, st), st)
        /\ slot' = [slot EXCEPT ![w] = Artifact(
             [csnMin |-> csn, csnMax |-> csn + (Len(plan) - 1), tStart |-> ts,
              tEnd |-> ts + (Len(plan) - 1),
              rows |-> StampedRows(plan, cols, csn, ts, st)], "map")]
  BY DEF BuildSemantic, st
<1> DEFINE rows == StampedRows(plan, cols, csn, ts, st)
           d == [csnMin |-> csn, csnMax |-> csn + (Len(plan) - 1), tStart |-> ts,
                 tEnd |-> ts + (Len(plan) - 1), rows |-> rows]
<1>2. PICK n \in 1..MaxRows : plan \in [1..n -> [obj : Objects, dead : BOOLEAN]]
  BY DEF Plans
<1>3. Len(plan) = n /\ DOMAIN plan = 1..n /\ n \in Nat /\ n >= 1 /\ MaxCsn \in Nat /\ MaxTime \in Nat
  BY <1>2, ChainAssumption DEF ChainAssumption
<1>4. /\ csn \in Csns /\ csn + (Len(plan) - 1) \in Csns /\ ts \in Times
      /\ ts + (Len(plan) - 1) \in Times
  BY <1>1, <1>3 DEF Csns, Times
<1>5. ASSUME NEW k \in 1..n
      PROVE  /\ rows[k] \in Records
             /\ rows[k].csn = csn + k - 1 /\ rows[k].ts = ts + k - 1
             /\ rows[k].kind \in {"Baseline", "Delta", "Tombstone"}
             /\ rows[k].kind = "Baseline" => st[rows[k].obj] = NoState
             /\ rows[k].kind \in {"Delta", "Tombstone"} => st[rows[k].obj] # NoState
             /\ rows[k].prev # 0 =>
                  /\ rows[k].kind # "Baseline"
                  /\ rows[k].prev \in 1..n /\ rows[k].prev < k
                  /\ rows[rows[k].prev].obj = rows[k].obj
                  /\ \A l \in 1..n : rows[k].prev < l /\ l < k => rows[l].obj # rows[k].obj
  <2> DEFINE kind == IF plan[k].dead THEN "Tombstone"
                     ELSE IF st[plan[k].obj] # NoState THEN "Delta" ELSE "Baseline"
             vals == [p \in cols |-> IF plan[k].dead THEN Null ELSE csn + k - 1]
  <2>1. rows[k] = [obj |-> plan[k].obj, csn |-> csn + k - 1, ts |-> ts + k - 1,
                   kind |-> kind, vals |-> vals, prev |-> PrevRef(plan, k, st)]
    BY <1>3 DEF StampedRows
  <2>2. plan[k].obj \in Objects
    BY <1>2
  <2>3. csn + k - 1 \in Csns /\ ts + k - 1 \in Times
    BY <1>1, <1>3 DEF Csns, Times
  <2>4. kind \in {"Baseline", "Delta", "Tombstone"} /\ kind \in Kinds
    BY DEF Kinds
  <2>5. cols \in SUBSET Props
    BY ChainAssumption DEF ChainAssumption
  <2>6. vals \in [cols -> {Null} \cup Csns]
    BY <2>3
  <2>7. vals \in UNION {[c -> {Null} \cup Csns] : c \in SUBSET Props}
    BY <2>5, <2>6
  <2>8. kind = "Baseline" => st[plan[k].obj] = NoState
    OBVIOUS
  <2>13. /\ rows[k].prev \in Nat
         /\ rows[k].prev # 0 =>
              /\ rows[k].kind # "Baseline"
              /\ rows[k].prev \in 1..n /\ rows[k].prev < k
              /\ rows[rows[k].prev].obj = rows[k].obj
              /\ \A l \in 1..n : rows[k].prev < l /\ l < k => rows[l].obj # rows[k].obj
    BY <1>3, StampedRefs
  <2>14. rows[k].prev = PrevRef(plan, k, st)
    BY <2>1
  <2>9. rows[k].kind = kind /\ rows[k].obj = plan[k].obj /\ rows[k].csn = csn + k - 1
        /\ rows[k].ts = ts + k - 1
    BY <2>1
  <2>15. PrevRef(plan, k, st) \in Nat
    BY <2>13, <2>14
  <2> HIDE DEF kind, vals
  <2>10. rows[k] \in Records
    BY <2>1, <2>2, <2>3, <2>4, <2>7, <2>15 DEF Records
  <2>11. k \in DOMAIN rows
    BY <1>3 DEF StampedRows
  <2>12. rows[k].kind \in {"Delta", "Tombstone"} => st[rows[k].obj] # NoState
    BY <1>1, <2>11 DEF Anchored
  <2> HIDE DEF rows
  <2> QED BY <2>4, <2>8, <2>9, <2>10, <2>12, <2>13
<1>6. DOMAIN rows = 1..n
  BY <1>3 DEF StampedRows
<1>7. rows \in Seq(Records)
  <2>1. rows = [k \in 1..n |-> rows[k]]
    BY <1>3 DEF StampedRows
  <2> HIDE DEF rows
  <2>2. rows \in [1..n -> Records]
    BY <1>5, <1>6, <2>1
  <2> QED BY <1>3, <2>2
<1>8. Anchored(rows, st)
  BY <1>1
<1> HIDE DEF rows
<1>9. d \in Deltas /\ d.rows = rows /\ d.csnMin = csn /\ d.tStart = ts
  BY <1>4, <1>7 DEF Deltas
<1>10. slot' = [slot EXCEPT ![w] = Artifact(d, "map")]
  BY <1>1 DEF rows
<1> HIDE DEF d
<1>11. MapDelta(d, st)
  BY <1>5, <1>6, <1>8, <1>9 DEF MapDelta
<1>12. Built(Artifact(d, "map"))
  BY <1>0, <1>9, <1>11, ArtifactBuilt DEF st
<1>13. base' \in Seq(Records) /\ chain' \in Seq(Deltas) /\ created' \in {0} \cup Times
  BY DEF TInv
<1> QED BY <1>10, <1>12, <1>13, SlotKeepsTInv

(* The latest live states as rows, in any order.                            *)
LEMMA OrderRows ==
  ASSUME NEW T \in SUBSET Objects, NEW order \in Orders(T), NEW f,
         \A o \in T : f[o] \in Records
  PROVE  /\ [i \in DOMAIN order |-> f[order[i]]] \in Seq(Records)
         /\ \A i \in DOMAIN order : order[i] \in T
         /\ \A o \in T : \E i \in DOMAIN order : order[i] = o
<1>1. IsFiniteSet(T)
  BY ChainAssumption, FS_Subset DEF ChainAssumption
<1>2. Cardinality(T) \in Nat
  BY <1>1, FS_CardinalityType
<1>3. order \in [1..Cardinality(T) -> T] /\ \A o \in T : \E i \in DOMAIN order : order[i] = o
  BY DEF Orders
<1> QED BY <1>2, <1>3

(* The row of a state is a record.                                          *)
LEMMA RowOfTypes ==
  ASSUME NEW o \in Objects, NEW s \in States, NEW kind \in Kinds, NEW csn \in Csns, NEW ts \in Times
  PROVE  RowOf(o, s, kind, csn, ts) \in Records
<1>1. s.props \in [Props -> {Null} \cup Csns]
  BY DEF States
<1>2. s.props \in UNION {[cols -> {Null} \cup Csns] : cols \in SUBSET Props}
  BY <1>1
<1> QED BY <1>2 DEF RowOf, Records

(* A checkpoint has a row for every live state, later than all of them.     *)
LEMMA CheckpointTInv ==
  ASSUME TInv, NEW w \in Writers, BuildCheckpoint(w)
  PROVE  TInv'
<1> DEFINE st == LatestStates
           csn == CheckpointCsn(st)
           ts == CheckpointTime(st)
<1>0. st # RefInvalid
  BY DEF BuildCheckpoint
<1>1. /\ st \in [Objects -> States \cup {NoState}]
      /\ \A o \in Live(st) : o \in Objects /\ st[o] \in States
  BY <1>0, LatestTypes DEF TInv, LatestStates
<1>2. /\ csn \in Csns /\ ts \in Times
      /\ UNCHANGED <<base, chain, created, compactions>>
  BY DEF BuildCheckpoint
<1>3. PICK order \in Orders(Live(st)) :
        slot' = [slot EXCEPT ![w] = Artifact(
          [csnMin |-> csn, csnMax |-> csn, tStart |-> ts, tEnd |-> ts,
           rows |-> [i \in DOMAIN order |->
                       RowOf(order[i], st[order[i]], "Snapshot", csn, ts)]],
          "checkpoint")]
  BY DEF BuildCheckpoint
<1>4. ASSUME NEW o \in Live(st) PROVE st[o].ts < ts
  <2> DEFINE f == [q \in Live(st) |-> st[q].ts]
             T == {f[q] : q \in Live(st)}
  <2>1. IsFiniteSet(Live(st))
    <3>1. Live(st) \in SUBSET Objects
      BY DEF Live
    <3> HIDE DEF st
    <3> QED BY <3>1, ChainAssumption, FS_Subset DEF ChainAssumption
  <2>2. IsFiniteSet(T)
    <3> HIDE DEF f, st
    <3> QED BY <2>1, FiniteImage
  <2>3. T = {st[q].ts : q \in Live(st)}
    OBVIOUS
  <2>4. IsFiniteSet({created} \cup T)
    <3> HIDE DEF T
    <3>1. IsFiniteSet(T \cup {created})
      BY <2>2, FS_AddElement
    <3>2. T \cup {created} = {created} \cup T
      OBVIOUS
    <3> QED BY <3>1, <3>2
  <2>5. {created} \cup T \in SUBSET Int
    <3>1. \A q \in Live(st) : st[q].ts \in Int
      BY <1>1, ChainAssumption DEF States, Times, ChainAssumption
    <3>2. created \in Int
      BY ChainAssumption DEF TInv, Times, ChainAssumption
    <3> QED BY <3>1, <3>2
  <2>6. st[o].ts \in T /\ {created} \cup T # {}
    OBVIOUS
  <2> HIDE DEF T
  <2>7. /\ MaxOf({created} \cup T) \in {created} \cup T
        /\ st[o].ts <= MaxOf({created} \cup T)
    BY <2>4, <2>5, <2>6, MaxOfFinite
  <2>8. ts = MaxOf({created} \cup T) + 1
    BY <2>3 DEF CheckpointTime
  <2> DEFINE x == st[o].ts
             y == MaxOf({created} \cup T)
  <2>9. x \in Int /\ y \in Int
    BY <2>5, <2>6, <2>7
  <2>10. x <= y /\ ts = y + 1
    BY <2>7, <2>8
  <2> HIDE DEF st, ts, f, x, y
  <2>11. x < ts
    BY <2>9, <2>10
  <2> QED BY <2>11 DEF x
<1> HIDE DEF st, csn, ts
<1> DEFINE f == [o \in Live(st) |-> RowOf(o, st[o], "Snapshot", csn, ts)]
           rows == [i \in DOMAIN order |-> f[order[i]]]
           d == [csnMin |-> csn, csnMax |-> csn, tStart |-> ts, tEnd |-> ts, rows |-> rows]
<1>5. \A o \in Live(st) : f[o] \in Records
  <2>1. \A o \in Live(st) : RowOf(o, st[o], "Snapshot", csn, ts) \in Records
    BY <1>1, <1>2, RowOfTypes DEF Kinds
  <2> QED BY <2>1
<1>6. Live(st) \in SUBSET Objects
  BY <1>1
<1>7. /\ rows \in Seq(Records)
      /\ \A i \in DOMAIN order : order[i] \in Live(st)
      /\ \A o \in Live(st) : \E i \in DOMAIN order : order[i] = o
  <2> HIDE DEF f
  <2> QED BY <1>5, <1>6, OrderRows
<1>8. \A i \in DOMAIN order : rows[i] = RowOf(order[i], st[order[i]], "Snapshot", csn, ts)
  BY <1>7
<1>9. rows = [i \in DOMAIN order |-> RowOf(order[i], st[order[i]], "Snapshot", csn, ts)]
  BY <1>7
<1>10. DOMAIN rows = DOMAIN order /\ \A i \in DOMAIN order : rows[i].obj = order[i]
  <2>1. DOMAIN rows = DOMAIN order
    OBVIOUS
  <2> HIDE DEF rows
  <2> QED BY <1>8, <2>1 DEF RowOf
<1> HIDE DEF rows
<1>11. d \in Deltas /\ d.rows = rows /\ d.csnMin = csn /\ d.tStart = ts
  BY <1>2, <1>7 DEF Deltas
<1>12. slot' = [slot EXCEPT ![w] = Artifact(d, "checkpoint")]
  BY <1>3, <1>9
<1> HIDE DEF d
<1>13. CheckpointDelta(d, st)
  BY <1>4, <1>7, <1>8, <1>10, <1>11 DEF CheckpointDelta
<1>14. Built(Artifact(d, "checkpoint"))
  BY <1>0, <1>11, <1>13, ArtifactBuilt DEF st
<1>15. base' \in Seq(Records) /\ chain' \in Seq(Deltas) /\ created' \in {0} \cup Times
       /\ compactions' = compactions
  BY <1>2 DEF TInv
<1> QED BY <1>12, <1>14, <1>15, SlotKeepsTInv

(* Compaction writes the latest live states, with their positions.          *)
LEMMA CompactedBase ==
  ASSUME TInv, Compact
  PROVE  \E order \in Orders(Live(LatestStates)) :
           /\ base' = [i \in DOMAIN order |->
                         RowOf(order[i], LatestStates[order[i]], LatestStates[order[i]].kind,
                               LatestStates[order[i]].csn, LatestStates[order[i]].ts)]
           /\ base' \in Seq(Records)
           /\ \A i \in DOMAIN order : order[i] \in Live(LatestStates)
           /\ \A o \in Live(LatestStates) : \E i \in DOMAIN order : order[i] = o
<1> DEFINE st == LatestStates
           f == [o \in Live(st) |-> RowOf(o, st[o], st[o].kind, st[o].csn, st[o].ts)]
<1>0. st # RefInvalid
  BY DEF Compact
<1>1. \A o \in Live(st) : o \in Objects /\ st[o] \in States
  BY <1>0, LatestTypes DEF TInv, LatestStates
<1>2. PICK order \in Orders(Live(st)) :
        base' = [i \in DOMAIN order |->
                   RowOf(order[i], st[order[i]], st[order[i]].kind, st[order[i]].csn,
                         st[order[i]].ts)]
  BY DEF Compact
<1> HIDE DEF st
<1>3. \A o \in Live(st) : f[o] \in Records
  <2>1. ASSUME NEW o \in Live(st) PROVE RowOf(o, st[o], st[o].kind, st[o].csn, st[o].ts) \in Records
    <3>1. st[o].kind \in Kinds /\ st[o].csn \in Csns /\ st[o].ts \in Times
      BY <1>1 DEF States
    <3> QED BY <1>1, <3>1, RowOfTypes
  <2> QED BY <2>1
<1>4. Live(st) \in SUBSET Objects
  BY <1>1
<1>5. /\ [i \in DOMAIN order |-> f[order[i]]] \in Seq(Records)
      /\ \A i \in DOMAIN order : order[i] \in Live(st)
      /\ \A o \in Live(st) : \E i \in DOMAIN order : order[i] = o
  <2> HIDE DEF f
  <2> QED BY <1>3, <1>4, OrderRows
<1>6. base' = [i \in DOMAIN order |-> f[order[i]]]
  BY <1>2, <1>5
<1> HIDE DEF f
<1>7. base' \in Seq(Records)
  BY <1>5, <1>6
<1> QED BY <1>2, <1>5, <1>7 DEF st

(* A base of baselines and no chain.                                        *)
LEMMA InitTInv == Init => TInv
<1> SUFFICES ASSUME Init PROVE TInv
  OBVIOUS
<1> USE ChainAssumption DEF ChainAssumption
<1>0. PICK T \in SUBSET Objects : \E order \in Orders(T) :
        base = [i \in DOMAIN order |->
                 [obj |-> order[i], kind |-> "Baseline", csn |-> 1, ts |-> 1,
                  vals |-> [p \in Props |-> 1], prev |-> 0]]
  BY DEF Init
<1>1. PICK order \in Orders(T) :
        base = [i \in DOMAIN order |->
                 [obj |-> order[i], kind |-> "Baseline", csn |-> 1, ts |-> 1,
                  vals |-> [p \in Props |-> 1], prev |-> 0]]
  BY <1>0
<1>2. base \in Seq(Records)
  <2> DEFINE r(o) == [obj |-> o, kind |-> "Baseline", csn |-> 1, ts |-> 1,
                      vals |-> [p \in Props |-> 1], prev |-> 0]
             f == [o \in T |-> r(o)]
  <2>1. \A o \in T : f[o] \in Records
    <3>1. 1 \in Csns /\ 1 \in Times /\ "Baseline" \in Kinds
      BY DEF Csns, Times, Kinds
    <3>2. [p \in Props |-> 1] \in [Props -> {Null} \cup Csns]
      BY <3>1
    <3>3. [p \in Props |-> 1] \in UNION {[cols -> {Null} \cup Csns] : cols \in SUBSET Props}
      BY <3>2
    <3>4. \A o \in T : r(o) \in Records
      BY <3>1, <3>3 DEF Records
    <3> HIDE DEF r
    <3> QED BY <3>4
  <2>2. /\ [i \in DOMAIN order |-> f[order[i]]] \in Seq(Records)
        /\ \A i \in DOMAIN order : order[i] \in T
    <3> HIDE DEF f
    <3> QED BY <2>1, OrderRows
  <2>3. base = [i \in DOMAIN order |-> f[order[i]]]
    BY <1>1, <2>2
  <2> QED BY <2>2, <2>3
<1>3. chain \in Seq(Deltas) /\ created = 0 /\ compactions \in 0..MaxCompactions
  BY DEF Init
<1>4. slot \in [Writers -> {NoArtifact}] /\ \A w \in Writers : slot[w] = NoArtifact
  BY DEF Init
<1> QED BY <1>2, <1>3, <1>4 DEF TInv

(* Deltas of other tools are typed; nothing else is known of them.          *)
LEMMA ForeignTInv ==
  ASSUME TInv, NEW w \in Writers, BuildForeign(w)
  PROVE  TInv'
<1>1. PICK o \in Objects, kind \in ForeignKinds, cols \in ColumnSets,
           csn \in Csns, lo \in Csns, hi \in Csns, ts \in Times, t \in Times :
        /\ lo <= csn /\ csn <= hi
        /\ slot' = [slot EXCEPT ![w] = Artifact(
             [csnMin |-> lo, csnMax |-> hi, tStart |-> t, tEnd |-> t,
              rows |-> <<[obj |-> o, kind |-> kind, csn |-> csn, ts |-> ts,
                          vals |-> [p \in cols |-> csn], prev |-> 0]>>], "foreign")]
  BY DEF BuildForeign
<1> DEFINE r == [obj |-> o, kind |-> kind, csn |-> csn, ts |-> ts, vals |-> [p \in cols |-> csn],
                 prev |-> 0]
           d == [csnMin |-> lo, csnMax |-> hi, tStart |-> t, tEnd |-> t, rows |-> <<r>>]
<1>2. kind \in Kinds /\ cols \in SUBSET Props
  BY ChainAssumption DEF ChainAssumption, Kinds
<1>3. [p \in cols |-> csn] \in [cols -> {Null} \cup Csns]
  OBVIOUS
<1>4. [p \in cols |-> csn] \in UNION {[c -> {Null} \cup Csns] : c \in SUBSET Props}
  BY <1>2, <1>3
<1>5. r \in Records
  BY <1>2, <1>4 DEF Records
<1>6. slot' = [slot EXCEPT ![w] = Artifact(d, "foreign")]
  BY <1>1
<1> HIDE DEF r
<1>7. d \in Deltas
  BY <1>5 DEF Deltas
<1> HIDE DEF d
<1>8. Built(Artifact(d, "foreign"))
  BY <1>7, ArtifactBuilt
<1>9. base' \in Seq(Records) /\ chain' \in Seq(Deltas) /\ created' \in {0} \cup Times
       /\ compactions' = compactions
  BY DEF TInv, BuildForeign
<1> QED BY <1>6, <1>8, <1>9, SlotKeepsTInv

(* chain-extend appends what a slot holds, or nothing.                      *)
LEMMA ExtendTInv ==
  ASSUME TInv, NEW w \in Writers, Extend(w)
  PROVE  TInv'
<1>1. slot[w] # NoArtifact /\ slot' = [slot EXCEPT ![w] = NoArtifact] /\ UNCHANGED <<base, compactions>>
  BY DEF Extend
<1>2. slot[w].delta \in Deltas
  BY <1>1 DEF TInv, Built
<1>3. \/ chain' = chain /\ created' = created
      \/ chain' = Append(chain, slot[w].delta) /\ created' \in Times
  BY DEF Extend
<1>4. base' \in Seq(Records) /\ chain' \in Seq(Deltas) /\ created' \in {0} \cup Times
  <2>1. base \in Seq(Records) /\ chain \in Seq(Deltas) /\ created \in {0} \cup Times
    BY DEF TInv
  <2>2. Append(chain, slot[w].delta) \in Seq(Deltas)
    BY <1>2, <2>1
  <2> QED BY <1>1, <1>3, <2>1, <2>2
<1> QED BY <1>1, <1>4, SlotKeepsTInv

(* Every step keeps the invariant.                                          *)
LEMMA NextTInv == TInv /\ [Next]_vars => TInv'
<1> SUFFICES ASSUME TInv, [Next]_vars PROVE TInv'
  OBVIOUS
<1> USE ChainAssumption
<1>1. CASE Compact
  <2>1. base' \in Seq(Records)
    BY <1>1, CompactedBase
  <2>2. chain' = <<>> /\ created' = 0 /\ compactions' \in 0..MaxCompactions /\ slot' = slot
    BY <1>1 DEF Compact, TInv, ChainAssumption
  <2>3. \A w \in Writers : slot'[w] # NoArtifact => Built(slot'[w])
    BY <2>2 DEF TInv
  <2>4. \A w \in Writers : slot'[w] # NoArtifact => Built(slot[w])'
    BY <2>3 DEF Built
  <2>5. \E S : slot' \in [Writers -> S]
    BY <2>2 DEF TInv
  <2>6. chain' \in Seq(Deltas)
    BY <2>2
  <2> HIDE DEF Built
  <2> QED BY <2>1, <2>2, <2>4, <2>5, <2>6 DEF TInv
<1>2. ASSUME NEW w \in Writers, BuildFirst(w) PROVE TInv'
  <2>1. PICK start \in FirstStarts :
          BuildSemantic(w, start[1], start[2], LatestStates)
    BY <1>2 DEF BuildFirst
  <2>2. start[1] \in Nat \ {0} /\ start[2] \in Nat \ {0}
    BY DEF ChainAssumption
  <2>3. UNCHANGED <<base, chain, created, compactions>>
    BY <1>2 DEF BuildFirst
  <2> QED
    BY <2>1, <2>2, <2>3, SemanticTInv
<1>3. ASSUME NEW w \in Writers, BuildDelta(w) PROVE TInv'
  <2>1. PICK now \in Times :
          BuildSemantic(w, CsnMax(chain) + 1, MaxOf({now, created + 1}), LatestStates)
    BY <1>3 DEF BuildDelta
  <2>2. CsnMax(chain) \in Nat
    <3> DEFINE f == [i \in DOMAIN chain |-> chain[i].csnMax]
               T == {f[i] : i \in DOMAIN chain}
    <3>1. chain \in Seq(Deltas)
      BY DEF TInv
    <3>2. DOMAIN chain = 1..Len(chain) /\ Len(chain) \in Nat
      BY <3>1
    <3>3. \A i \in DOMAIN chain : chain[i].csnMax \in Csns
      <4>1. \A i \in DOMAIN chain : chain[i] \in Deltas
        BY <3>1, <3>2
      <4> QED BY <4>1 DEF Deltas
    <3>4. IsFiniteSet(T)
      <4> HIDE DEF f
      <4>1. IsFiniteSet(DOMAIN chain)
        BY <3>2, FS_Interval
      <4> QED BY <4>1, FiniteImage
    <3>5. IsFiniteSet(T \cup {0})
      <4> HIDE DEF T
      <4> QED BY <3>4, FS_AddElement
    <3>6. T \cup {0} = {0} \cup {chain[i].csnMax : i \in DOMAIN chain}
      OBVIOUS
    <3>7. T \cup {0} \subseteq Nat
      BY <3>3 DEF Csns
    <3> HIDE DEF T
    <3>8. MaxOf(T \cup {0}) \in T \cup {0}
      BY <3>5, <3>7, MaxOfFinite
    <3> QED BY <3>6, <3>7, <3>8 DEF CsnMax
  <2>3. CsnMax(chain) + 1 \in Nat \ {0}
    BY <2>2
  <2>4. MaxOf({now, created + 1}) \in Nat \ {0}
    <3>1. now \in Nat \ {0} /\ created + 1 \in Nat \ {0}
      BY DEF TInv, Times, ChainAssumption
    <3>2. \E x \in {now, created + 1} : \A y \in {now, created + 1} : y <= x
      BY <3>1
    <3>3. MaxOf({now, created + 1}) \in {now, created + 1}
      BY <3>2 DEF MaxOf
    <3> QED BY <3>1, <3>3
  <2>5. UNCHANGED <<base, chain, created, compactions>>
    BY <1>3 DEF BuildDelta
  <2> QED
    BY <2>1, <2>3, <2>4, <2>5, SemanticTInv
<1>4. CASE UNCHANGED vars
  BY <1>4 DEF vars, TInv, Built
<1> QED
  BY <1>1, <1>2, <1>3, <1>4, ForeignTInv, CheckpointTInv, ExtendTInv DEF Next

(* Every delta that a writer holds is typed and fits the parent it names: a *)
(* map delta continues the states of that parent, a checkpoint repeats      *)
(* them.                                                                    *)
THEOREM TypeInvariance == Spec => []TInv
  BY InitTInv, NextTInv, PTL DEF Spec

(* What readback reconstructs and the tools write from it stays a record of *)
(* the declared columns, in the range of CSNs and times.                    *)
THEOREM TypeCorrect == Spec => []TypeOK
<1>1. TInv => TypeOK
  BY DEF TInv, TypeOK, Built
<1> QED BY <1>1, TypeInvariance, PTL

-----------------------------------------------------------------------------
(* The record of row k of a delta, at its place in the chain.               *)
Place(d, n, k) == [rec |-> d.rows[k], ord |-> n, row |-> k]

(* A delta appended to a chain adds its rows and nothing else.              *)
LEMMA AppendedRecords ==
  ASSUME NEW b \in Seq(Records), NEW ch \in Seq(Deltas), NEW d \in Deltas, NEW o
  PROVE  LET n == Len(ch) + 1 IN
         /\ Placed(b, Append(ch, d), DOMAIN Append(ch, d))
              = Placed(b, ch, DOMAIN ch) \cup {Place(d, n, k) : k \in DOMAIN d.rows}
         /\ AllOf(b, Append(ch, d), o)
              = AllOf(b, ch, o) \cup {Place(d, n, k) : k \in RowsFor(d, o)}
         /\ \A x \in AllOf(b, ch, o) : x.ord \in Nat /\ x.ord < n
<1> DEFINE e == Append(ch, d)
           n == Len(ch) + 1
           InBase(k) == [rec |-> b[k], ord |-> 0, row |-> k]
           InDelta(c, i, k) == [rec |-> c[i].rows[k], ord |-> i, row |-> k]
           Rest(c) == UNION {{InDelta(c, i, k) : k \in DOMAIN c[i].rows} : i \in DOMAIN c}
<1>1. /\ e \in Seq(Deltas) /\ Len(ch) \in Nat /\ DOMAIN ch = 1..Len(ch) /\ DOMAIN e = 1..n
      /\ \A i \in DOMAIN ch : e[i] = ch[i]
      /\ e[n] = d
  OBVIOUS
<1>2. DOMAIN e = DOMAIN ch \cup {n} /\ n \notin DOMAIN ch
  BY <1>1
<1> HIDE DEF e, n
<1>3. Rest(e) = Rest(ch) \cup {InDelta(e, n, k) : k \in DOMAIN d.rows}
  <2>1. \A i \in DOMAIN ch : {InDelta(e, i, k) : k \in DOMAIN e[i].rows}
                             = {InDelta(ch, i, k) : k \in DOMAIN ch[i].rows}
    BY <1>1
  <2> DEFINE G(c, i) == {InDelta(c, i, k) : k \in DOMAIN c[i].rows}
  <2>2. \A i \in DOMAIN ch : G(e, i) = G(ch, i)
    BY <2>1
  <2>3. G(e, n) = {InDelta(e, n, k) : k \in DOMAIN d.rows}
    BY <1>1
  <2> HIDE DEF G
  <2>4. UNION {G(e, i) : i \in DOMAIN e} = (UNION {G(ch, i) : i \in DOMAIN ch}) \cup G(e, n)
    BY <1>2, <2>2
  <2> QED BY <2>3, <2>4 DEF G
<1>4. \A k : InDelta(e, n, k) = Place(d, n, k)
  BY <1>1 DEF Place
<1>5. Placed(b, e, DOMAIN e) = Placed(b, ch, DOMAIN ch) \cup {Place(d, n, k) : k \in DOMAIN d.rows}
  <2>1. Placed(b, e, DOMAIN e) = {InBase(k) : k \in DOMAIN b} \cup Rest(e)
    BY DEF Placed
  <2>2. Placed(b, ch, DOMAIN ch) = {InBase(k) : k \in DOMAIN b} \cup Rest(ch)
    BY DEF Placed
  <2>3. {InDelta(e, n, k) : k \in DOMAIN d.rows} = {Place(d, n, k) : k \in DOMAIN d.rows}
    BY <1>4
  <2> HIDE DEF InBase, InDelta, Rest
  <2> QED BY <1>3, <2>1, <2>2, <2>3
<1>6. AllOf(b, e, o) = AllOf(b, ch, o) \cup {Place(d, n, k) : k \in RowsFor(d, o)}
  <2>1. \A k : Place(d, n, k).rec.obj = d.rows[k].obj
    BY DEF Place
  <2>2. Of({Place(d, n, k) : k \in DOMAIN d.rows}, o) = {Place(d, n, k) : k \in RowsFor(d, o)}
    BY <2>1 DEF Of, RowsFor
  <2> DEFINE A == Placed(b, ch, DOMAIN ch)
             N == {Place(d, n, k) : k \in DOMAIN d.rows}
  <2>3. Of(A \cup N, o) = Of(A, o) \cup Of(N, o)
    <3> HIDE DEF A, N
    <3> QED BY DEF Of
  <2> QED BY <1>5, <2>2, <2>3 DEF AllOf
<1>7. ASSUME NEW x \in AllOf(b, ch, o) PROVE x.ord \in Nat /\ x.ord < n
  <2>1. x \in Placed(b, ch, DOMAIN ch)
    BY DEF AllOf, Of
  <2>2. x.ord = 0 \/ x.ord \in DOMAIN ch
    BY <2>1 DEF Placed
  <2> QED BY <1>1, <2>2 DEF n
<1> QED BY <1>5, <1>6, <1>7 DEF e, n

(* The last record for a live object has the position of its state, and no  *)
(* record for the object comes after it.                                    *)
LEMMA StateIsLast ==
  ASSUME NEW b \in Seq(Records), NEW ch \in Seq(Deltas), Everything(b, ch, Latest) # RefInvalid,
         NEW o \in Live(Everything(b, ch, Latest))
  PROVE  LET R == AllOf(b, ch, o)
             s == Everything(b, ch, Latest)[o]
             m == LastOf(R)
         IN /\ Ordered(R) /\ IsLast(m, R) /\ m \in Places /\ s = Folded(R) /\ s \in States
            /\ s.csn = m.rec.csn /\ s.ts = m.rec.ts
<1> DEFINE R == AllOf(b, ch, o)
           s == Everything(b, ch, Latest)[o]
<1>1. o \in Objects /\ s # NoState
  BY DEF Live
<1>2. s = Folded(R) /\ s \in States
  BY LatestTypes
<1>3. Ordered(R)
  BY AllOfOrdered
<1>4. R # {}
  BY <1>1, <1>2, <1>3, FoldedStep
<1>5. IsLast(LastOf(R), R)
  BY <1>3, <1>4, LastExists
<1>6. LastOf(R) \in Places
  BY <1>3, <1>5 DEF IsLast, Ordered
<1>7. Folded(R).csn = LastOf(R).rec.csn /\ Folded(R).ts = LastOf(R).rec.ts
  BY <1>3, <1>5, FoldedLast
<1> QED BY <1>2, <1>3, <1>5, <1>6, <1>7

(* Rows of a delta are records at their place.                              *)
LEMMA PlaceTyped ==
  ASSUME NEW d \in Deltas, NEW n \in Nat, NEW k \in DOMAIN d.rows
  PROVE  /\ Place(d, n, k) \in Places /\ d.rows[k] \in Records
         /\ Place(d, n, k).rec = d.rows[k] /\ Place(d, n, k).ord = n /\ Place(d, n, k).row = k
         /\ k \in Nat /\ d.csnMin \in Int /\ d.tStart \in Int
<1>1. d.rows \in Seq(Records) /\ d.csnMin \in Csns /\ d.tStart \in Times
  BY DEF Deltas
<1>2. d.rows[k] \in Records /\ k \in Nat
  BY <1>1
<1>3. d.csnMin \in Int /\ d.tStart \in Int
  BY <1>1, ChainAssumption DEF Csns, Times, ChainAssumption
<1> QED BY <1>2, <1>3 DEF Place, Places

(* Every row that cove map built for a live object comes after all records  *)
(* of the chain for it, whatever the clocks said, and in the order of rows. *)
LEMMA MappedRowsFollow ==
  ASSUME NEW b \in Seq(Records), NEW ch \in Seq(Deltas), NEW d \in Deltas,
         Everything(b, ch, Latest) # RefInvalid,
         MapDelta(d, Everything(b, ch, Latest)), NEW o \in Live(Everything(b, ch, Latest))
  PROVE  LET n == Len(ch) + 1 IN
         \A k \in RowsFor(d, o) :
           /\ d.rows[k].kind \in {"Delta", "Tombstone"}
           /\ \A x \in AllOf(b, ch, o) : Before(x, Place(d, n, k))
           /\ \A j \in RowsFor(d, o) : j < k => Before(Place(d, n, j), Place(d, n, k))
<1> DEFINE st == Everything(b, ch, Latest)
           R == AllOf(b, ch, o)
           n == Len(ch) + 1
           m == LastOf(R)
<1>1. /\ Ordered(R) /\ IsLast(m, R) /\ m \in Places
      /\ st[o].csn = m.rec.csn /\ st[o].ts = m.rec.ts /\ st[o] # NoState
  BY StateIsLast DEF Live
<1>2. n \in Nat
  OBVIOUS
<1>3. MapDelta(d, st)
  OBVIOUS
<1> HIDE DEF st, R, n, m
<1> SUFFICES ASSUME NEW k \in RowsFor(d, o)
             PROVE  /\ d.rows[k].kind \in {"Delta", "Tombstone"}
                    /\ \A x \in R : Before(x, Place(d, n, k))
                    /\ \A j \in RowsFor(d, o) : j < k => Before(Place(d, n, j), Place(d, n, k))
  BY DEF R, n
<1>4. k \in DOMAIN d.rows /\ d.rows[k].obj = o
  BY DEF RowsFor
<1>5. d.rows[k].kind \in {"Delta", "Tombstone"}
  BY <1>1, <1>3, <1>4 DEF MapDelta
<1>6. st[o].csn < d.rows[k].csn /\ st[o].ts <= d.rows[k].ts
  BY <1>3, <1>4, <1>5 DEF MapDelta, Anchored
<1>7. /\ Place(d, n, k) \in Places /\ Place(d, n, k).rec = d.rows[k]
      /\ Place(d, n, k).row = k /\ Place(d, n, k).ord = n
  BY <1>2, <1>4, PlaceTyped
<1>8. Before(m, Place(d, n, k))
  <2>1. m.rec.csn \in Int /\ m.rec.ts \in Int /\ d.rows[k].csn \in Int /\ d.rows[k].ts \in Int
    BY <1>1, <1>7, PlaceTypes
  <2> QED BY <1>1, <1>6, <1>7, <2>1 DEF Before
<1>9. ASSUME NEW x \in R PROVE Before(x, Place(d, n, k))
  <2>1. x = m \/ Before(x, m)
    BY <1>1 DEF IsLast
  <2>2. x \in Places
    BY <1>1 DEF Ordered
  <2> QED BY <1>1, <1>7, <1>8, <2>1, <2>2, BeforeOrder
<1>10. ASSUME NEW j \in RowsFor(d, o), j < k PROVE Before(Place(d, n, j), Place(d, n, k))
  <2>1. j \in DOMAIN d.rows
    BY DEF RowsFor
  <2>2. /\ Place(d, n, j).rec = d.rows[j] /\ j \in Nat /\ k \in Nat
        /\ d.csnMin \in Int /\ d.tStart \in Int
    BY <1>2, <1>4, <2>1, PlaceTyped
  <2>3. d.rows[j].ts = d.tStart + j - 1 /\ d.rows[k].ts = d.tStart + k - 1
    BY <1>3, <1>4, <2>1 DEF MapDelta
  <2>4. d.rows[j].ts < d.rows[k].ts
    BY <1>10, <2>2, <2>3
  <2> QED BY <1>7, <2>2, <2>4 DEF Before
<1> QED BY <1>5, <1>9, <1>10

-----------------------------------------------------------------------------
(* A new row that refers to another finds the state that this one left.     *)
StepHolds(x, S) ==
  x.rec.prev # 0 =>
    \E y \in S : /\ Refers(x, y) /\ y.rec.obj = x.rec.obj /\ Before(y, x)
                 /\ \A z \in S : z.rec.obj = x.rec.obj => ~(Before(y, z) /\ Before(z, x))

(* A delta whose own references hold makes a chain unreadable only with a   *)
(* row that comes before a record of the chain which has a reference.       *)
LEMMA BrokenByEarlierRow ==
  ASSUME NEW b \in Seq(Records), NEW ch \in Seq(Deltas), NEW d \in Deltas,
         Everything(b, ch, Latest) # RefInvalid, Everything(b, Append(ch, d), Latest) = RefInvalid,
         \A k \in DOMAIN d.rows :
           StepHolds(Place(d, Len(ch) + 1, k), Placed(b, Append(ch, d), DOMAIN Append(ch, d)))
  PROVE  \E x \in Placed(b, ch, DOMAIN ch), k \in DOMAIN d.rows :
           /\ x.rec.prev # 0 /\ x.rec.obj = d.rows[k].obj
           /\ Before(Place(d, Len(ch) + 1, k), x)
<1> DEFINE n == Len(ch) + 1
           e == Append(ch, d)
           A == Placed(b, ch, DOMAIN ch)
           N == {Place(d, n, k) : k \in DOMAIN d.rows}
           B == Placed(b, e, DOMAIN e)
<1>1. B = A \cup N /\ e \in Seq(Deltas)
  BY AppendedRecords
<1>2. PrevRefsValid(A) /\ StepsChained(A)
  BY LatestReads
<1>3. ~(PrevRefsValid(B) /\ StepsChained(B))
  BY <1>1, LatestReads
<1>4. \A x \in N : StepHolds(x, B)
  OBVIOUS
<1>5. \A k \in DOMAIN d.rows : Place(d, n, k).rec = d.rows[k]
  BY DEF Place
<1> HIDE DEF A, B, n, e
<1>6. PrevRefsValid(B)
  <2> SUFFICES ASSUME NEW x \in B, x.rec.prev # 0
               PROVE  \E y \in B : Refers(x, y) /\ y.rec.obj = x.rec.obj /\ Before(y, x)
    BY DEF PrevRefsValid
  <2>1. CASE x \in A
    <3> HIDE DEF N
    <3> QED BY <1>1, <1>2, <2>1 DEF PrevRefsValid
  <2>2. CASE x \in N
    <3> HIDE DEF N
    <3> QED BY <1>4, <2>2 DEF StepHolds
  <2> HIDE DEF N
  <2> QED BY <1>1, <2>1, <2>2
<1>7. PICK x \in B :
        /\ x.rec.prev # 0
        /\ \A y \in B : Refers(x, y) /\ Before(y, x) =>
             \E z \in B : z.rec.obj = x.rec.obj /\ Before(y, z) /\ Before(z, x)
  <2> HIDE DEF N
  <2> QED BY <1>3, <1>6 DEF StepsChained
<1>8. x \in A
  <2> HIDE DEF N
  <2> QED BY <1>1, <1>4, <1>7 DEF StepHolds
<1>9. PICK y \in A : /\ Refers(x, y) /\ Before(y, x)
                     /\ \A z \in A : z.rec.obj = x.rec.obj => ~(Before(y, z) /\ Before(z, x))
  BY <1>2, <1>7, <1>8 DEF StepsChained
<1>10. PICK z \in B : z.rec.obj = x.rec.obj /\ Before(y, z) /\ Before(z, x)
  <2> HIDE DEF N
  <2> QED BY <1>1, <1>7, <1>9
<1>11. z \in N
  <2> HIDE DEF N
  <2> QED BY <1>1, <1>9, <1>10
<1>12. PICK k \in DOMAIN d.rows : z = Place(d, n, k)
  BY <1>11
<1> HIDE DEF N
<1>13. x.rec.prev # 0 /\ x.rec.obj = d.rows[k].obj /\ Before(Place(d, n, k), x)
  BY <1>5, <1>7, <1>10, <1>12
<1> QED BY <1>8, <1>13 DEF A, n

(* Appending a checkpoint leaves a chain readable.                          *)
LEMMA CheckpointReads ==
  ASSUME NEW b \in Seq(Records), NEW ch \in Seq(Deltas), NEW d \in Deltas,
         Everything(b, ch, Latest) # RefInvalid, CheckpointDelta(d, Everything(b, ch, Latest))
  PROVE  Everything(b, Append(ch, d), Latest) # RefInvalid
<1> DEFINE n == Len(ch) + 1
           st == Everything(b, ch, Latest)
<1> SUFFICES ASSUME Everything(b, Append(ch, d), Latest) = RefInvalid PROVE FALSE
  OBVIOUS
<1>1. \A k \in DOMAIN d.rows :
        /\ d.rows[k].prev = 0 /\ d.rows[k].ts = d.tStart
        /\ d.rows[k].obj \in Live(st) /\ st[d.rows[k].obj].ts < d.tStart
  <2> HIDE DEF st
  <2>1. CheckpointDelta(d, st)
    BY DEF st
  <2> SUFFICES ASSUME NEW k \in DOMAIN d.rows
               PROVE  /\ d.rows[k].prev = 0 /\ d.rows[k].ts = d.tStart
                      /\ d.rows[k].obj \in Live(st) /\ st[d.rows[k].obj].ts < d.tStart
    OBVIOUS
  <2>2. PICK o \in Live(st) : /\ d.rows[k] = RowOf(o, st[o], "Snapshot", d.csnMin, d.tStart)
                              /\ d.rows[k].obj = o
    BY <2>1 DEF CheckpointDelta
  <2>3. d.rows[k].prev = 0 /\ d.rows[k].ts = d.tStart
    BY <2>2 DEF RowOf
  <2> QED BY <2>1, <2>2, <2>3 DEF CheckpointDelta
<1>2. \A k \in DOMAIN d.rows : Place(d, n, k).rec.prev = 0
  BY <1>1 DEF Place
<1>3. \A k \in DOMAIN d.rows :
        StepHolds(Place(d, n, k), Placed(b, Append(ch, d), DOMAIN Append(ch, d)))
  BY <1>2 DEF StepHolds
<1>4. PICK x \in Placed(b, ch, DOMAIN ch), k \in DOMAIN d.rows :
        x.rec.obj = d.rows[k].obj /\ Before(Place(d, n, k), x)
  BY <1>3, BrokenByEarlierRow
<1> DEFINE o == d.rows[k].obj
           R == AllOf(b, ch, o)
           m == LastOf(R)
<1>5. x \in R /\ o \in Live(st)
  BY <1>1, <1>4 DEF AllOf, Of
<1>6. Ordered(R) /\ IsLast(m, R) /\ st[o].ts = m.rec.ts
  BY <1>5, StateIsLast
<1>7. Place(d, n, k).rec.ts = d.tStart
  BY <1>1 DEF Place
<1>8. m.rec.ts < d.tStart
  BY <1>1, <1>6
<1> HIDE DEF o, R, m, st
<1>9. x \in Places /\ m \in Places /\ (x = m \/ Before(x, m))
  BY <1>5, <1>6 DEF Ordered, IsLast
<1>10. /\ x.rec.ts \in Int /\ m.rec.ts \in Int /\ d.tStart \in Int
       /\ Place(d, n, k).rec.ts \in Int
  BY <1>7, <1>9, PlaceTypes, PlaceTyped
<1>11. x.rec.ts <= m.rec.ts
  BY <1>9, <1>10 DEF Before
<1>12. d.tStart <= x.rec.ts
  BY <1>4, <1>7, <1>10 DEF Before
<1> QED BY <1>8, <1>10, <1>11, <1>12

(* The references of a delta of cove map hold when it is appended.          *)
LEMMA MappedStepsHold ==
  ASSUME NEW b \in Seq(Records), NEW ch \in Seq(Deltas), NEW d \in Deltas,
         Everything(b, ch, Latest) # RefInvalid, MapDelta(d, Everything(b, ch, Latest)),
         NEW k \in DOMAIN d.rows
  PROVE  StepHolds(Place(d, Len(ch) + 1, k), Placed(b, Append(ch, d), DOMAIN Append(ch, d)))
<1> DEFINE n == Len(ch) + 1
           st == Everything(b, ch, Latest)
           A == Placed(b, ch, DOMAIN ch)
           B == Placed(b, Append(ch, d), DOMAIN Append(ch, d))
           x == Place(d, n, k)
           j == d.rows[k].prev
           y == Place(d, n, j)
           o == d.rows[k].obj
<1>0. n \in Nat
  OBVIOUS
<1>1. B = A \cup {Place(d, n, l) : l \in DOMAIN d.rows} /\ n \in Nat
  BY <1>0, AppendedRecords
<1>2. x.rec = d.rows[k] /\ x.ord = n /\ x.row = k
  BY DEF Place
<1> SUFFICES ASSUME j # 0
             PROVE  /\ y \in B /\ Refers(x, y) /\ y.rec.obj = o /\ Before(y, x)
                    /\ \A z \in B : z.rec.obj = o => ~(Before(y, z) /\ Before(z, x))
  <2> HIDE DEF B, y, x
  <2>1. StepHolds(x, B)
    BY <1>2 DEF StepHolds
  <2> QED BY <2>1 DEF x, B
<1>3. /\ d.rows[k].kind # "Baseline" /\ j \in DOMAIN d.rows /\ j < k
      /\ d.rows[j].obj = o
      /\ \A l \in DOMAIN d.rows : j < l /\ l < k => d.rows[l].obj # o
      /\ d.rows[k].kind = "Baseline" <=> st[o] = NoState
  BY DEF MapDelta
<1>4. o \in Live(st)
  <2>1. d.rows[k] \in Records
    BY PlaceTyped, <1>1
  <2> QED BY <1>3, <2>1 DEF Live, Records
<1>5. k \in RowsFor(d, o) /\ j \in RowsFor(d, o)
  BY <1>3 DEF RowsFor
<1>6. \A l \in RowsFor(d, o) :
        /\ \A z \in AllOf(b, ch, o) : Before(z, Place(d, n, l))
        /\ \A i \in RowsFor(d, o) : i < l => Before(Place(d, n, i), Place(d, n, l))
  BY <1>4, MappedRowsFollow
<1>7. y.rec = d.rows[j] /\ y.ord = n /\ y.row = j
  BY DEF Place
<1>8. y \in B
  BY <1>1, <1>3
<1>9. Before(y, x)
  BY <1>3, <1>5, <1>6
<1>10. \A l \in DOMAIN d.rows : l \in Nat /\ Place(d, n, l) \in Places
  BY <1>1, PlaceTyped
<1>11. \A z \in AllOf(b, ch, o) : z \in Places
  BY AllOfOrdered DEF Ordered
<1> HIDE DEF st
<1>12. ASSUME NEW z \in B, z.rec.obj = o, Before(y, z), Before(z, x) PROVE FALSE
  <2>1. CASE z \in A
    <3>1. z \in AllOf(b, ch, o)
      BY <1>12, <2>1 DEF AllOf, Of
    <3>2. Before(z, y)
      BY <1>5, <1>6, <3>1
    <3> HIDE DEF A, B, x, y, j, o
    <3>3. y \in Places /\ z \in Places
      BY <1>3, <1>10, <1>11, <3>1 DEF y
    <3> QED BY <1>12, <3>2, <3>3, BeforeOrder
  <2>2. CASE \E l \in DOMAIN d.rows : z = Place(d, n, l)
    <3>1. PICK l \in DOMAIN d.rows : z = Place(d, n, l)
      BY <2>2
    <3>2. d.rows[l].obj = o
      BY <1>12, <3>1 DEF Place
    <3>3. l \in RowsFor(d, o)
      BY <3>2 DEF RowsFor
    <3> HIDE DEF A, B, x, y, j, o
    <3>4. l \in Nat /\ j \in Nat /\ k \in Nat /\ z \in Places /\ y \in Places /\ x \in Places
      BY <1>3, <1>10, <3>1 DEF x, y
    <3>5. l < j => Before(z, y)
      BY <1>5, <1>6, <3>1, <3>3 DEF y
    <3>6. l > k => Before(x, z)
      BY <1>5, <1>6, <3>1, <3>3, <3>4 DEF x
    <3>7. l = j => z = y
      BY <3>1 DEF y
    <3>8. l = k => z = x
      BY <3>1 DEF x
    <3>9. ~(l < j) /\ ~(l = j) /\ ~(l = k) /\ ~(l > k)
      BY <1>12, <3>4, <3>5, <3>6, <3>7, <3>8, BeforeOrder
    <3>10. j < l /\ l < k
      BY <3>4, <3>9
    <3> QED BY <1>3, <3>2, <3>10
  <2> QED BY <1>1, <1>12, <2>1, <2>2
<1>13. Refers(x, y)
  <2> HIDE DEF x, y
  <2> QED BY <1>2, <1>7 DEF Refers
<1>14. y.rec.obj = o
  BY <1>3, <1>7
<1> HIDE DEF A, B, x, y, o
<1> QED BY <1>8, <1>9, <1>12, <1>13, <1>14

-----------------------------------------------------------------------------
(* Applying to a live object the rows built for it, one by one: the         *)
(* properties without a column keep their values.                           *)
LEMMA MappedRowsKeep ==
  ASSUME NEW b \in Seq(Records), NEW ch \in Seq(Deltas), NEW d \in Deltas,
         Everything(b, ch, Latest) # RefInvalid,
         MapDelta(d, Everything(b, ch, Latest)), NEW o \in Live(Everything(b, ch, Latest)),
         NEW p \in Props, \A k \in RowsFor(d, o) : p \notin DOMAIN d.rows[k].vals
  PROVE  Folded(AllOf(b, Append(ch, d), o)).props[p] = Everything(b, ch, Latest)[o].props[p]
<1> DEFINE st == Everything(b, ch, Latest)
           R == AllOf(b, ch, o)
           n == Len(ch) + 1
           N == Len(d.rows)
           Upto(k) == R \cup {Place(d, n, j) : j \in {i \in RowsFor(d, o) : i <= k}}
           all == AllOf(b, Append(ch, d), o)
           P == {k \in Nat : k <= N => /\ Folded(Upto(k)) \in States
                                      /\ Folded(Upto(k)).props[p] = st[o].props[p]}
<1>1. st[o] = Folded(R) /\ st[o] \in States
  BY StateIsLast
<1>2. /\ n \in Nat /\ N \in Nat /\ DOMAIN d.rows = 1..N
      /\ Append(ch, d) \in Seq(Deltas)
  BY DEF Deltas
<1>3. /\ all = R \cup {Place(d, n, k) : k \in RowsFor(d, o)}
      /\ \A x \in R : x.ord \in Nat /\ x.ord < n
  BY AppendedRecords
<1>4. Ordered(all)
  BY <1>2, AllOfOrdered
<1>5. \A k \in RowsFor(d, o) :
        /\ k \in 1..N /\ d.rows[k].kind \in {"Delta", "Tombstone"}
        /\ \A x \in R : Before(x, Place(d, n, k))
        /\ \A j \in RowsFor(d, o) : j < k => Before(Place(d, n, j), Place(d, n, k))
  BY <1>2, MappedRowsFollow DEF RowsFor
<1>6. \A k \in RowsFor(d, o) : Place(d, n, k).ord = n /\ Place(d, n, k).row = k /\ Place(d, n, k).rec = d.rows[k]
  BY DEF Place
<1> HIDE DEF st, R, n, N, all
<1>7. \A k \in Nat : Ordered(Upto(k))
  <2>1. \A k \in Nat : Upto(k) \in SUBSET all
    BY <1>3
  <2> HIDE DEF Upto
  <2> QED BY <1>4, <2>1, OrderedSubset
<1>8. 0 \in P
  <2>1. Upto(0) = R
    BY <1>2, <1>5
  <2> HIDE DEF Upto
  <2> QED BY <1>1, <2>1
<1>9. ASSUME NEW k \in Nat, k \in P PROVE k + 1 \in P
  <2> SUFFICES ASSUME k + 1 <= N
               PROVE  /\ Folded(Upto(k + 1)) \in States
                      /\ Folded(Upto(k + 1)).props[p] = st[o].props[p]
    OBVIOUS
  <2>0. Folded(Upto(k)) \in States /\ Folded(Upto(k)).props[p] = st[o].props[p]
    BY <1>2, <1>9
  <2>1. CASE k + 1 \notin RowsFor(d, o)
    <3>1. {i \in RowsFor(d, o) : i <= k + 1} = {i \in RowsFor(d, o) : i <= k}
      BY <1>2, <1>5, <2>1
    <3>2. Upto(k + 1) = Upto(k)
      BY <3>1
    <3> HIDE DEF Upto
    <3> QED BY <2>0, <3>2
  <2>2. CASE k + 1 \in RowsFor(d, o)
    <3> DEFINE m == Place(d, n, k + 1)
               r == d.rows[k + 1]
               s == Folded(Upto(k))
    <3>1. {i \in RowsFor(d, o) : i <= k + 1} = {i \in RowsFor(d, o) : i <= k} \cup {k + 1}
      BY <1>2, <1>5, <2>2
    <3>2. Upto(k + 1) = Upto(k) \cup {m}
      BY <3>1
    <3>3. ASSUME NEW x \in Upto(k) PROVE x # m /\ Before(x, m)
      <4>1. CASE x \in R
        <5>1. x.ord \in Nat /\ x.ord < n /\ Before(x, m)
          BY <1>3, <1>5, <2>2, <4>1
        <5>2. m.ord = n
          BY <1>6, <2>2
        <5> QED BY <1>2, <5>1, <5>2
      <4>2. CASE \E j \in RowsFor(d, o) : j <= k /\ x = Place(d, n, j)
        <5>1. PICK j \in RowsFor(d, o) : j <= k /\ x = Place(d, n, j)
          BY <4>2
        <5>2. j < k + 1 /\ j # k + 1
          BY <1>2, <1>5, <5>1
        <5>3. x.row = j /\ m.row = k + 1
          BY <1>6, <2>2, <5>1
        <5> QED BY <1>5, <2>2, <5>1, <5>2, <5>3
      <4> QED BY <4>1, <4>2
    <3>4. IsLast(m, Upto(k + 1)) /\ Upto(k + 1) \ {m} = Upto(k)
      <4> HIDE DEF Upto, m
      <4> QED BY <3>2, <3>3 DEF IsLast
    <3>5. m.rec = r /\ r.kind \in {"Delta", "Tombstone"} /\ p \notin DOMAIN r.vals
      BY <1>5, <1>6, <2>2
    <3> HIDE DEF Upto, m, r
    <3>6. Ordered(Upto(k + 1))
      BY <1>7
    <3>7. Folded(Upto(k + 1)) = Apply(r, s) /\ Folded(Upto(k + 1)) \in States
      BY <3>4, <3>5, <3>6, FoldedLast
    <3>8. s \in States /\ s # NoState
      BY <2>0, NoStateAssumption
    <3> HIDE DEF s
    <3>9. Apply(r, s).props[p] = s.props[p]
      <4>1. CASE r.kind = "Delta"
        <5>1. Apply(r, s) = [kind |-> r.kind, csn |-> r.csn, ts |-> r.ts, live |-> TRUE,
                 props |-> [q \in Props |-> IF q \in DOMAIN r.vals THEN r.vals[q] ELSE s.props[q]]]
          BY <3>8, <4>1 DEF Apply
        <5> QED BY <3>5, <5>1
      <4>2. CASE r.kind = "Tombstone"
        <5>1. Apply(r, s) = [s EXCEPT !.kind = r.kind, !.csn = r.csn, !.ts = r.ts, !.live = FALSE]
          BY <3>8, <4>2 DEF Apply
        <5> QED BY <3>8, <5>1 DEF States
      <4> QED BY <3>5, <4>1, <4>2
    <3> QED BY <2>0, <3>7, <3>9 DEF s
  <2> QED BY <2>1, <2>2
<1>10. N \in P
  <2> HIDE DEF P
  <2> QED BY <1>2, <1>8, <1>9, NatSetInduction
<1>11. Upto(N) = all
  <2>1. {i \in RowsFor(d, o) : i <= N} = RowsFor(d, o)
    BY <1>2, <1>5
  <2> QED BY <1>3, <2>1
<1>12. Folded(all).props[p] = st[o].props[p]
  <2> HIDE DEF Upto
  <2> QED BY <1>2, <1>10, <1>11
<1> QED BY <1>12 DEF all, st

(* The last row built for a live object decides.                            *)
LEMMA MappedRowsDecide ==
  ASSUME NEW b \in Seq(Records), NEW ch \in Seq(Deltas), NEW d \in Deltas,
         Everything(b, ch, Latest) # RefInvalid, Everything(b, Append(ch, d), Latest) # RefInvalid,
         MapDelta(d, Everything(b, ch, Latest)), NEW o \in Live(Everything(b, ch, Latest)),
         RowsFor(d, o) # {}
  PROVE  LET r == d.rows[MaxOf(RowsFor(d, o))]
             s == Everything(b, Append(ch, d), Latest)[o]
         IN IF r.kind = "Tombstone" THEN s = NoState
            ELSE s # NoState /\ s.csn = r.csn
<1> DEFINE R == AllOf(b, ch, o)
           n == Len(ch) + 1
           M == RowsFor(d, o)
           k == MaxOf(M)
           m == Place(d, n, k)
           all == AllOf(b, Append(ch, d), o)
           f == Folded(all)
<1>1. /\ n \in Nat /\ Len(d.rows) \in Nat /\ DOMAIN d.rows = 1..Len(d.rows)
      /\ Append(ch, d) \in Seq(Deltas)
  BY DEF Deltas
<1>2. k \in M /\ \A j \in M : j <= k
  <2>0. IsFiniteSet(1..Len(d.rows))
    <3> HIDE DEF R, n, M, k, m, all, f
    <3>1. 1 \in Int /\ Len(d.rows) \in Int
      BY <1>1
    <3> QED BY <3>1, FS_Interval
  <2>1. M \in SUBSET (1..Len(d.rows)) /\ IsFiniteSet(1..Len(d.rows))
    BY <1>1, <2>0 DEF RowsFor
  <2>2. IsFiniteSet(M) /\ M \in SUBSET Int /\ M # {}
    BY <2>1, FS_Subset
  <2> HIDE DEF M
  <2> QED BY <2>2, MaxOfFinite
<1>3. all = R \cup {Place(d, n, j) : j \in M}
  BY AppendedRecords
<1>4. /\ \A x \in R : Before(x, m)
      /\ \A j \in M : j < k => Before(Place(d, n, j), m)
  BY <1>2, MappedRowsFollow
<1>5. \A j \in M : j \in Nat
  BY <1>1 DEF RowsFor
<1>6. /\ Ordered(all)
      /\ Everything(b, Append(ch, d), Latest)[o] = IF f = NoState \/ ~f.live THEN NoState ELSE f
  BY <1>1, LatestByObject, AllOfOrdered DEF Live
<1>7. m.rec = d.rows[k]
  BY DEF Place
<1> HIDE DEF R, n, M, k, m, all
<1>8. IsLast(m, all)
  <2>1. m \in all
    BY <1>2, <1>3 DEF m
  <2>2. ASSUME NEW x \in all, x # m PROVE Before(x, m)
    <3>1. CASE x \in R
      BY <1>4, <3>1
    <3>2. CASE \E j \in M : x = Place(d, n, j)
      <4>1. PICK j \in M : x = Place(d, n, j)
        BY <3>2
      <4>2. j # k
        BY <2>2, <4>1 DEF m
      <4>3. j < k
        BY <1>2, <1>5, <4>2
      <4> QED BY <1>4, <4>1, <4>3
    <3> QED BY <1>3, <3>1, <3>2
  <2> QED BY <2>1, <2>2 DEF IsLast
<1>9. f # NoState /\ f.csn = m.rec.csn /\ (f.live <=> m.rec.kind # "Tombstone")
  BY <1>6, <1>8, FoldedLast
<1> HIDE DEF f
<1>10. LET r == d.rows[k]
           s == Everything(b, Append(ch, d), Latest)[o]
       IN IF r.kind = "Tombstone" THEN s = NoState ELSE s # NoState /\ s.csn = r.csn
  BY <1>6, <1>7, <1>9
<1> QED BY <1>10 DEF k, M

(* A full row decides all properties of its object.                         *)
LEMMA FullRow ==
  ASSUME NEW r \in Records, DOMAIN r.vals = Props, r.kind # "Tombstone",
         NEW s \in States \cup {NoState}
  PROVE  Apply(r, s).props = r.vals
<1>1. r.vals = [p \in Props |-> r.vals[p]] /\ r.kind \in Kinds
  BY DEF Records
<1>2. CASE r.kind \in {"Baseline", "Snapshot"} \/ s = NoState
  <2>1. Apply(r, s) = FullState(r)
    BY <1>2 DEF Apply
  <2>2. FullState(r).props = [p \in Props |-> r.vals[p]]
    BY DEF FullState
  <2> QED BY <1>1, <2>1, <2>2
<1>3. CASE r.kind = "Delta" /\ s # NoState
  <2>1. Apply(r, s).props = [p \in Props |-> IF p \in DOMAIN r.vals THEN r.vals[p] ELSE s.props[p]]
    BY <1>3 DEF Apply
  <2>2. Apply(r, s).props = [p \in Props |-> r.vals[p]]
    BY <2>1
  <2> QED BY <1>1, <2>2
<1> QED BY <1>1, <1>2, <1>3 DEF Kinds

(* A checkpoint appended to the states it was built from changes no value.  *)
LEMMA CheckpointSame ==
  ASSUME NEW b \in Seq(Records), NEW ch \in Seq(Deltas), NEW d \in Deltas,
         Everything(b, ch, Latest) # RefInvalid, Everything(b, Append(ch, d), Latest) # RefInvalid,
         CheckpointDelta(d, Everything(b, ch, Latest)), NEW o \in Objects
  PROVE  LET before == Everything(b, ch, Latest)[o]
             after == Everything(b, Append(ch, d), Latest)[o]
         IN /\ before = NoState => after = NoState
            /\ before # NoState => after # NoState /\ after.props = before.props
<1> DEFINE st == Everything(b, ch, Latest)
           R == AllOf(b, ch, o)
           n == Len(ch) + 1
           all == AllOf(b, Append(ch, d), o)
           f == Folded(all)
           after == Everything(b, Append(ch, d), Latest)[o]
<1>1. n \in Nat /\ Append(ch, d) \in Seq(Deltas)
  OBVIOUS
<1>2. all = R \cup {Place(d, n, j) : j \in RowsFor(d, o)}
  BY AppendedRecords
<1>3. Ordered(all) /\ after = IF f = NoState \/ ~f.live THEN NoState ELSE f
  BY <1>1, LatestByObject, AllOfOrdered
<1>4. Ordered(R) /\ st[o] = IF Folded(R) = NoState \/ ~Folded(R).live THEN NoState ELSE Folded(R)
  BY LatestByObject, AllOfOrdered
<1>5. CheckpointDelta(d, st)
  OBVIOUS
<1>6. CASE st[o] = NoState
  <2>1. RowsFor(d, o) = {}
    BY <1>5, <1>6 DEF CheckpointDelta, RowsFor, Live
  <2>2. all = R
    BY <1>2, <2>1
  <2> HIDE DEF all, R
  <2> QED BY <1>3, <1>4, <1>6, <2>2
<1>7. CASE st[o] # NoState
  <2> DEFINE m == LastOf(all)
             old == LastOf(R)
  <2>1. o \in Live(st)
    BY <1>7 DEF Live
  <2>2. /\ IsLast(old, R) /\ old \in Places /\ st[o].ts = old.rec.ts /\ st[o] \in States
    BY <2>1, StateIsLast
  <2>3. PICK k \in DOMAIN d.rows : d.rows[k].obj = o
    BY <1>5, <2>1 DEF CheckpointDelta
  <2>4. k \in RowsFor(d, o) /\ st[o].ts < d.tStart
    BY <1>5, <2>1, <2>3 DEF RowsFor, CheckpointDelta
  <2>5. \A j \in RowsFor(d, o) : d.rows[j] = RowOf(o, st[o], "Snapshot", d.csnMin, d.tStart)
    BY <1>5 DEF CheckpointDelta, RowsFor
  <2>6. \A j \in RowsFor(d, o) :
          /\ d.rows[j].ts = d.tStart /\ d.rows[j].kind = "Snapshot" /\ d.rows[j].vals = st[o].props
    BY <2>5 DEF RowOf
  <2> HIDE DEF st, R, all, m, old
  <2>7. IsLast(m, all)
    <3>1. all # {}
      BY <1>2, <2>4
    <3> QED BY <1>3, <3>1, LastExists DEF m
  <2>8. PICK j \in RowsFor(d, o) : m = Place(d, n, j)
    <3>1. m \in R => FALSE
      <4> SUFFICES ASSUME m \in R PROVE FALSE
        OBVIOUS
      <4> DEFINE x == Place(d, n, k)
      <4>1. x \in all /\ x \in Places /\ x.rec.ts = d.tStart
        BY <1>1, <1>2, <2>3, <2>4, <2>6, PlaceTyped
      <4>2. m \in Places
        BY <1>4 DEF Ordered
      <4>3. m.rec.ts <= old.rec.ts
        <5>1. m = old \/ Before(m, old)
          BY <2>2 DEF IsLast
        <5>2. m.rec.ts \in Int /\ old.rec.ts \in Int
          BY <2>2, <4>2, PlaceTypes
        <5> QED BY <5>1, <5>2 DEF Before
      <4>4. /\ m.rec.ts \in Int /\ old.rec.ts \in Int /\ x.rec.ts \in Int
        BY <2>2, <4>1, <4>2, PlaceTypes
      <4> HIDE DEF x
      <4>5. m.rec.ts < x.rec.ts
        BY <2>2, <2>4, <4>1, <4>3, <4>4
      <4>6. Before(m, x) /\ x # m
        BY <4>4, <4>5 DEF Before
      <4>7. Before(x, m)
        BY <2>7, <4>1, <4>6 DEF IsLast
      <4> QED BY <4>1, <4>2, <4>6, <4>7, BeforeOrder
    <3>2. m \in all
      BY <2>7 DEF IsLast
    <3> QED BY <1>2, <3>1, <3>2
  <2>9. m.rec = d.rows[j]
    BY <2>8 DEF Place
  <2>10. /\ f = Apply(m.rec, Folded(all \ {m})) /\ Folded(all \ {m}) \in States \cup {NoState}
         /\ m.rec \in Records /\ f # NoState /\ (f.live <=> m.rec.kind # "Tombstone")
    BY <1>3, <2>7, FoldedLast
  <2>11. m.rec.kind = "Snapshot" /\ m.rec.vals = st[o].props /\ DOMAIN st[o].props = Props
    BY <2>2, <2>6, <2>8, <2>9 DEF States
  <2>12. f.props = st[o].props
    BY <2>10, <2>11, FullRow
  <2> HIDE DEF f
  <2>13. after = f
    BY <1>3, <2>10, <2>11
  <2> QED BY <1>7, <2>10, <2>12, <2>13 DEF st
<1> QED BY <1>6, <1>7

(* Compaction writes records without references, so its base can be read.   *)
LEMMA CompactionReads ==
  ASSUME TInv, Compact
  PROVE  Everything(base', <<>>, Latest) # RefInvalid
<1> DEFINE A == Placed(base', <<>>, DOMAIN <<>>)
<1>1. base' \in Seq(Records) /\ <<>> \in Seq(Deltas)
  BY CompactedBase
<1>2. \A i \in DOMAIN base' : base'[i].prev = 0
  BY CompactedBase DEF RowOf
<1>3. \A x \in A : x.rec.prev = 0
  BY <1>2 DEF Placed
<1> HIDE DEF A
<1>4. PrevRefsValid(A) /\ StepsChained(A)
  BY <1>3 DEF PrevRefsValid, StepsChained
<1> QED BY <1>1, <1>4, LatestReads DEF A

(* The base that compaction writes reads back as the chain did.             *)
LEMMA CompactionSame ==
  ASSUME TInv, Compact, NEW o \in Objects
  PROVE  LET before == LatestStates[o]
             after == Everything(base', <<>>, Latest)[o]
         IN /\ before = NoState => after = NoState
            /\ before # NoState => after # NoState /\ after.props = before.props
<1> DEFINE st == LatestStates
           all == AllOf(base', <<>>, o)
           f == Folded(all)
           after == Everything(base', <<>>, Latest)[o]
<1>1. PICK order \in Orders(Live(st)) :
        /\ base' = [i \in DOMAIN order |->
                      RowOf(order[i], st[order[i]], st[order[i]].kind,
                            st[order[i]].csn, st[order[i]].ts)]
        /\ base' \in Seq(Records)
        /\ \A i \in DOMAIN order : order[i] \in Live(st)
        /\ \A q \in Live(st) : \E i \in DOMAIN order : order[i] = q
  BY CompactedBase
<1>0. st # RefInvalid
  BY DEF Compact
<1>2. \A q \in Live(st) : q \in Objects /\ st[q] \in States /\ st[q].kind # "Tombstone"
  BY <1>0, LatestTypes DEF TInv, LatestStates
<1>3. <<>> \in Seq(Deltas)
  OBVIOUS
<1>4. Ordered(all) /\ after = IF f = NoState \/ ~f.live THEN NoState ELSE f
  BY <1>1, <1>3, CompactionReads, LatestByObject, AllOfOrdered
<1> HIDE DEF st
<1>5. all = {[rec |-> base'[i], ord |-> 0, row |-> i] : i \in {j \in DOMAIN order : order[j] = o}}
  <2>1. Placed(base', <<>>, DOMAIN <<>>) = {[rec |-> base'[i], ord |-> 0, row |-> i] : i \in DOMAIN order}
    BY <1>1 DEF Placed
  <2>2. \A i \in DOMAIN order : base'[i].obj = order[i]
    BY <1>1 DEF RowOf
  <2> QED BY <2>1, <2>2 DEF AllOf, Of
<1> HIDE DEF all
<1>6. CASE st[o] = NoState
  <2>1. \A i \in DOMAIN order : order[i] # o
    BY <1>1, <1>6 DEF Live
  <2>2. all = {}
    BY <1>5, <2>1
  <2>3. f = NoState
    BY <1>4, <2>2, FoldedStep
  <2> QED BY <1>4, <1>6, <2>3 DEF st
<1>7. CASE st[o] # NoState
  <2> DEFINE m == LastOf(all)
  <2>1. o \in Live(st)
    BY <1>7 DEF Live
  <2>2. all # {}
    <3>1. PICK i \in DOMAIN order : order[i] = o
      BY <1>1, <2>1
    <3>2. [rec |-> base'[i], ord |-> 0, row |-> i] \in all
      BY <1>5, <3>1
    <3> QED BY <3>2
  <2>3. IsLast(m, all)
    BY <1>4, <2>2, LastExists
  <2> HIDE DEF m
  <2>4. PICK i \in DOMAIN order : order[i] = o /\ m = [rec |-> base'[i], ord |-> 0, row |-> i]
    BY <1>5, <2>3 DEF IsLast
  <2>5. m.rec = RowOf(o, st[o], st[o].kind, st[o].csn, st[o].ts)
    BY <1>1, <2>4
  <2>6. m.rec.kind # "Tombstone" /\ m.rec.vals = st[o].props /\ DOMAIN st[o].props = Props
    BY <1>2, <2>1, <2>5 DEF RowOf, States
  <2>7. /\ f = Apply(m.rec, Folded(all \ {m})) /\ Folded(all \ {m}) \in States \cup {NoState}
         /\ m.rec \in Records /\ f # NoState /\ (f.live <=> m.rec.kind # "Tombstone")
    BY <1>4, <2>3, FoldedLast
  <2>8. f.props = st[o].props
    BY <2>6, <2>7, FullRow
  <2> HIDE DEF f
  <2>9. after = f
    BY <1>4, <2>6, <2>7
  <2> QED BY <1>7, <2>7, <2>8, <2>9 DEF st
<1> QED BY <1>6, <1>7

-----------------------------------------------------------------------------
(* Only chain-extend takes a built delta away, and it appends a delta only  *)
(* to the chain that the delta names as its parent.                         *)
LEMMA OnlyExtendTakes ==
  ASSUME TInv, [Next]_vars, NEW w \in Writers, slot[w] # NoArtifact, slot'[w] = NoArtifact
  PROVE  /\ Built(slot[w]) /\ base' = base
         /\ \/ chain' = chain
            \/ slot[w].onto = <<base, chain>> /\ chain' = Append(chain, slot[w].delta)
<1>1. PICK S : slot \in [Writers -> S]
  BY DEF TInv
<1>2. ASSUME slot' = slot PROVE FALSE
  BY <1>2
<1>3. ASSUME NEW v \in Writers, NEW a, slot[v] = NoArtifact, slot' = [slot EXCEPT ![v] = a] PROVE FALSE
  BY <1>1, <1>3
<1>4. ASSUME NEW v \in Writers, NEW csn, NEW ts, NEW parents,
             slot[v] = NoArtifact, BuildSemantic(v, csn, ts, parents)
      PROVE  FALSE
  BY <1>3, <1>4 DEF BuildSemantic
<1>5. ~(UNCHANGED vars) /\ ~Compact
  BY <1>2 DEF vars, Compact
<1>6. ASSUME NEW v \in Writers, BuildFirst(v) \/ BuildDelta(v) PROVE FALSE
  BY <1>4, <1>6 DEF BuildFirst, BuildDelta
<1>7. ASSUME NEW v \in Writers, BuildForeign(v) PROVE FALSE
  <2>1. slot[v] = NoArtifact /\ \E a : slot' = [slot EXCEPT ![v] = a]
    BY <1>7 DEF BuildForeign
  <2> QED BY <1>3, <2>1
<1>8. ASSUME NEW v \in Writers, BuildCheckpoint(v) PROVE FALSE
  <2>1. slot[v] = NoArtifact /\ \E a : slot' = [slot EXCEPT ![v] = a]
    BY <1>8 DEF BuildCheckpoint
  <2> QED BY <1>3, <2>1
<1>9. PICK v \in Writers : Extend(v)
  BY <1>5, <1>6, <1>7, <1>8 DEF Next
<1>10. slot' = [slot EXCEPT ![v] = NoArtifact]
  BY <1>9 DEF Extend
<1>11. v = w
  BY <1>1, <1>10
<1>12. Built(slot[w])
  BY DEF TInv
<1> QED BY <1>9, <1>11, <1>12 DEF Extend

(* What an appended delta of cove map or a checkpoint says of the states it *)
(* is appended to.                                                          *)
LEMMA AppendedFacts ==
  ASSUME TInv, [Next]_vars, NEW w \in Writers, slot[w] # NoArtifact, slot'[w] = NoArtifact,
         chain' # chain
  PROVE  /\ base \in Seq(Records) /\ chain \in Seq(Deltas) /\ slot[w].delta \in Deltas
         /\ base' = base /\ chain' = Append(chain, slot[w].delta)
         /\ slot[w].by \in {"map", "checkpoint"} => LatestStates # RefInvalid
         /\ slot[w].by = "map" => MapDelta(slot[w].delta, LatestStates)
         /\ slot[w].by = "checkpoint" => CheckpointDelta(slot[w].delta, LatestStates)
<1>1. /\ Built(slot[w]) /\ base' = base
      /\ slot[w].onto = <<base, chain>> /\ chain' = Append(chain, slot[w].delta)
  BY OnlyExtendTakes
<1>2. PICK b \in Seq(Records), ch \in Seq(Deltas) :
       /\ slot[w].onto = <<b, ch>>
       /\ slot[w].by \in {"map", "checkpoint"} => Everything(b, ch, Latest) # RefInvalid
       /\ slot[w].by = "map" => MapDelta(slot[w].delta, Everything(b, ch, Latest))
       /\ slot[w].by = "checkpoint" => CheckpointDelta(slot[w].delta, Everything(b, ch, Latest))
  BY <1>1 DEF Built
<1>3. b = base /\ ch = chain
  BY <1>1, <1>2
<1>4. slot[w].delta \in Deltas
  BY <1>1 DEF Built
<1> QED BY <1>1, <1>2, <1>3, <1>4 DEF LatestStates

(* The comparison of lineage parents makes a delta fit the states it is     *)
(* appended to, however builders, publishers and compaction interleave.     *)
THEOREM FitsParent == Spec => BuiltOnWhatItExtends
<1>1. ASSUME TInv, [Next]_vars, NEW w \in Writers, AppendsMapped(w), NEW k \in DOMAIN slot[w].delta.rows
      PROVE  (slot[w].delta.rows[k].kind = "Baseline")
               <=> (LatestStates[slot[w].delta.rows[k].obj] = NoState)
  <2>1. MapDelta(slot[w].delta, LatestStates)
    BY <1>1, AppendedFacts DEF AppendsMapped
  <2> QED BY <1>1, <2>1 DEF MapDelta
<1>2. TInv /\ [Next]_vars =>
        [\A w \in Writers : AppendsMapped(w) =>
           \A k \in DOMAIN slot[w].delta.rows :
             LET r == slot[w].delta.rows[k] IN
             (r.kind = "Baseline") <=> (LatestStates[r.obj] = NoState)]_vars
  BY <1>1
<1> QED BY <1>2, TypeInvariance, PTL DEF Spec, BuiltOnWhatItExtends

(* An update or deletion of a live object takes effect when its delta is    *)
(* appended: the anchors of semantic_delta_continuation_anchors put its     *)
(* rows after every record that readback applies.                           *)
THEOREM UpdatesApply == Spec => UpdatesTakeEffect
<1>1. ASSUME TInv, [Next]_vars, NEW w \in Writers, AppendsMapped(w), LatestStates' # RefInvalid,
             NEW o \in Live(LatestStates), RowsFor(slot[w].delta, o) # {}
      PROVE  LET r == slot[w].delta.rows[MaxOf(RowsFor(slot[w].delta, o))]
                 s == LatestStates'[o]
             IN IF r.kind = "Tombstone" THEN s = NoState ELSE s # NoState /\ s.csn = r.csn
  <2> DEFINE d == slot[w].delta
  <2>1. /\ base \in Seq(Records) /\ chain \in Seq(Deltas) /\ d \in Deltas
        /\ base' = base /\ chain' = Append(chain, d) /\ MapDelta(d, LatestStates)
        /\ LatestStates # RefInvalid
    BY <1>1, AppendedFacts DEF AppendsMapped
  <2>2. LatestStates' = Everything(base, Append(chain, d), Latest)
    BY <2>1 DEF LatestStates
  <2>3. /\ MapDelta(d, Everything(base, chain, Latest)) /\ o \in Live(Everything(base, chain, Latest))
        /\ Everything(base, chain, Latest) # RefInvalid
    BY <1>1, <2>1 DEF LatestStates
  <2> QED BY <1>1, <2>1, <2>2, <2>3, MappedRowsDecide
<1>2. TInv /\ [Next]_vars =>
        [\A w \in Writers : AppendsMapped(w) /\ LatestStates' # RefInvalid =>
           \A o \in Live(LatestStates) :
             LET mine == RowsFor(slot[w].delta, o)
                 r == slot[w].delta.rows[MaxOf(mine)]
                 s == LatestStates'[o]
             IN mine # {} => IF r.kind = "Tombstone" THEN s = NoState
                             ELSE s # NoState /\ s.csn = r.csn]_vars
  BY <1>1
<1> QED BY <1>2, TypeInvariance, PTL DEF Spec, UpdatesTakeEffect

(* An update leaves alone the objects that its delta does not name, and the *)
(* properties whose columns the delta does not have.                        *)
THEOREM UpdatesAreLocal == Spec => UpdatesKeepTheRest
<1>1. ASSUME TInv, [Next]_vars, NEW w \in Writers, AppendsMapped(w), LatestStates' # RefInvalid,
             NEW o \in Objects
      PROVE  LET mine == RowsFor(slot[w].delta, o) IN
             /\ mine = {} => LatestStates'[o] = LatestStates[o]
             /\ LatestStates[o] # NoState /\ LatestStates'[o] # NoState =>
                  \A p \in Props :
                    (\A k \in mine : p \notin DOMAIN slot[w].delta.rows[k].vals)
                      => LatestStates'[o].props[p] = LatestStates[o].props[p]
  <2> DEFINE d == slot[w].delta
             R == AllOf(base, chain, o)
             all == AllOf(base, Append(chain, d), o)
  <2>1. /\ base \in Seq(Records) /\ chain \in Seq(Deltas) /\ d \in Deltas
        /\ base' = base /\ chain' = Append(chain, d) /\ MapDelta(d, LatestStates)
        /\ LatestStates # RefInvalid
    BY <1>1, AppendedFacts DEF AppendsMapped
  <2>2. LatestStates' = Everything(base, Append(chain, d), Latest) /\ Append(chain, d) \in Seq(Deltas)
    BY <2>1 DEF LatestStates
  <2>3. LatestStates[o] = IF Folded(R) = NoState \/ ~Folded(R).live THEN NoState ELSE Folded(R)
    BY <2>1, LatestByObject DEF LatestStates
  <2>4. LatestStates'[o] = IF Folded(all) = NoState \/ ~Folded(all).live THEN NoState ELSE Folded(all)
    BY <1>1, <2>1, <2>2, LatestByObject
  <2>5. ASSUME RowsFor(d, o) = {} PROVE LatestStates'[o] = LatestStates[o]
    <3>1. all = R \cup {Place(d, Len(chain) + 1, k) : k \in RowsFor(d, o)}
      BY <2>1, AppendedRecords
    <3>2. all = R
      BY <2>5, <3>1
    <3> HIDE DEF all, R
    <3> QED BY <2>3, <2>4, <3>2
  <2>6. ASSUME LatestStates[o] # NoState, LatestStates'[o] # NoState, NEW p \in Props,
               \A k \in RowsFor(d, o) : p \notin DOMAIN d.rows[k].vals
        PROVE  LatestStates'[o].props[p] = LatestStates[o].props[p]
    <3>1. /\ o \in Live(Everything(base, chain, Latest)) /\ MapDelta(d, Everything(base, chain, Latest))
          /\ Everything(base, chain, Latest) # RefInvalid
      BY <1>1, <2>1, <2>6 DEF Live, LatestStates
    <3>2. Folded(all).props[p] = Everything(base, chain, Latest)[o].props[p]
      BY <2>1, <2>6, <3>1, MappedRowsKeep
    <3>3. LatestStates'[o] = Folded(all)
      BY <2>4, <2>6
    <3> HIDE DEF all
    <3> QED BY <3>2, <3>3 DEF LatestStates
  <2> QED BY <2>5, <2>6
<1>2. TInv /\ [Next]_vars =>
        [\A w \in Writers : AppendsMapped(w) /\ LatestStates' # RefInvalid =>
           LET before == LatestStates
               after == LatestStates'
           IN \A o \in Objects :
                LET mine == RowsFor(slot[w].delta, o) IN
                /\ mine = {} => after[o] = before[o]
                /\ before[o] # NoState /\ after[o] # NoState =>
                     \A p \in Props :
                       (\A k \in mine : p \notin DOMAIN slot[w].delta.rows[k].vals)
                         => after[o].props[p] = before[o].props[p]]_vars
  BY <1>1
<1> QED BY <1>2, TypeInvariance, PTL DEF Spec, UpdatesKeepTheRest

(* A chain stops to be readable through an append of this repository's      *)
(* tools only where cove map creates a deleted object again, at a time      *)
(* before that of a row of the object which has a reference: the anchors    *)
(* put every other row after the records of its object.                     *)
THEOREM OnlyRecreation == Spec => OnlyRecreationBreaksReads
<1>1. ASSUME TInv, IInv, [Next]_vars, NEW w \in Writers, slot[w] # NoArtifact,
             slot'[w] = NoArtifact, slot[w].by \in {"map", "checkpoint"},
             LatestStates # RefInvalid, LatestStates' = RefInvalid
      PROVE  \E k \in DOMAIN slot[w].delta.rows, i \in DOMAIN chain :
               \E l \in DOMAIN chain[i].rows :
                 LET new == slot[w].delta.rows[k]
                     old == chain[i].rows[l]
                 IN new.kind = "Baseline" /\ new.obj = old.obj
                    /\ new.ts < old.ts /\ old.prev # 0
  <2> DEFINE d == slot[w].delta
             n == Len(chain) + 1
             st == Everything(base, chain, Latest)
  <2>1. chain' # chain
    <3>1. base' = base
      BY <1>1, OnlyExtendTakes
    <3> QED BY <1>1, <3>1 DEF LatestStates
  <2>2. /\ base \in Seq(Records) /\ chain \in Seq(Deltas) /\ d \in Deltas
        /\ base' = base /\ chain' = Append(chain, d)
        /\ slot[w].by = "map" => MapDelta(d, LatestStates)
        /\ slot[w].by = "checkpoint" => CheckpointDelta(d, LatestStates)
    BY <1>1, <2>1, AppendedFacts
  <2>3. /\ st # RefInvalid /\ Everything(base, Append(chain, d), Latest) = RefInvalid
        /\ slot[w].by = "map" => MapDelta(d, st)
        /\ slot[w].by = "checkpoint" => CheckpointDelta(d, st)
    BY <1>1, <2>2 DEF LatestStates
  <2> HIDE DEF d
  <2>4. MapDelta(d, st)
    BY <1>1, <2>2, <2>3, CheckpointReads
  <2>5. PICK x \in Placed(base, chain, DOMAIN chain), k \in DOMAIN d.rows :
          x.rec.prev # 0 /\ x.rec.obj = d.rows[k].obj /\ Before(Place(d, n, k), x)
    BY <2>2, <2>3, <2>4, MappedStepsHold, BrokenByEarlierRow
  <2>6. PICK i \in DOMAIN chain : \E l \in DOMAIN chain[i].rows :
          x = [rec |-> chain[i].rows[l], ord |-> i, row |-> l]
    <3>1. \A l \in DOMAIN base : base[l].prev = 0
      BY <1>1 DEF IInv
    <3>2. ~(\E l \in DOMAIN base : x = [rec |-> base[l], ord |-> 0, row |-> l])
      BY <2>5, <3>1
    <3> QED BY <3>2 DEF Placed
  <2>7. PICK l \in DOMAIN chain[i].rows : x = [rec |-> chain[i].rows[l], ord |-> i, row |-> l]
    BY <2>6
  <2> DEFINE old == chain[i].rows[l]
             new == d.rows[k]
             o == new.obj
  <2>8. x.rec = old /\ x.ord = i
    BY <2>7
  <2>9. n \in Nat /\ DOMAIN chain = 1..Len(chain) /\ Len(chain) \in Nat
    BY <2>2
  <2>10. /\ Place(d, n, k) \in Places /\ Place(d, n, k).rec = new /\ Place(d, n, k).ord = n
         /\ new \in Records
    BY <2>2, <2>9, PlaceTyped
  <2>11. x \in AllOf(base, chain, o) /\ x \in Places
    <3>1. x \in AllOf(base, chain, o)
      BY <2>5 DEF AllOf, Of
    <3> QED BY <2>2, <3>1, AllOfOrdered DEF Ordered
  <2>12. new.kind = "Baseline"
    <3> SUFFICES ASSUME new.kind # "Baseline" PROVE FALSE
      OBVIOUS
    <3>1. o \in Live(st)
      <4> HIDE DEF st
      <4>1. o \in Objects /\ st[o] # NoState
        BY <2>4, <2>10 DEF MapDelta, Records
      <4> QED BY <4>1 DEF Live
    <3>2. k \in RowsFor(d, o)
      BY DEF RowsFor
    <3>3. Before(x, Place(d, n, k))
      BY <2>2, <2>3, <2>4, <2>11, <3>1, <3>2, MappedRowsFollow
    <3> HIDE DEF st, n, o, new
    <3> QED BY <2>5, <2>10, <2>11, <3>3, BeforeOrder
  <2>13. old.csn < new.csn
    <3>1. IInv'
      BY <1>1, NextIInv
    <3>2. AppendOnly(Append(chain, d))
      <4>1. AppendOnly(chain')
        BY <3>1 DEF IInv, AppendOnly, HeaderBounds, RefsWithin
      <4> QED BY <2>2, <4>1
    <3> DEFINE e == Append(chain, d)
    <3>3. /\ i \in DOMAIN e /\ n \in DOMAIN e /\ i < n /\ e[i] = chain[i] /\ e[n] = d
      BY <2>2, <2>9
    <3> HIDE DEF e, n
    <3>4. /\ HeaderBounds(chain[i]) /\ HeaderBounds(d) /\ chain[i].csnMax < d.csnMin
      BY <3>2, <3>3 DEF AppendOnly, e
    <3>5. /\ old.csn \in Nat /\ old.csn <= chain[i].csnMax /\ chain[i].csnMax \in Nat
      BY <3>4 DEF HeaderBounds
    <3>6. new.csn \in Nat /\ d.csnMin <= new.csn /\ d.csnMin \in Nat
      BY <3>4 DEF HeaderBounds
    <3> HIDE DEF old, new
    <3> QED BY <3>4, <3>5, <3>6
  <2>14. new.ts < old.ts
    <3>1. old.ts \in Int /\ new.ts \in Int /\ old.csn \in Int /\ new.csn \in Int
      BY <2>8, <2>10, <2>11, PlaceTypes
    <3> HIDE DEF old, new, n
    <3> QED BY <2>5, <2>8, <2>10, <2>13, <3>1 DEF Before
  <2> QED BY <2>5, <2>8, <2>12, <2>14 DEF d
<1>2. TInv /\ IInv /\ [Next]_vars =>
        [\A w \in Writers :
          /\ slot[w] # NoArtifact /\ slot'[w] = NoArtifact /\ slot[w].by \in {"map", "checkpoint"}
          /\ LatestStates # RefInvalid /\ LatestStates' = RefInvalid
          => \E k \in DOMAIN slot[w].delta.rows, i \in DOMAIN chain :
               \E l \in DOMAIN chain[i].rows :
                 LET new == slot[w].delta.rows[k]
                     old == chain[i].rows[l]
                 IN new.kind = "Baseline" /\ new.obj = old.obj
                    /\ new.ts < old.ts /\ old.prev # 0]_vars
  BY <1>1
<1> QED BY <1>2, TypeInvariance, ChainInvariance, PTL DEF Spec, OnlyRecreationBreaksReads

(* Values see of a state whether it is there and its properties.            *)
LEMMA SameValues ==
  ASSUME NEW s, NEW t, s # RefInvalid, t # RefInvalid,
         \A o \in Objects : /\ s[o] = NoState => t[o] = NoState
                            /\ s[o] # NoState => t[o] # NoState /\ t[o].props = s[o].props
  PROVE  Values(t) = Values(s)
  BY DEF Values

(* A checkpoint can be appended at any time without changing a value: its   *)
(* Snapshot rows are later than the states they repeat.                     *)
THEOREM CheckpointsInvisible == Spec => CheckpointKeepsValues
<1>1. ASSUME TInv, [Next]_vars, NEW w \in Writers, slot[w] # NoArtifact, slot'[w] = NoArtifact,
             slot[w].by = "checkpoint"
      PROVE  Values(LatestStates') = Values(LatestStates)
  <2>1. CASE chain' = chain
    <3>1. base' = base
      BY <1>1, OnlyExtendTakes
    <3>2. LatestStates' = LatestStates
      BY <2>1, <3>1 DEF LatestStates
    <3> QED BY <3>2
  <2>2. CASE chain' # chain
    <3> DEFINE d == slot[w].delta
               s == Everything(base, chain, Latest)
               t == Everything(base, Append(chain, d), Latest)
    <3>1. /\ base \in Seq(Records) /\ chain \in Seq(Deltas) /\ d \in Deltas
          /\ base' = base /\ chain' = Append(chain, d) /\ CheckpointDelta(d, LatestStates)
          /\ LatestStates # RefInvalid
      BY <1>1, <2>2, AppendedFacts
    <3>2. LatestStates' = t /\ LatestStates = s
      BY <3>1 DEF LatestStates
    <3>3. CheckpointDelta(d, s) /\ s # RefInvalid
      BY <3>1, <3>2
    <3>6. t # RefInvalid
      BY <3>1, <3>3, CheckpointReads
    <3>4. \A o \in Objects : /\ s[o] = NoState => t[o] = NoState
                             /\ s[o] # NoState => t[o] # NoState /\ t[o].props = s[o].props
      BY <3>1, <3>3, <3>6, CheckpointSame
    <3> HIDE DEF s, t
    <3>5. Values(t) = Values(s)
      BY <3>3, <3>4, <3>6, SameValues
    <3> QED BY <3>2, <3>5
  <2> QED BY <2>1, <2>2
<1>2. TInv /\ [Next]_vars =>
        [\A w \in Writers :
          /\ slot[w] # NoArtifact /\ slot'[w] = NoArtifact /\ slot[w].by = "checkpoint"
          => Values(LatestStates') = Values(LatestStates)]_vars
  BY <1>1
<1> QED BY <1>2, TypeInvariance, PTL DEF Spec, CheckpointKeepsValues

(* Compaction of any chain, with partial updates, tombstones, checkpoints   *)
(* and deltas of other tools, keeps every value that a latest query sees.   *)
THEOREM CompactionKeeps == Spec => CompactionKeepsValues
<1>1. ASSUME TInv, Compact PROVE Values(LatestStates') = Values(LatestStates)
  <2> DEFINE s == LatestStates
             t == Everything(base', <<>>, Latest)
  <2>1. LatestStates' = t
    BY <1>1 DEF Compact, LatestStates
  <2>2. \A o \in Objects : /\ s[o] = NoState => t[o] = NoState
                           /\ s[o] # NoState => t[o] # NoState /\ t[o].props = s[o].props
    BY <1>1, CompactionSame
  <2>4. s # RefInvalid /\ t # RefInvalid
    BY <1>1, CompactionReads DEF Compact
  <2> HIDE DEF s, t
  <2>3. Values(t) = Values(s)
    BY <2>2, <2>4, SameValues
  <2> QED BY <2>1, <2>3 DEF s
<1>2. ASSUME TInv, [Next]_vars, base' # base \/ (chain # <<>> /\ chain' = <<>>)
      PROVE  Compact
  <2>1. ~(UNCHANGED vars)
    BY <1>2 DEF vars
  <2>2. ASSUME NEW w \in Writers,
               BuildFirst(w) \/ BuildDelta(w) \/ BuildForeign(w) \/ BuildCheckpoint(w)
        PROVE  FALSE
    BY <1>2, <2>2 DEF BuildFirst, BuildDelta, BuildForeign, BuildCheckpoint
  <2>3. ASSUME NEW w \in Writers, Extend(w) PROVE FALSE
    <3>1. chain \in Seq(Deltas) /\ slot[w] # NoArtifact /\ base' = base
      BY <1>2, <2>3 DEF TInv, Extend
    <3>2. slot[w].delta \in Deltas
      BY <3>1, <1>2 DEF TInv, Built
    <3>3. chain' = chain \/ chain' = Append(chain, slot[w].delta)
      BY <2>3 DEF Extend
    <3>4. Append(chain, slot[w].delta) # <<>>
      BY <3>1, <3>2
    <3> QED BY <1>2, <3>1, <3>3, <3>4
  <2> QED BY <1>2, <2>1, <2>2, <2>3 DEF Next
<1>3. TInv /\ [Next]_vars =>
        [base' # base \/ (chain # <<>> /\ chain' = <<>>) =>
           Values(LatestStates') = Values(LatestStates)]_vars
  BY <1>1, <1>2
<1> QED BY <1>3, TypeInvariance, PTL DEF Spec, CompactionKeepsValues

-----------------------------------------------------------------------------
(* A delta whose header bounds the times of its rows from below; a chain of *)
(* such deltas whose times start in order.                                  *)
TimesBound(d) ==
  d.tStart \in Nat /\ \A k \in DOMAIN d.rows : d.rows[k].ts \in Nat /\ d.tStart <= d.rows[k].ts

TimesOrdered(ch) ==
  /\ \A i \in DOMAIN ch : TimesBound(ch[i])
  /\ \A i, j \in DOMAIN ch : i < j => ch[i].tStart <= ch[j].tStart

(* The inductive invariant for reads as of a commit time.                   *)
CommitInv ==
  /\ TInv /\ IInv
  /\ TimesOrdered(chain)
  /\ \A w \in Writers : slot[w] # NoArtifact => slot[w].by \in {"map", "checkpoint"}

(* The tools of this repository write truthful times into their headers.    *)
LEMMA OwnDeltasBound ==
  ASSUME NEW a, Built(a), a.by \in {"map", "checkpoint"}
  PROVE  TimesBound(a.delta)
<1> DEFINE d == a.delta
<1>1. d \in Deltas /\ d.rows \in Seq(Records) /\ d.tStart \in Nat
  BY ChainAssumption DEF Built, Deltas, Times, ChainAssumption
<1>2. ASSUME NEW k \in DOMAIN d.rows PROVE d.rows[k].ts \in Nat /\ d.tStart <= d.rows[k].ts
  <2>1. k \in Nat /\ k >= 1
    BY <1>1
  <2>2. CASE a.by = "map"
    <3>1. d.rows[k].ts = d.tStart + k - 1
      BY <2>2 DEF Built, MapDelta
    <3> QED BY <1>1, <2>1, <3>1
  <2>3. CASE a.by = "checkpoint"
    <3>1. PICK st : CheckpointDelta(d, st)
      BY <2>3 DEF Built
    <3> DEFINE o == d.rows[k].obj
    <3>2. d.rows[k] = RowOf(o, st[o], "Snapshot", d.csnMin, d.tStart)
      BY <3>1 DEF CheckpointDelta
    <3> HIDE DEF o
    <3>3. d.rows[k].ts = d.tStart
      BY <3>2 DEF RowOf
    <3> QED BY <1>1, <3>3
  <2> QED BY <2>2, <2>3
<1> QED BY <1>1, <1>2 DEF TimesBound

(* The summary compares the starts of neighbours, which orders all of them. *)
LEMMA AppendKeepsTimes ==
  ASSUME NEW ch \in Seq(Deltas), TimesOrdered(ch), NEW d \in Deltas, TimesBound(d),
         SummaryValid(Append(ch, d))
  PROVE  TimesOrdered(Append(ch, d))
<1> DEFINE ext == Append(ch, d)
           n == Len(ch)
<1>1. /\ n \in Nat /\ DOMAIN ch = 1..n /\ DOMAIN ext = 1..(n + 1)
      /\ \A i \in 1..n : ext[i] = ch[i]
      /\ ext[n + 1] = d
      /\ SummaryValid(ext)
  OBVIOUS
<1> HIDE DEF ext, n
<1>2. \A i \in 1..(n + 1) : TimesBound(ext[i])
  BY <1>1 DEF TimesOrdered
<1>3. n > 0 => ch[n].tStart <= d.tStart
  <2> SUFFICES ASSUME n > 0 PROVE ch[n].tStart <= d.tStart
    OBVIOUS
  <2>1. n + 1 \in DOMAIN ext /\ n + 1 > 1 /\ (n + 1) - 1 = n /\ n \in 1..n
    BY <1>1
  <2>2. ext[(n + 1) - 1].tStart <= ext[n + 1].tStart
    BY <1>1, <2>1 DEF SummaryValid
  <2> QED BY <1>1, <2>1, <2>2
<1>4. ASSUME NEW i \in 1..(n + 1), NEW j \in 1..(n + 1), i < j
      PROVE  ext[i].tStart <= ext[j].tStart
  <2>1. i \in 1..n /\ (j \in 1..n \/ j = n + 1)
    BY <1>1, <1>4
  <2>2. CASE j \in 1..n
    BY <1>1, <1>4, <2>1, <2>2 DEF TimesOrdered
  <2>3. CASE j = n + 1
    <3>1. n \in 1..n /\ (i = n \/ i < n) /\ n > 0
      BY <1>1, <2>1
    <3>2. i < n => ch[i].tStart <= ch[n].tStart
      BY <1>1, <2>1, <3>1 DEF TimesOrdered
    <3>3. ch[i].tStart \in Nat /\ ch[n].tStart \in Nat /\ d.tStart \in Nat
      BY <1>1, <2>1, <3>1 DEF TimesOrdered, TimesBound
    <3> QED BY <1>1, <1>3, <2>1, <2>3, <3>1, <3>2, <3>3
  <2> QED BY <2>1, <2>2, <2>3
<1> QED BY <1>1, <1>2, <1>4 DEF TimesOrdered, ext

(* Pruning by commit time selects a prefix and loses no record that the cut *)
(* sees.                                                                    *)
LEMMA TimePruningKeepsRecords ==
  ASSUME NEW ch \in Seq(Deltas), TimesOrdered(ch), NEW t \in Nat,
         \A i \in DOMAIN ch : RefsWithin(ch[i].rows),
         NEW b, \A k \in DOMAIN b : b[k].prev = 0
  PROVE  /\ DensePrefix(Selected(ch, AtTime(t)))
         /\ ReadAt(b, ch, AtTime(t)) = Everything(b, ch, AtTime(t))
<1> DEFINE sel == Selected(ch, AtTime(t))
<1>0. DOMAIN ch = 1..Len(ch) /\ Len(ch) \in Nat
  OBVIOUS
<1>1. sel = {i \in DOMAIN ch : ~(t < ch[i].tStart)}
  BY DEF Selected, Skipped, AtTime
<1> HIDE DEF sel
<1>2. DensePrefix(sel)
  <2> SUFFICES ASSUME NEW i \in sel, NEW j \in 1..i PROVE j \in sel
    BY DEF DensePrefix
  <2>1. i \in DOMAIN ch /\ j \in DOMAIN ch /\ (j = i \/ j < i)
    BY <1>0, <1>1
  <2>2. ch[i].tStart \in Nat /\ ch[j].tStart \in Nat
    BY <2>1 DEF TimesOrdered, TimesBound
  <2>3. ch[j].tStart <= ch[i].tStart
    BY <2>1, <2>2 DEF TimesOrdered
  <2> QED BY <1>1, <2>1, <2>2, <2>3
<1>3. ASSUME NEW x \in Placed(b, ch, DOMAIN ch), Visible(x.rec, AtTime(t))
      PROVE  x \in Placed(b, ch, sel)
  <2>1. CASE \E k \in DOMAIN b : x = [rec |-> b[k], ord |-> 0, row |-> k]
    BY <2>1 DEF Placed
  <2>2. CASE \E i \in DOMAIN ch : \E k \in DOMAIN ch[i].rows :
               x = [rec |-> ch[i].rows[k], ord |-> i, row |-> k]
    <3>1. PICK i \in DOMAIN ch : \E k \in DOMAIN ch[i].rows :
               x = [rec |-> ch[i].rows[k], ord |-> i, row |-> k]
      BY <2>2
    <3>2. PICK k \in DOMAIN ch[i].rows : x = [rec |-> ch[i].rows[k], ord |-> i, row |-> k]
      BY <3>1
    <3>3. ch[i].rows[k].ts <= t
      BY <1>3, <3>2 DEF Visible, AtTime
    <3>4. ch[i].tStart \in Nat /\ ch[i].rows[k].ts \in Nat /\ ch[i].tStart <= ch[i].rows[k].ts
      BY DEF TimesOrdered, TimesBound
    <3>5. i \in sel
      BY <1>1, <3>3, <3>4
    <3> QED BY <3>2, <3>5 DEF Placed
  <2> QED BY <1>3, <2>1, <2>2 DEF Placed
<1>4. \A x \in Placed(b, ch, sel) : x \in Placed(b, ch, DOMAIN ch)
  BY <1>1 DEF Placed
<1>5. {x \in Placed(b, ch, sel) : Visible(x.rec, AtTime(t))}
        = {x \in Placed(b, ch, DOMAIN ch) : Visible(x.rec, AtTime(t))}
  BY <1>3, <1>4
<1>6. PrevRefsValid(Placed(b, ch, DOMAIN ch)) /\ PrevRefsValid(Placed(b, ch, sel))
  BY <1>1, PlacedRefs
<1> QED BY <1>2, <1>5, <1>6, SameSeen DEF ReadAt, Everything, sel

(* Without deltas of other tools every step keeps it.                       *)
LEMMA NextCommitInv ==
  ASSUME Writers \cap OtherTools = {}
  PROVE  CommitInv /\ [Next]_vars => CommitInv'
<1> SUFFICES ASSUME CommitInv, [Next]_vars PROVE CommitInv'
  OBVIOUS
<1>0. TInv /\ TInv' /\ IInv /\ IInv'
  BY NextTInv, NextIInv DEF CommitInv
<1>1. PICK S : slot \in [Writers -> S]
  BY <1>0 DEF TInv
<1> DEFINE Own(a) == a # NoArtifact => a.by \in {"map", "checkpoint"}
<1>2. \A w \in Writers : Own(slot[w])
  BY DEF CommitInv
<1>3. ASSUME NEW w \in Writers, NEW a, Own(a), slot' = [slot EXCEPT ![w] = a]
      PROVE  \A v \in Writers : Own(slot'[v])
  BY <1>1, <1>2, <1>3
<1>4. ASSUME NEW d, NEW by PROVE Artifact(d, by).by = by
  BY DEF Artifact
<1>5. ASSUME TimesOrdered(chain'), \A v \in Writers : Own(slot'[v]) PROVE CommitInv'
  BY <1>0, <1>5 DEF CommitInv, TimesOrdered, TimesBound
<1>6. TimesOrdered(chain)
  BY DEF CommitInv
<1>7. ASSUME chain' = chain PROVE TimesOrdered(chain')
  BY <1>6, <1>7
<1> HIDE DEF Own
<1>8. CASE Compact
  <2>1. chain' = <<>> /\ slot' = slot
    BY <1>8 DEF Compact
  <2>2. TimesOrdered(<<>>)
    BY DEF TimesOrdered
  <2> QED BY <1>2, <1>5, <2>1, <2>2
<1>9. ASSUME NEW w \in Writers, BuildFirst(w) \/ BuildDelta(w) PROVE CommitInv'
  <2>1. chain' = chain /\ \E csn, ts : BuildSemantic(w, csn, ts, LatestStates)
    BY <1>9 DEF BuildFirst, BuildDelta
  <2>2. \E d : slot' = [slot EXCEPT ![w] = Artifact(d, "map")]
    BY <2>1 DEF BuildSemantic
  <2>3. \A d : Own(Artifact(d, "map"))
    BY <1>4 DEF Own
  <2> QED BY <1>3, <1>5, <1>7, <2>1, <2>2, <2>3
<1>10. ASSUME NEW w \in Writers, BuildCheckpoint(w) PROVE CommitInv'
  <2>1. chain' = chain /\ \E d : slot' = [slot EXCEPT ![w] = Artifact(d, "checkpoint")]
    BY <1>10 DEF BuildCheckpoint
  <2>3. \A d : Own(Artifact(d, "checkpoint"))
    BY <1>4 DEF Own
  <2> QED BY <1>3, <1>5, <1>7, <2>1, <2>3
<1>11. ASSUME NEW w \in Writers, Extend(w) PROVE CommitInv'
  <2>1. slot[w] # NoArtifact /\ slot' = [slot EXCEPT ![w] = NoArtifact]
    BY <1>11 DEF Extend
  <2>2. Own(NoArtifact)
    BY DEF Own
  <2>3. CASE chain' = chain
    BY <1>3, <1>5, <1>7, <2>1, <2>2, <2>3
  <2>4. CASE SummaryValid(Append(chain, slot[w].delta)) /\ chain' = Append(chain, slot[w].delta)
    <3>1. Built(slot[w]) /\ slot[w].by \in {"map", "checkpoint"} /\ chain \in Seq(Deltas)
      BY <1>0, <1>2, <2>1 DEF TInv, Own
    <3>2. slot[w].delta \in Deltas /\ TimesBound(slot[w].delta)
      BY <3>1, OwnDeltasBound DEF Built
    <3>3. TimesOrdered(chain')
      BY <1>6, <2>4, <3>1, <3>2, AppendKeepsTimes
    <3> QED BY <1>3, <1>5, <2>1, <2>2, <3>3
  <2> QED BY <1>11, <2>3, <2>4 DEF Extend
<1>12. CASE UNCHANGED vars
  BY <1>2, <1>5, <1>7, <1>12 DEF vars
<1>13. ~(\E w \in Writers \cap OtherTools : BuildForeign(w))
  OBVIOUS
<1> QED BY <1>8, <1>9, <1>10, <1>11, <1>12, <1>13 DEF Next

(* Where cove map and the checkpoint tool build all deltas, reads as of a   *)
(* commit time are exact whatever their plan skips, though the times of     *)
(* deltas may overlap and clocks may go back.                               *)
THEOREM CommitPruning ==
  ASSUME Writers \cap OtherTools = {}
  PROVE  Spec => []CommitPruningSound
<1>1. Init => CommitInv
  <2> SUFFICES ASSUME Init PROVE CommitInv
    OBVIOUS
  <2>1. TInv /\ IInv
    BY InitTInv, InitIInv
  <2> QED BY <2>1 DEF Init, CommitInv, TimesOrdered
<1>2. CommitInv /\ [Next]_vars => CommitInv'
  BY NextCommitInv
<1>3. CommitInv => CommitPruningSound
  <2> SUFFICES ASSUME CommitInv, NEW t \in 0..MaxTime
               PROVE  /\ DensePrefix(Selected(chain, AtTime(t)))
                      /\ ReadAt(base, chain, AtTime(t)) = Everything(base, chain, AtTime(t))
    BY DEF CommitPruningSound
  <2>1. t \in Nat /\ chain \in Seq(Deltas) /\ TimesOrdered(chain)
    BY ChainAssumption DEF ChainAssumption, CommitInv, TInv
  <2>2. /\ \A i \in DOMAIN chain : RefsWithin(chain[i].rows)
        /\ \A k \in DOMAIN base : base[k].prev = 0
    BY DEF CommitInv, IInv, AppendOnly, HeaderBounds
  <2> QED BY <2>1, <2>2, TimePruningKeepsRecords
<1> QED BY <1>1, <1>2, <1>3, PTL DEF Spec
=============================================================================
