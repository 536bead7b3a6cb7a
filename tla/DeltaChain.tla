----------------------------- MODULE DeltaChain -----------------------------
(***************************************************************************)
(* A COVE-O dataset: an immutable base snapshot, the ordered chain of delta *)
(* artifacts a manifest selects, and its readers.  Deltas are built by      *)
(* `cove map` (build.rs), by `cove delta checkpoint` or by other tools,     *)
(* appended by `cove delta chain-extend`, and folded into a new base by     *)
(* `cove delta compact`.  Readers prune the chain by the manifest's summary *)
(* and reconstruct object states from the records that are left.            *)
(*                                                                         *)
(* All objects are of one type and one branch.  A property that is absent   *)
(* from a state and one that is null are the same to every reader here.     *)
(***************************************************************************)
EXTENDS Integers, Sequences, FiniteSets, Folds

CONSTANTS
  Objects,       \* object identities (type, branch, GOID)
  Props,         \* the properties of their type
  ColumnSets,    \* the column sets a delta's segment may have
  Writers,       \* processes that build and append deltas
  OtherTools,    \* the writers whose deltas other tools build
  NoState,       \* an object without records
  NoArtifact,    \* a writer without a built delta
  RefInvalid,    \* the error of a read whose record references do not hold
  MaxCsn,        \* bound: commit sequence numbers
  MaxTime,       \* bound: commit times; clock readings
  MaxRows,       \* bound: rows of a delta built from sources
  MaxDeltas,     \* bound: length of the chain
  MaxCompactions, \* bound: compactions
  FirstStarts,   \* the CSN and time a caller may give for the first delta
  ForeignKinds   \* the record kinds of deltas that other tools build

ASSUME ChainAssumption ==
  /\ IsFiniteSet(Objects)
  /\ ColumnSets \subseteq SUBSET Props
  /\ {MaxCsn, MaxTime} \subseteq Nat \ {0} /\ MaxRows \in Nat /\ MaxDeltas \in Nat
  /\ MaxCompactions \in Nat
  /\ FirstStarts \subseteq (1..MaxCsn) \X (1..MaxTime)
  /\ ForeignKinds \subseteq {"Baseline", "Delta", "Snapshot", "Tombstone"}

Csns == 1..MaxCsn
Times == 1..MaxTime
Null == 0

(* RecordKind; a row holds a value for every column of its segment.  Values *)
(* are told apart by the CSN of the row that first wrote them.  prev_ref    *)
(* names an earlier row of the same segment, 0 none.                        *)
Kinds == {"Baseline", "Delta", "Snapshot", "Tombstone"}
Records == [obj : Objects, kind : Kinds, csn : Csns, ts : Times,
            vals : UNION {[cols -> {Null} \cup Csns] : cols \in SUBSET Props},
            prev : Nat]
States == [kind : Kinds, csn : Csns, ts : Times, live : BOOLEAN,
           props : [Props -> {Null} \cup Csns]]
Deltas == [csnMin : Csns, csnMax : Csns, tStart : Times, tEnd : Times, rows : Seq(Records)]

ASSUME NoStateAssumption == NoState \notin States

ASSUME RefInvalidAssumption == RefInvalid \notin [Objects -> States \cup {NoState}]

VARIABLES
  base,     \* the rows of the base snapshot
  chain,    \* the deltas that the manifest selects, in chain order
  created,  \* created_at_us of the manifest's chain extension
  slot,     \* slot[w] : the delta w has built, and what it extends
  compactions  \* compactions so far

vars == <<base, chain, created, slot, compactions>>

MaxOf(S) == CHOOSE x \in S : \A y \in S : y <= x

-----------------------------------------------------------------------------
(* Readback: reconstruct_object_states.                                     *)

(* Records with their place: the base is ordinal 0, and every delta's       *)
(* segments get higher ids than all before it.                              *)
Placed(b, ch, ordinals) ==
  {[rec |-> b[k], ord |-> 0, row |-> k] : k \in DOMAIN b}
  \cup UNION {{[rec |-> ch[i].rows[k], ord |-> i, row |-> k] : k \in DOMAIN ch[i].rows}
              : i \in ordinals}

BeforeByCsn(x, y) ==    \* mutant: commit sequence number first, no time
  \/ x.rec.csn < y.rec.csn
  \/ x.rec.csn = y.rec.csn /\ x.ord > y.ord

(* record_sort_key: time, CSN, segment, row.                                *)
Before(x, y) ==
  \/ x.rec.ts < y.rec.ts
  \/ x.rec.ts = y.rec.ts /\ x.rec.csn < y.rec.csn
  \/ x.rec.ts = y.rec.ts /\ x.rec.csn = y.rec.csn /\ x.ord < y.ord
  \/ x.rec.ts = y.rec.ts /\ x.rec.csn = y.rec.csn /\ x.ord = y.ord /\ x.row < y.row

Latest == [by |-> "latest"]
AtCsn(n) == [by |-> "csn", csn |-> n]
AtTime(t) == [by |-> "time", ts |-> t]

(* record_visible_at_cut                                                    *)
Visible(r, cut) == CASE cut.by = "latest" -> TRUE
                     [] cut.by = "csn" -> r.csn <= cut.csn
                     [] cut.by = "time" -> r.ts <= cut.ts

(* state_from_full_record                                                   *)
FullState(r) ==
  [kind |-> r.kind, csn |-> r.csn, ts |-> r.ts, live |-> r.kind # "Tombstone",
   props |-> [p \in Props |-> IF p \in DOMAIN r.vals THEN r.vals[p] ELSE Null]]

ApplyFresh(r, s) ==    \* mutant: a delta row replaces the whole state
  CASE r.kind = "Tombstone" /\ s # NoState ->
         [s EXCEPT !.kind = r.kind, !.csn = r.csn, !.ts = r.ts, !.live = FALSE]
    [] OTHER -> FullState(r)

(* One record applied to the state so far (apply_delta_record for a delta   *)
(* row: its columns overwrite, the other properties stay).                  *)
Apply(r, s) ==
  CASE r.kind \in {"Baseline", "Snapshot"} \/ s = NoState -> FullState(r)
    [] r.kind = "Delta" /\ s # NoState ->
         [kind |-> r.kind, csn |-> r.csn, ts |-> r.ts, live |-> TRUE,
          props |-> [p \in Props |-> IF p \in DOMAIN r.vals THEN r.vals[p]
                                     ELSE s.props[p]]]
    [] r.kind = "Tombstone" /\ s # NoState ->
         [s EXCEPT !.kind = r.kind, !.csn = r.csn, !.ts = r.ts, !.live = FALSE]

(* The records of an object are applied in sort order; tombstoned states    *)
(* are left out of the result.                                              *)
LastOf(S) == CHOOSE x \in S : \A y \in S \ {x} : Before(y, x)

Folded(S) ==
  MapThenFoldSet(LAMBDA x, s : Apply(x.rec, s), NoState, LAMBDA x : x, LastOf, S)

Refers(x, y) == y.ord = x.ord /\ y.row = x.rec.prev

(* validate_prev_refs: a reference names an earlier record of its object.   *)
PrevRefsValid(placed) ==
  \A x \in placed : x.rec.prev # 0 =>
    \E y \in placed : Refers(x, y) /\ y.rec.obj = x.rec.obj /\ Before(y, x)

(* validate_record_chain_step: when its turn comes, a record that refers to *)
(* another finds the state that this other record left.                     *)
StepsChained(S) ==
  \A x \in S : x.rec.prev # 0 =>
    \E y \in S : /\ Refers(x, y) /\ Before(y, x)
                 /\ \A z \in S : z.rec.obj = x.rec.obj => ~(Before(y, z) /\ Before(z, x))

(* The references of all records are checked, those the cut does not see    *)
(* too; one that fails, or one step that does, fails the read of all        *)
(* objects.                                                                 *)
Reconstruct(placed, cut) ==
  LET seen == {x \in placed : Visible(x.rec, cut)}
      state == [o \in Objects |-> Folded({x \in seen : x.rec.obj = o})]
  IN IF PrevRefsValid(placed) /\ StepsChained(seen)
     THEN [o \in Objects |-> IF state[o] = NoState \/ ~state[o].live
                             THEN NoState ELSE state[o]]
     ELSE RefInvalid

(* What a query sees of the states: the property values of live objects.    *)
Values(states) ==
  IF states = RefInvalid THEN RefInvalid
  ELSE [o \in Objects |-> IF states[o] = NoState THEN NoState ELSE states[o].props]

Everything(b, ch, cut) == Reconstruct(Placed(b, ch, DOMAIN ch), cut)

LatestStates == Everything(base, chain, Latest)
Live(states) == {o \in Objects : states[o] # NoState}

-----------------------------------------------------------------------------
(* Planning: prune_delta_chain on the summary's entries, which repeat the   *)
(* ranges of the delta headers.                                             *)

SkippedAtMax(d, cut) ==    \* mutant: the end of the range instead of its start
  \/ cut.by = "csn" /\ cut.csn < d.csnMax
  \/ cut.by = "time" /\ cut.ts < d.tEnd

Skipped(d, cut) == \/ cut.by = "csn" /\ cut.csn < d.csnMin
                   \/ cut.by = "time" /\ cut.ts < d.tStart

Selected(ch, cut) == {i \in DOMAIN ch : ~Skipped(ch[i], cut)}

(* selected_prefix_len: anything but a dense prefix is refused.             *)
DensePrefix(ordinals) == \A i \in ordinals : \A j \in 1..i : j \in ordinals

ReadAt(b, ch, cut) == Reconstruct(Placed(b, ch, Selected(ch, cut)), cut)

-----------------------------------------------------------------------------
(* Appending: validate_publish_chain and the chain summary.                 *)

SummaryOverlaps(ch) ==    \* mutant: CSN ranges need not be append-only
  \A i \in DOMAIN ch :
    /\ ch[i].csnMin <= ch[i].csnMax /\ ch[i].tStart <= ch[i].tEnd
    /\ i > 1 => ch[i - 1].tStart <= ch[i].tStart /\ ch[i - 1].tEnd <= ch[i].tEnd

(* validate_structure of the summary, which build_summary serializes.       *)
SummaryValid(ch) ==
  \A i \in DOMAIN ch :
    /\ ch[i].csnMin <= ch[i].csnMax /\ ch[i].tStart <= ch[i].tEnd
    /\ i > 1 => /\ ch[i - 1].csnMax < ch[i].csnMin
                /\ ch[i - 1].tStart <= ch[i].tStart
                /\ ch[i - 1].tEnd <= ch[i].tEnd

(* extension.csn_max                                                        *)
CsnMax(ch) == MaxOf({0} \cup {ch[i].csnMax : i \in DOMAIN ch})

(* A built delta names its parent by id, length, checksum and digest.       *)
Artifact(d, by) == [delta |-> d, onto |-> <<base, chain>>, by |-> by]

ExtendAnyParent(w) ==    \* mutant: the lineage parent is not compared
  LET ch == Append(chain, slot[w].delta) IN
  /\ slot[w] # NoArtifact
  /\ Len(chain) < MaxDeltas
  /\ slot' = [slot EXCEPT ![w] = NoArtifact]
  /\ IF SummaryValid(ch) THEN chain' = ch /\ created' \in Times
                         ELSE UNCHANGED <<chain, created>>
  /\ UNCHANGED <<base, compactions>>

(* chain-extend: the lineage parent must be the end of the chain it loads;  *)
(* the new manifest gets the time of its publication, whatever the clock    *)
(* then says.                                                               *)
Extend(w) ==
  LET a == slot[w]
      ch == Append(chain, a.delta)
  IN
  /\ a # NoArtifact
  /\ Len(chain) < MaxDeltas
  /\ slot' = [slot EXCEPT ![w] = NoArtifact]
  /\ \/ /\ a.onto = <<base, chain>> /\ SummaryValid(ch)
        /\ chain' = ch
        /\ created' \in Times
     \/ /\ a.onto # <<base, chain>> \/ ~SummaryValid(ch)
        /\ UNCHANGED <<chain, created>>
  /\ UNCHANGED <<base, compactions>>

-----------------------------------------------------------------------------
(* Building deltas.                                                         *)

RefersToAny(plan, k, parents) ==    \* mutant: the row before, of whatever object
  IF parents[plan[k].obj] # NoState \/ plan[k].dead THEN k - 1 ELSE 0

(* temporal_prev_refs: delta and tombstone rows refer to the row before     *)
(* them that has the same object, baselines do not.                         *)
PrevRef(plan, k, parents) ==
  IF parents[plan[k].obj] # NoState \/ plan[k].dead
  THEN MaxOf({0} \cup {j \in 1..(k - 1) : plan[j].obj = plan[k].obj}) ELSE 0

StampedLate(plan, cols, csn, ts, parents) ==    \* mutant: CSNs are one too high
  [k \in DOMAIN plan |->
     [obj |-> plan[k].obj, csn |-> csn + k, ts |-> ts + k - 1,
      kind |-> IF plan[k].dead THEN "Tombstone"
               ELSE IF parents[plan[k].obj] # NoState THEN "Delta" ELSE "Baseline",
      vals |-> [p \in cols |-> IF plan[k].dead THEN Null ELSE csn + k - 1],
      prev |-> PrevRef(plan, k, parents)]]

(* Rows stamped one after the other (remap_delta_temporal_payload), as      *)
(* changes of the objects in `plan`: a tombstone, or a delta row where the  *)
(* parent state is live and a baseline where it is not                      *)
(* (assign_semantic_delta_record_kinds).                                    *)
StampedRows(plan, cols, csn, ts, parents) ==
  [k \in DOMAIN plan |->
     [obj |-> plan[k].obj, csn |-> csn + k - 1, ts |-> ts + k - 1,
      kind |-> IF plan[k].dead THEN "Tombstone"
               ELSE IF parents[plan[k].obj] # NoState THEN "Delta" ELSE "Baseline",
      vals |-> [p \in cols |-> IF plan[k].dead THEN Null ELSE csn + k - 1],
      prev |-> PrevRef(plan, k, parents)]]

AnchorsUnchecked(rows, parents) ==    \* mutant: no temporal position check
  \A k \in DOMAIN rows :
    rows[k].kind \in {"Delta", "Tombstone"} => parents[rows[k].obj] # NoState

(* semantic_delta_continuation_anchors: a delta or tombstone row has a live *)
(* parent state and comes after it.                                         *)
Anchored(rows, parents) ==
  \A k \in DOMAIN rows : rows[k].kind \in {"Delta", "Tombstone"} =>
    LET parent == parents[rows[k].obj] IN
    /\ parent # NoState
    /\ parent.csn < rows[k].csn
    /\ parent.ts <= rows[k].ts

Plans == UNION {[1..n -> [obj : Objects, dead : BOOLEAN]] : n \in 1..MaxRows}

(* The build reads the states it extends, and fails where the read does.    *)
BuildSemantic(w, csn, ts, parents) ==
  /\ parents # RefInvalid
  /\ \E plan \in Plans, cols \in ColumnSets :
       LET rows == StampedRows(plan, cols, csn, ts, parents)
           end == Len(plan) - 1
       IN
       /\ csn + end <= MaxCsn /\ ts + end <= MaxTime
       /\ Anchored(rows, parents)
       /\ slot' = [slot EXCEPT ![w] = Artifact(
            [csnMin |-> csn, csnMax |-> csn + end, tStart |-> ts, tEnd |-> ts + end,
             rows |-> rows], "map")]

(* cove map semantic-delta build on a manifest: CSNs go on after the        *)
(* chain's; the clock, which may have gone back, is kept above created.     *)
BuildDelta(w) ==
  /\ slot[w] = NoArtifact
  /\ chain # <<>>
  /\ LET parents == LatestStates IN
     \E now \in Times :
       BuildSemantic(w, CsnMax(chain) + 1, MaxOf({now, created + 1}), parents)
  /\ UNCHANGED <<base, chain, created, compactions>>

(* The first delta of a base: the caller of the build gives the starts.     *)
BuildFirst(w) ==
  /\ slot[w] = NoArtifact
  /\ chain = <<>>
  /\ LET parents == LatestStates IN
     \E start \in FirstStarts : BuildSemantic(w, start[1], start[2], parents)
  /\ UNCHANGED <<base, chain, created, compactions>>

(* A delta of another tool, here of one row without a reference:            *)
(* validate_object_delta holds the row's CSN against the range in the       *)
(* header, and not its time.                                                *)
BuildForeign(w) ==
  /\ slot[w] = NoArtifact
  /\ \E o \in Objects, kind \in ForeignKinds, cols \in ColumnSets,
        csn, lo, hi \in Csns, ts, t \in Times :
       /\ lo <= csn /\ csn <= hi
       /\ slot' = [slot EXCEPT ![w] = Artifact(
            [csnMin |-> lo, csnMax |-> hi, tStart |-> t, tEnd |-> t,
             rows |-> <<[obj |-> o, kind |-> kind, csn |-> csn, ts |-> ts,
                         vals |-> [p \in cols |-> csn], prev |-> 0]>>], "foreign")]
  /\ UNCHANGED <<base, chain, created, compactions>>

(* The live states as rows of one segment, in temporal order.               *)
RowsInOrder(rows) ==
  \A i, j \in DOMAIN rows : i < j =>
    \/ rows[i].ts < rows[j].ts
    \/ rows[i].ts = rows[j].ts /\ rows[i].csn <= rows[j].csn

RowOfTouched(o, s, kind, csn, ts) ==    \* mutant: only what the last record wrote
  [obj |-> o, kind |-> kind, csn |-> csn, ts |-> ts,
   vals |-> [p \in {q \in Props : s.props[q] = s.csn} |-> s.props[p]], prev |-> 0]

RowOf(o, s, kind, csn, ts) ==
  [obj |-> o, kind |-> kind, csn |-> csn, ts |-> ts, vals |-> s.props, prev |-> 0]

Orders(S) == {f \in [1..Cardinality(S) -> S] : \A o \in S : \E i \in DOMAIN f : f[i] = o}

(* build_checkpoint_delta: every live state, moved after all of the chain.  *)
CheckpointCsn(states) ==
  MaxOf({CsnMax(chain)} \cup {states[o].csn : o \in Live(states)}) + 1
CheckpointTime(states) ==
  MaxOf({created} \cup {states[o].ts : o \in Live(states)}) + 1

(* cove delta checkpoint: a delta of Snapshot records.                      *)
BuildCheckpoint(w) ==
  /\ slot[w] = NoArtifact
  /\ chain # <<>>
  /\ LET states == LatestStates
         csn == CheckpointCsn(states)
         ts == CheckpointTime(states)
     IN
     /\ states # RefInvalid
     /\ Live(states) # {}
     /\ csn \in Csns /\ ts \in Times
     /\ \E order \in Orders(Live(states)) :
          slot' = [slot EXCEPT ![w] = Artifact(
            [csnMin |-> csn, csnMax |-> csn, tStart |-> ts, tEnd |-> ts,
             rows |-> [i \in DOMAIN order |->
                         RowOf(order[i], states[order[i]], "Snapshot", csn, ts)]],
            "checkpoint")]
  /\ UNCHANGED <<base, chain, created, compactions>>

(* cove delta compact --publish-covm: the latest live states become a base  *)
(* of their own, kinds and positions kept; a segment whose CSNs do not      *)
(* follow its times is invalid, and nothing is written.                     *)
Compact ==
  /\ chain # <<>>
  /\ compactions < MaxCompactions
  /\ compactions' = compactions + 1
  /\ LET states == LatestStates IN
     /\ states # RefInvalid
     /\ \E order \in Orders(Live(states)) :
       LET rows == [i \in DOMAIN order |->
                      LET s == states[order[i]] IN RowOf(order[i], s, s.kind, s.csn, s.ts)]
       IN
       /\ RowsInOrder(rows)
       /\ \A i, j \in DOMAIN rows : i < j => rows[i].csn <= rows[j].csn
       /\ base' = rows
  /\ chain' = <<>>
  /\ created' = 0
  /\ UNCHANGED slot

-----------------------------------------------------------------------------
(* A base holds one baseline row for some of the objects.                   *)
Init ==
  /\ \E S \in SUBSET Objects : \E order \in Orders(S) :
       base = [i \in DOMAIN order |->
                 [obj |-> order[i], kind |-> "Baseline", csn |-> 1, ts |-> 1,
                  vals |-> [p \in Props |-> 1], prev |-> 0]]
  /\ chain = <<>>
  /\ created = 0
  /\ compactions = 0
  /\ slot = [w \in Writers |-> NoArtifact]

Next ==
  \/ Compact
  \/ \E w \in Writers \ OtherTools :
       BuildFirst(w) \/ BuildDelta(w) \/ BuildCheckpoint(w)
  \/ \E w \in Writers \cap OtherTools : BuildForeign(w)
  \/ \E w \in Writers : Extend(w)

Spec == Init /\ [][Next]_vars

-----------------------------------------------------------------------------
TypeOK ==
  /\ base \in Seq(Records)
  /\ chain \in Seq(Deltas)
  /\ created \in {0} \cup Times
  /\ compactions \in 0..MaxCompactions
  /\ \A w \in Writers : slot[w] # NoArtifact => slot[w].delta \in Deltas

(* An as-of-CSN read may skip what its plan skips: the selected deltas are  *)
(* a prefix of the chain, and reading them gives what the whole chain gives.*)
CsnPruningSound ==
  \A n \in 0..MaxCsn :
    /\ DensePrefix(Selected(chain, AtCsn(n)))
    /\ ReadAt(base, chain, AtCsn(n)) = Everything(base, chain, AtCsn(n))

(* The same for reads as of a commit time: "Pruning MUST be conservative"   *)
(* (spec/05-object/cove-o.md).                                              *)
CommitPruningSound ==
  \A t \in 0..MaxTime :
    /\ DensePrefix(Selected(chain, AtTime(t)))
    /\ ReadAt(base, chain, AtTime(t)) = Everything(base, chain, AtTime(t))

(* Readback follows chain order ("applies records in selected delta-chain   *)
(* order and COVE-O commit order", spec/05-object/cove-o.md): the latest    *)
(* state of an object comes from the last delta that has a row for it, when *)
(* the read succeeds.                                                       *)
ReadbackFollowsChain ==
  LatestStates # RefInvalid =>
  \A o \in Objects, i \in DOMAIN chain, k \in 1..MaxRows :
    /\ k \in DOMAIN chain[i].rows
    /\ chain[i].rows[k].obj = o
    /\ \A j \in i..Len(chain), l \in 1..MaxRows :
         (j > i \/ l > k) /\ l \in DOMAIN chain[j].rows => chain[j].rows[l].obj # o
    => IF chain[i].rows[k].kind = "Tombstone" THEN LatestStates[o] = NoState
       ELSE LatestStates[o] # NoState /\ LatestStates[o].csn = chain[i].rows[k].csn

(* History by CSN is immutable: appending a delta changes no as-of-CSN      *)
(* read below the chain's high-water mark.                                  *)
CsnSnapshotsStable ==
  [][chain' # <<>> =>
       \A n \in 0..CsnMax(chain) : ReadAt(base', chain', AtCsn(n)) = ReadAt(base, chain, AtCsn(n))]_vars

(* A step in which w appends a delta that `cove map` built.                 *)
AppendsMapped(w) == /\ slot[w] # NoArtifact /\ slot'[w] = NoArtifact
                    /\ slot[w].by = "map"
                    /\ chain' # chain /\ chain' # <<>>

RowsFor(d, o) == {k \in DOMAIN d.rows : d.rows[k].obj = o}

(* A chain that reads stops to read when a delta of `cove map` or a         *)
(* checkpoint is appended only if the delta creates again an object that    *)
(* was deleted, at a time before that of a row of the chain for the object  *)
(* which refers to another row.                                             *)
OnlyRecreationBreaksReads ==
  [][\A w \in Writers :
       /\ slot[w] # NoArtifact /\ slot'[w] = NoArtifact /\ slot[w].by \in {"map", "checkpoint"}
       /\ LatestStates # RefInvalid /\ LatestStates' = RefInvalid
       => \E k \in DOMAIN slot[w].delta.rows, i \in DOMAIN chain :
            \E l \in DOMAIN chain[i].rows :
              LET new == slot[w].delta.rows[k]
                  old == chain[i].rows[l]
              IN new.kind = "Baseline" /\ new.obj = old.obj
                 /\ new.ts < old.ts /\ old.prev # 0]_vars

(* A change that `cove map` built against a live object takes effect when   *)
(* its delta is appended, whatever the clocks of builder and publisher said,*)
(* as long as the chain can be read.                                        *)
UpdatesTakeEffect ==
  [][\A w \in Writers : AppendsMapped(w) /\ LatestStates' # RefInvalid =>
       \A o \in Live(LatestStates) :
         LET mine == RowsFor(slot[w].delta, o)
             r == slot[w].delta.rows[MaxOf(mine)]
             s == LatestStates'[o]
         IN mine # {} => IF r.kind = "Tombstone" THEN s = NoState
                         ELSE s # NoState /\ s.csn = r.csn]_vars

(* An update changes the properties whose columns its delta has, and no     *)
(* other property and no other object, as long as the chain can be read.    *)
UpdatesKeepTheRest ==
  [][\A w \in Writers : AppendsMapped(w) /\ LatestStates' # RefInvalid =>
       LET before == LatestStates
           after == LatestStates'
       IN \A o \in Objects :
            LET mine == RowsFor(slot[w].delta, o) IN
            /\ mine = {} => after[o] = before[o]
            /\ before[o] # NoState /\ after[o] # NoState =>
                 \A p \in Props :
                   (\A k \in mine : p \notin DOMAIN slot[w].delta.rows[k].vals)
                     => after[o].props[p] = before[o].props[p]]_vars

(* A delta is appended only to the states it was built from: its baseline   *)
(* rows are the objects that are not live, its other rows those that are,   *)
(* whoever appended in between.                                             *)
BuiltOnWhatItExtends ==
  [][\A w \in Writers : AppendsMapped(w) =>
       \A k \in DOMAIN slot[w].delta.rows :
         LET r == slot[w].delta.rows[k] IN
         (r.kind = "Baseline") <=> (LatestStates[r.obj] = NoState)]_vars

(* Appending a checkpoint changes no value a query can see.                 *)
CheckpointKeepsValues ==
  [][\A w \in Writers :
       /\ slot[w] # NoArtifact /\ slot'[w] = NoArtifact /\ slot[w].by = "checkpoint"
       => Values(LatestStates') = Values(LatestStates)]_vars

(* Compaction changes no value that a latest query can see, and the base it *)
(* writes reads back by itself.                                             *)
CompactionKeepsValues ==
  [][base' # base \/ (chain # <<>> /\ chain' = <<>>) =>
       Values(LatestStates') = Values(LatestStates)]_vars

(* "Compaction MUST preserve object state, history, branches, tombstones"   *)
(* (spec/05-object/cove-o.md): the same for reads as of every CSN.          *)
CompactionKeepsHistory ==
  [][chain # <<>> /\ chain' = <<>> =>
       \A n \in 0..CsnMax(chain) :
         Values(ReadAt(base', chain', AtCsn(n))) = Values(ReadAt(base, chain, AtCsn(n)))]_vars
=============================================================================
