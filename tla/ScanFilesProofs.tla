--------------------------- MODULE ScanFilesProofs ---------------------------
(***************************************************************************)
(* Proofs about ScanFiles, for any files, sidecars, queries and partitions, *)
(* and any number of replacements.                                          *)
(*                                                                         *)
(* A query has cached segment metadata only of the file its descriptor is   *)
(* open on (ReaderHoldsSegment), and reads pages only after that            *)
(* (SegmentFirst): this is why a replacement of the path cannot mix files.  *)
(***************************************************************************)
EXTENDS ScanFiles, TLAPS, FiniteSetTheorems, WellFoundedInduction

PathsHold == \A p \in Paths : visible[p] \in FilesAt(p) \cup {None}

ReaderHoldsSegment == \A q \in Queries : segment[q] # None => opened[q] = segment[q]

SegmentFirst == \A t \in Tasks : pc[t] = "segment" => segment[QueryOf[t]] # None

NothingAttachedYet == stage \in {"new", "sized"} => attached = {}

SidecarRead == stage \in {"cache_read", "covi_read"} => sidecar \in SidecarFiles

ScanInv == /\ ScanTypeOK
           /\ PathsHold
           /\ ReaderHoldsSegment
           /\ SegmentFirst
           /\ OneFilePerQuery
           /\ NothingAttachedYet
           /\ SidecarRead
           /\ SidecarIsForTable

(* What a path yields is a file meant for it.                               *)
LEMMA PathTypes ==
  ASSUME ScanInv
  PROVE  /\ visible[DataPath] \in DataFiles \cup {None}
         /\ \A k \in {"cache", "covi"} : visible[SidecarPath[k]] \in SidecarFiles \cup {None}
BY ScanAssumption DEF ScanInv, PathsHold, DataFiles, SidecarFiles

LEMMA ScanInitInv == ScanInit => ScanInv
<1> SUFFICES ASSUME ScanInit PROVE ScanInv
  OBVIOUS
<1>1. ScanTypeOK
  BY ProofAssumption DEF ScanInit, EmptyCache, ScanTypeOK, Stages
<1>2. PathsHold
  BY DEF ScanInit, PathsHold, FilesAt
<1>3. ReaderHoldsSegment /\ SegmentFirst /\ OneFilePerQuery /\ NothingAttachedYet /\ SidecarRead
      /\ SidecarIsForTable
  BY ScanAssumption DEF ScanInit, ReaderHoldsSegment, SegmentFirst, OneFilePerQuery,
     NothingAttachedYet, SidecarRead, SidecarIsForTable
<1> QED BY <1>1, <1>2, <1>3 DEF ScanInv

(* Registration leaves queries alone.                                       *)
LEMMA RegisterInv == ScanInv /\ Register => ScanInv'
<1> SUFFICES ASSUME ScanInv, Register PROVE ScanInv'
  OBVIOUS
<1> USE PathTypes
<1>1. UNCHANGED <<storeVars, proofVars, queryVars, since>> \/ UNCHANGED <<storeVars, proofVars, queryVars>>
  BY DEF Register, StatFile, Bootstrap, CheckCache, CheckCovi, ReadSidecar
<1>2. UNCHANGED <<visible, replaced, entries, next_epoch, pc, validated, opened, segment, pages>>
  BY <1>1 DEF storeVars, proofVars, queryVars
<1> DEFINE Typed == /\ stage' \in Stages /\ file_len' \in {0} \cup {Length[f] : f \in DataFiles}
                    /\ reg' \in DataFiles \cup {None} /\ sidecar' \in SidecarFiles \cup {None}
                    /\ since' \subseteq DataFiles /\ SidecarRead'
<1>3. Typed
  <2>1. CASE StatFile
    BY <2>1 DEF StatFile, ScanInv, ScanTypeOK, Stages, SidecarRead
  <2>2. CASE Bootstrap
    BY <2>2 DEF Bootstrap, ScanInv, ScanTypeOK, Stages, SidecarRead
  <2>3. CASE CheckCache
    BY <2>3 DEF CheckCache, ScanInv, ScanTypeOK, Stages, AfterSidecar, SidecarRead
  <2>4. CASE CheckCovi
    BY <2>4 DEF CheckCovi, ScanInv, ScanTypeOK, Stages, AfterSidecar, SidecarRead
  <2>5. ASSUME NEW k \in {"cache", "covi"}, ReadSidecar(k) PROVE Typed
    BY <2>5 DEF ReadSidecar, ScanInv, ScanTypeOK, Stages, AfterSidecar, SidecarRead
  <2> HIDE DEF Typed
  <2> QED BY <2>1, <2>2, <2>3, <2>4, <2>5 DEF Register
<1> DEFINE Attached == attached' \subseteq SidecarFiles /\ NothingAttachedYet' /\ SidecarIsForTable'
<1>4. Attached
  <2>1. CASE StatFile
    BY <2>1 DEF StatFile, ScanInv, ScanTypeOK, NothingAttachedYet, SidecarIsForTable
  <2>2. CASE Bootstrap
    BY <2>2 DEF Bootstrap, ScanInv, ScanTypeOK, NothingAttachedYet, SidecarIsForTable
  <2>3. ASSUME NEW f, attached' = attached \/ (Accepts(sidecar, f) /\ attached' = attached \cup {sidecar}),
               sidecar \in SidecarFiles, reg' = reg, stage' \notin {"new", "sized"}
        PROVE  Attached
    BY <2>3 DEF Accepts, ScanInv, ScanTypeOK, NothingAttachedYet, SidecarIsForTable
  <2> HIDE DEF Attached
  <2>4. CASE CheckCache
    BY <2>3, <2>4 DEF CheckCache, AfterSidecar, ScanInv, SidecarRead
  <2>5. CASE CheckCovi
    BY <2>3, <2>5 DEF CheckCovi, AfterSidecar, ScanInv, SidecarRead
  <2>6. ASSUME NEW k \in {"cache", "covi"}, ReadSidecar(k) PROVE Attached
    BY <2>6 DEF Attached, ReadSidecar, ScanInv, ScanTypeOK, AfterSidecar, NothingAttachedYet, SidecarIsForTable
  <2> QED BY <2>1, <2>2, <2>4, <2>5, <2>6 DEF Register
<1>5. ScanTypeOK'
  BY <1>2, <1>3, <1>4 DEF ScanInv, ScanTypeOK
<1>6. PathsHold' /\ ReaderHoldsSegment' /\ SegmentFirst' /\ OneFilePerQuery'
  BY <1>2 DEF ScanInv, PathsHold, ReaderHoldsSegment, SegmentFirst, OneFilePerQuery
<1> QED BY <1>3, <1>4, <1>5, <1>6 DEF ScanInv

(* The export of a page touches the proof cache and the task's own control  *)
(* point, which never returns to where pages are read.                      *)
CacheOK == /\ DOMAIN entries \subseteq Pages
           /\ \A p \in DOMAIN entries : entries[p] \in 1 .. next_epoch
           /\ next_epoch \in 0 .. MaxEpoch
           /\ validated \subseteq Pages \X Rows

LEMMA EvictKeeps ==
  ASSUME NEW f
  PROVE  /\ DOMAIN Evict(f) \subseteq DOMAIN f
         /\ \A p \in DOMAIN Evict(f) : Evict(f)[p] = f[p]
BY DEF Evict, Without

LEMMA ExportInv ==
  ASSUME CacheOK, NEW t \in Tasks, ExportStep(t)
  PROVE  /\ CacheOK'
         /\ \E label \in (Exporting \cup Finished) \ {"decoded"} : pc' = [pc EXCEPT ![t] = label]
<1> DEFINE Goes == \E label \in (Exporting \cup Finished) \ {"decoded"} : pc' = [pc EXCEPT ![t] = label]
<1> USE DEF Exporting, Finished
<1>0. PageOf[t] \in Pages /\ Selected[t] \subseteq Rows /\ MaxEpoch \in Nat
  BY ProofAssumption
<1>1. CASE ContainsMisses(t)
  BY <1>1 DEF ContainsMisses, Goto, CacheOK
<1>2. CASE ContainsHits(t)
  <2>1. next_epoch' \in 0 .. MaxEpoch /\ next_epoch' = next_epoch + 1
    BY <1>0, <1>2 DEF ContainsHits, ClockAtEnd, CacheOK
  <2>2. DOMAIN entries' = DOMAIN entries
        /\ \A p \in DOMAIN entries' : entries'[p] \in 1 .. next_epoch'
    BY <1>0, <1>2, <2>1 DEF ContainsHits, CacheOK
  <2> QED BY <1>2, <2>1, <2>2 DEF ContainsHits, Goto, CacheOK
<1>3. CASE ClockFails(t)
  BY <1>3 DEF ClockFails, Goto, CacheOK
<1>4. CASE ExportTrusted(t)
  BY <1>4 DEF ExportTrusted, Goto, CacheOK
<1>5. CASE ExportStrict(t)
  <2>1. validated' \subseteq Pages \X Rows
    BY <1>0, <1>5 DEF ExportStrict, CacheOK
  <2> QED BY <1>5, <2>1 DEF ExportStrict, Goto, CacheOK
<1>6. CASE Insert(t)
  <2>1. next_epoch' \in 0 .. MaxEpoch /\ next_epoch' = next_epoch + 1
    BY <1>0, <1>6 DEF Insert, ClockAtEnd, CacheOK
  <2> DEFINE f == Stamped(PageOf[t], next_epoch')
  <2>2. DOMAIN f \subseteq Pages /\ \A p \in DOMAIN f : f[p] \in 1 .. next_epoch'
    BY <1>0, <2>1 DEF Stamped, CacheOK
  <2>3. entries' = Evict(f)
    BY <1>6 DEF Insert
  <2> HIDE DEF f
  <2>4. DOMAIN entries' \subseteq Pages /\ \A p \in DOMAIN entries' : entries'[p] \in 1 .. next_epoch'
    BY <2>2, <2>3, EvictKeeps
  <2> QED BY <1>6, <2>1, <2>4 DEF Insert, Goto, CacheOK
<1> QED BY <1>1, <1>2, <1>3, <1>4, <1>5, <1>6 DEF ExportStep

LEMMA StepInv ==
  ASSUME ScanInv, NEW t \in Tasks, ScanStep(t)
  PROVE  ScanInv'
<1> DEFINE q == QueryOf[t]
<1>0. q \in Queries /\ CacheOK /\ visible[DataPath] \in DataFiles \cup {None}
      /\ pc \in [Tasks -> {"idle", "segment", "corrupt"} \cup Exporting \cup Finished]
      /\ opened \in [Queries -> DataFiles \cup {None}]
      /\ segment \in [Queries -> DataFiles \cup {None}]
      /\ pages \in [Tasks -> DataFiles \cup {None}]
  BY ScanAssumption, PathTypes DEF ScanInv, ScanTypeOK, CacheOK
<1>1. UNCHANGED <<storeVars, tableVars>>
  BY DEF ScanStep, ReadSegment, ReadPages
<1>2. UNCHANGED <<visible, replaced, stage, file_len, reg, sidecar, attached, since>>
  BY <1>1 DEF storeVars, tableVars
<1>3. PathsHold' /\ NothingAttachedYet' /\ SidecarRead' /\ SidecarIsForTable'
  BY <1>2 DEF ScanInv, PathsHold, NothingAttachedYet, SidecarRead, SidecarIsForTable
<1> DEFINE Typed == /\ opened' \in [Queries -> DataFiles \cup {None}]
                    /\ segment' \in [Queries -> DataFiles \cup {None}]
                    /\ pages' \in [Tasks -> DataFiles \cup {None}]
                    /\ pc' \in [Tasks -> {"idle", "segment", "corrupt"} \cup Exporting \cup Finished]
                    /\ CacheOK'
<1> DEFINE OneFile == ReaderHoldsSegment' /\ SegmentFirst' /\ OneFilePerQuery'
<1>4. ASSUME ReadSegment(t) PROVE Typed /\ OneFile
  <2> DEFINE f == SegmentFrom(q)
  <2>1. f \in DataFiles \cup {None} /\ (visible[DataPath] # None => f # None)
        /\ (segment[q] # None => f = segment[q])
    BY <1>0 DEF SegmentFrom, local_reader
  <2>2. UNCHANGED <<pages, entries, next_epoch, validated>>
    BY <1>4 DEF ReadSegment
  <2>3. opened' = [opened EXCEPT ![q] = IF segment[q] = None THEN f ELSE opened[q]]
    BY <1>4 DEF ReadSegment
  <2>4. \/ /\ visible[DataPath] # None /\ segment' = [segment EXCEPT ![q] = f]
           /\ pc' = [pc EXCEPT ![t] = "segment"]
        \/ segment' = segment /\ pc' = [pc EXCEPT ![t] = "corrupt"]
    BY <1>4 DEF ReadSegment, Goto
  <2> HIDE DEF f, q
  <2>5. CacheOK'
    BY <1>0, <2>2 DEF CacheOK
  <2>6. Typed
    BY <1>0, <2>1, <2>2, <2>3, <2>4, <2>5
  <2>7. ReaderHoldsSegment'
    BY <1>0, <2>1, <2>3, <2>4 DEF ScanInv, ReaderHoldsSegment
  <2>8. \A r \in Queries : segment[r] # None => segment'[r] = segment[r]
    BY <1>0, <2>1, <2>4
  <2>9. SegmentFirst'
    <3> SUFFICES ASSUME NEW u \in Tasks, pc'[u] = "segment" PROVE segment'[QueryOf[u]] # None
      BY DEF SegmentFirst
    <3>0. QueryOf[u] \in Queries
      BY ScanAssumption
    <3>1. CASE u = t
      BY <1>0, <2>1, <2>4, <3>1 DEF q
    <3>2. CASE u # t
      <4>1. pc[u] = "segment"
        BY <1>0, <2>4, <3>2
      <4>2. segment[QueryOf[u]] # None
        BY <4>1 DEF ScanInv, SegmentFirst
      <4> QED BY <2>8, <3>0, <4>2
    <3> QED BY <3>1, <3>2
  <2>10. OneFilePerQuery'
    <3> SUFFICES ASSUME NEW u \in Tasks, pages[u] # None PROVE pages[u] = segment'[QueryOf[u]]
      BY <2>2 DEF OneFilePerQuery
    <3>1. QueryOf[u] \in Queries /\ pages[u] = segment[QueryOf[u]]
      BY ScanAssumption DEF ScanInv, OneFilePerQuery
    <3> QED BY <2>8, <3>1
  <2> QED BY <2>6, <2>7, <2>9, <2>10
<1>5. ASSUME ReadPages(t) PROVE Typed /\ OneFile
  <2>1. segment[q] # None /\ opened[q] = segment[q] /\ local_reader(q) = segment[q]
    BY <1>0, <1>5 DEF ReadPages, ScanInv, SegmentFirst, ReaderHoldsSegment, local_reader
  <2>2. UNCHANGED <<segment, entries, next_epoch, validated>>
    BY <1>5 DEF ReadPages
  <2>3. /\ opened' = [opened EXCEPT ![q] = segment[q]]
        /\ pages' = [pages EXCEPT ![t] = segment[q]]
        /\ pc' = [pc EXCEPT ![t] = "decoded"]
    BY <1>5, <2>1 DEF ReadPages, Goto
  <2>4. CacheOK'
    BY <1>0, <2>2 DEF CacheOK
  <2>5. Typed
    BY <1>0, <2>2, <2>3, <2>4 DEF Exporting
  <2>6. ReaderHoldsSegment' /\ SegmentFirst'
    BY <1>0, <2>1, <2>2, <2>3 DEF ScanInv, ReaderHoldsSegment, SegmentFirst
  <2>7. OneFilePerQuery'
    BY <1>0, <2>2, <2>3 DEF ScanInv, OneFilePerQuery
  <2> QED BY <2>5, <2>6, <2>7
<1>6. ASSUME ExportStep(t), UNCHANGED <<storeVars, tableVars, queryVars>> PROVE Typed /\ OneFile
  <2>1. UNCHANGED <<opened, segment, pages>>
    BY <1>6 DEF queryVars
  <2>2. CacheOK'
    BY <1>0, <1>6, ExportInv
  <2>3. PICK label \in (Exporting \cup Finished) \ {"decoded"} : pc' = [pc EXCEPT ![t] = label]
    BY <1>0, <1>6, ExportInv
  <2>4. label # "segment"
    BY <2>3 DEF Exporting, Finished
  <2>5. Typed
    BY <1>0, <2>1, <2>2, <2>3
  <2> QED BY <1>0, <2>1, <2>3, <2>4, <2>5
       DEF ScanInv, ReaderHoldsSegment, SegmentFirst, OneFilePerQuery
<1>7. Typed /\ OneFile
  <2> HIDE DEF Typed, OneFile
  <2> QED BY <1>4, <1>5, <1>6 DEF ScanStep
<1>8. ScanTypeOK'
  BY <1>2, <1>7 DEF ScanInv, ScanTypeOK, CacheOK
<1> QED BY <1>3, <1>7, <1>8 DEF ScanInv

LEMMA ReplaceInv ==
  ASSUME ScanInv, NEW c \in Calls, Replace(c)
  PROVE  ScanInv'
<1>1. UNCHANGED <<entries, next_epoch, pc, validated, opened, segment, pages,
                  stage, file_len, reg, sidecar, attached>>
  BY DEF Replace, proofVars, queryVars
<1>2. visible' = [visible EXCEPT ![Target[c]] = c] /\ replaced' = replaced \cup {c}
  BY DEF Replace
<1>3. since' \subseteq DataFiles
  BY DEF Replace, ScanInv, ScanTypeOK, DataFiles, FilesAt
<1>4. ScanTypeOK'
  <2>1. visible' \in [Paths -> Calls \cup Paths \cup {None}]
    BY <1>2 DEF ScanInv, ScanTypeOK
  <2> QED BY <1>1, <1>2, <1>3, <2>1 DEF ScanInv, ScanTypeOK
<1>5. PathsHold'
  BY <1>2 DEF ScanInv, ScanTypeOK, PathsHold, FilesAt
<1>6. /\ ReaderHoldsSegment' /\ SegmentFirst' /\ OneFilePerQuery'
      /\ NothingAttachedYet' /\ SidecarRead' /\ SidecarIsForTable'
  BY <1>1 DEF ScanInv, ReaderHoldsSegment, SegmentFirst, OneFilePerQuery,
     NothingAttachedYet, SidecarRead, SidecarIsForTable
<1> QED BY <1>4, <1>5, <1>6 DEF ScanInv

LEMMA StutterInv == ScanInv /\ UNCHANGED scanVars => ScanInv'
BY DEF ScanInv, scanVars, storeVars, proofVars, tableVars, queryVars, ScanTypeOK, PathsHold,
   ReaderHoldsSegment, SegmentFirst, OneFilePerQuery, NothingAttachedYet, SidecarRead,
   SidecarIsForTable

LEMMA ScanInvariant == ScanSpec => []ScanInv
<1>1. ScanInv /\ [ScanNext]_scanVars => ScanInv'
  BY RegisterInv, StepInv, ReplaceInv, StutterInv DEF ScanNext
<1> QED BY <1>1, ScanInitInv, PTL DEF ScanSpec

(* Type correctness.                                                        *)
THEOREM ScanTypeCorrect == ScanSpec => []ScanTypeOK
<1>1. ScanInv => ScanTypeOK
  BY DEF ScanInv
<1> QED BY <1>1, ScanInvariant, PTL

(* No partition of a query pairs the segment metadata of one file with the  *)
(* pages of another, however often the path is replaced (range_reader.rs,   *)
(* decode/cache.rs).                                                        *)
THEOREM NoMixedFiles == ScanSpec => []OneFilePerQuery
<1>1. ScanInv => OneFilePerQuery
  BY DEF ScanInv
<1> QED BY <1>1, ScanInvariant, PTL

(* A sidecar that a table uses was built for the file whose metadata is     *)
(* registered (bootstrap/local.rs, bootstrap/covi.rs).                      *)
THEOREM SidecarsMatch == ScanSpec => []SidecarIsForTable
<1>1. ScanInv => SidecarIsForTable
  BY DEF ScanInv
<1> QED BY <1>1, ScanInvariant, PTL

-----------------------------------------------------------------------------
(* Whatever registration and queries hold was at the path since the         *)
(* registration began, so if one file has been there all the time it is the *)
(* file they all hold.                                                      *)
Lone == \E f : since = {f}

SinceFinite == IsFiniteSet(since)

SinceBegan == /\ stage = "new" => since = {}
              /\ stage \notin {"new", "failed"} => since # {}
              /\ since # {} => visible[DataPath] \in since /\ \E f \in since : f # None

TableFromSince == /\ stage = "sized" => \E f \in since : file_len = Length[f]
                  /\ stage \notin {"new", "sized", "failed"} => reg \in since

QueriesFromSince ==
  /\ \A q \in Queries : opened[q] # None => stage = "registered" /\ opened[q] \in since
  /\ \A t \in Tasks : pages[t] # None => stage = "registered" /\ pages[t] \in since
  /\ \A t \in Tasks : pc[t] # "idle" => stage = "registered"

FailureMeansReplaced ==
  Lone => stage # "failed" /\ \A t \in Tasks : pc[t] # "corrupt"

SinceInv == /\ SinceFinite
            /\ SinceBegan
            /\ TableFromSince
            /\ QueriesFromSince
            /\ FailureMeansReplaced

LEMMA SinceInit == ScanInit => SinceInv
<1> SUFFICES ASSUME ScanInit PROVE SinceInv
  OBVIOUS
<1>1. since = {} /\ stage = "new"
  BY DEF ScanInit
<1>2. SinceFinite /\ SinceBegan /\ TableFromSince
  BY <1>1, FS_EmptySet DEF SinceFinite, SinceBegan, TableFromSince
<1>3. QueriesFromSince
  BY DEF ScanInit, QueriesFromSince
<1>4. FailureMeansReplaced
  BY <1>1 DEF FailureMeansReplaced, Lone
<1> QED BY <1>2, <1>3, <1>4 DEF SinceInv

(* What holds while one file has been at the path all the time.             *)
LEMMA LoneFile ==
  ASSUME SinceInv, NEW f, since = {f}
  PROVE  /\ f # None /\ visible[DataPath] = f
         /\ stage = "sized" => file_len = Length[f]
         /\ stage \notin {"new", "sized", "failed"} => reg = f
BY DEF SinceInv, SinceBegan, TableFromSince

LEMMA RegisterSince == ScanInv /\ SinceInv /\ Register => SinceInv'
<1> SUFFICES ASSUME ScanInv, SinceInv, Register PROVE SinceInv'
  OBVIOUS
<1>1. UNCHANGED <<visible, pc, opened, pages>>
  BY DEF Register, StatFile, Bootstrap, CheckCache, CheckCovi, ReadSidecar,
     storeVars, proofVars, queryVars
<1>2. stage # "registered" /\ stage # "failed"
  BY DEF Register, StatFile, Bootstrap, CheckCache, CheckCovi, ReadSidecar
<1>3. QueriesFromSince'
  BY <1>1, <1>2 DEF SinceInv, QueriesFromSince
<1>4. CASE StatFile
  <2>1. CASE visible[DataPath] = None
    <3>1. since' = {} /\ stage' = "failed"
      BY <1>4, <2>1 DEF StatFile, SinceInv, SinceBegan
    <3> QED BY <1>3, <3>1, FS_EmptySet
         DEF SinceInv, SinceFinite, SinceBegan, TableFromSince, FailureMeansReplaced, Lone
  <2>2. CASE visible[DataPath] # None
    <3>1. since' = {visible[DataPath]} /\ stage' = "sized" /\ file_len' = Length[visible[DataPath]]
      BY <1>4, <2>2 DEF StatFile
    <3>2. \A t \in Tasks : pc[t] # "corrupt"
      BY <1>2 DEF SinceInv, QueriesFromSince
    <3> QED BY <1>1, <1>3, <2>2, <3>1, <3>2, FS_Singleton
         DEF SinceInv, SinceFinite, SinceBegan, TableFromSince, FailureMeansReplaced, Lone
  <2> QED BY <2>1, <2>2
<1>5. ASSUME since' = since, stage # "new", stage' # "new", stage' # "sized",
             stage' # "failed" => reg' \in since,
             Lone => stage' # "failed"
      PROVE  SinceInv'
  BY <1>1, <1>3, <1>5
     DEF SinceInv, SinceFinite, SinceBegan, TableFromSince, FailureMeansReplaced, Lone
<1>6. CASE Bootstrap
  <2>1. since' = since /\ stage = "sized" /\ stage' \in {"cache", "failed"}
        /\ (stage' = "cache" => reg' = visible[DataPath])
    BY <1>6 DEF Bootstrap
  <2>2. reg' = visible[DataPath] => reg' \in since
    BY <2>1 DEF SinceInv, SinceBegan
  <2>3. Lone => stage' # "failed"
    BY <1>6, LoneFile DEF Bootstrap, Lone
  <2> QED BY <1>5, <2>1, <2>2, <2>3
<1>7. CASE CheckCache
  <2>1. since' = since /\ reg' = reg /\ stage = "cache_read" /\ stage' \in {"covi", "failed"}
    BY <1>7 DEF CheckCache, AfterSidecar
  <2>2. reg \in since
    BY <2>1 DEF SinceInv, TableFromSince
  <2>3. Lone => stage' # "failed"
    BY <1>7, LoneFile DEF CheckCache, AfterSidecar, Lone
  <2> QED BY <1>5, <2>1, <2>2, <2>3
<1>8. CASE CheckCovi
  <2>1. since' = since /\ reg' = reg /\ stage = "covi_read" /\ stage' = "registered"
    BY <1>8 DEF CheckCovi, AfterSidecar
  <2> QED BY <1>5, <2>1 DEF SinceInv, TableFromSince
<1>9. ASSUME NEW k \in {"cache", "covi"}, ReadSidecar(k) PROVE SinceInv'
  <2>1. since' = since /\ reg' = reg /\ stage \in {"cache", "covi"}
        /\ stage' \in {"cache_read", "covi", "covi_read", "registered"}
    BY <1>9 DEF ReadSidecar, AfterSidecar
  <2> QED BY <1>5, <2>1 DEF SinceInv, TableFromSince
<1> QED BY <1>4, <1>6, <1>7, <1>8, <1>9 DEF Register

LEMMA StepSince ==
  ASSUME ScanInv, SinceInv, NEW t \in Tasks, ScanStep(t)
  PROVE  SinceInv'
<1> DEFINE q == QueryOf[t]
<1>0. q \in Queries /\ opened \in [Queries -> DataFiles \cup {None}]
      /\ pages \in [Tasks -> DataFiles \cup {None}]
      /\ pc \in [Tasks -> {"idle", "segment", "corrupt"} \cup Exporting \cup Finished]
  BY ScanAssumption DEF ScanInv, ScanTypeOK
<1>1. UNCHANGED <<visible, stage, file_len, reg, since>>
  BY DEF ScanStep, ReadSegment, ReadPages, storeVars, tableVars
<1>2. SinceFinite' /\ SinceBegan' /\ TableFromSince'
  BY <1>1 DEF SinceInv, SinceFinite, SinceBegan, TableFromSince
<1> DEFINE Held == QueriesFromSince' /\ FailureMeansReplaced'
<1>3. ASSUME ReadSegment(t) PROVE Held
  <2> DEFINE f == SegmentFrom(q)
  <2>1. stage = "registered" /\ visible[DataPath] \in since /\ reg \in since
    BY <1>3 DEF ReadSegment, SinceInv, SinceBegan, TableFromSince
  <2>2. f \in since
    <3>1. CASE segment[q] # None
      BY <1>0, <3>1 DEF SegmentFrom, ScanInv, ReaderHoldsSegment, SinceInv, QueriesFromSince
    <3>2. CASE segment[q] = None
      BY <1>0, <2>1, <3>2 DEF SegmentFrom, local_reader, SinceInv, QueriesFromSince
    <3> QED BY <3>1, <3>2
  <2>3. opened' = [opened EXCEPT ![q] = IF segment[q] = None THEN f ELSE opened[q]]
        /\ pages' = pages
    BY <1>3 DEF ReadSegment
  <2>4. \/ pc' = [pc EXCEPT ![t] = "segment"]
        \/ /\ pc' = [pc EXCEPT ![t] = "corrupt"]
           /\ visible[DataPath] = None \/ Layout[f] # Layout[reg]
    BY <1>3 DEF ReadSegment, Goto
  <2> HIDE DEF f, q
  <2>5. QueriesFromSince'
    BY <1>0, <1>1, <2>1, <2>2, <2>3, <2>4 DEF SinceInv, QueriesFromSince
  <2>6. ASSUME Lone PROVE pc' = [pc EXCEPT ![t] = "segment"]
    <3>1. PICK g : since = {g}
      BY <2>6 DEF Lone
    <3>2. f = g /\ reg = g /\ visible[DataPath] = g /\ g # None
      BY <2>1, <2>2, <3>1, LoneFile
    <3> QED BY <2>4, <3>2
  <2>7. FailureMeansReplaced'
    BY <1>0, <1>1, <2>6 DEF SinceInv, FailureMeansReplaced, Lone
  <2> QED BY <2>5, <2>7
<1>4. ASSUME ReadPages(t) PROVE Held
  <2>1. segment[q] # None /\ opened[q] = segment[q] /\ local_reader(q) = opened[q]
    BY <1>0, <1>4 DEF ReadPages, ScanInv, SegmentFirst, ReaderHoldsSegment, local_reader
  <2>2. stage = "registered" /\ opened[q] \in since
    BY <1>0, <2>1 DEF SinceInv, QueriesFromSince
  <2>3. /\ opened' = opened
        /\ pages' = [pages EXCEPT ![t] = opened[q]]
        /\ pc' = [pc EXCEPT ![t] = "decoded"]
    BY <1>0, <1>4, <2>1 DEF ReadPages, Goto
  <2>4. QueriesFromSince'
    BY <1>0, <1>1, <2>2, <2>3 DEF SinceInv, QueriesFromSince
  <2>5. FailureMeansReplaced'
    BY <1>0, <1>1, <2>3 DEF SinceInv, FailureMeansReplaced, Lone
  <2> QED BY <2>4, <2>5
<1>5. ASSUME ExportStep(t), UNCHANGED <<storeVars, tableVars, queryVars>> PROVE Held
  <2>1. UNCHANGED <<opened, pages>>
    BY <1>5 DEF queryVars
  <2>2. CacheOK
    BY DEF ScanInv, ScanTypeOK, CacheOK
  <2>3. PICK label \in (Exporting \cup Finished) \ {"decoded"} : pc' = [pc EXCEPT ![t] = label]
    BY <1>5, <2>2, ExportInv
  <2>4. label # "corrupt"
    BY <2>3 DEF Exporting, Finished
  <2>5. pc[t] # "idle"
    BY <1>5 DEF ExportStep, ContainsMisses, ContainsHits, ClockFails, ExportTrusted,
       ExportStrict, Insert
  <2>6. QueriesFromSince'
    BY <1>0, <1>1, <2>1, <2>3, <2>5 DEF SinceInv, QueriesFromSince
  <2>7. FailureMeansReplaced'
    BY <1>0, <1>1, <2>3, <2>4 DEF SinceInv, FailureMeansReplaced, Lone
  <2> QED BY <2>6, <2>7
<1>6. Held
  <2> HIDE DEF Held
  <2> QED BY <1>3, <1>4, <1>5 DEF ScanStep
<1> QED BY <1>2, <1>6 DEF SinceInv

LEMMA ReplaceSince ==
  ASSUME ScanInv, SinceInv, NEW c \in Calls, Replace(c)
  PROVE  SinceInv'
<1>1. UNCHANGED <<pc, opened, pages, stage, file_len, reg>>
  BY DEF Replace, proofVars, queryVars
<1>2. visible' = [visible EXCEPT ![Target[c]] = c]
      /\ since' = IF since = {} \/ Target[c] # DataPath THEN since ELSE since \cup {c}
  BY DEF Replace
<1>3. SinceFinite'
  BY <1>2, FS_AddElement DEF SinceInv, SinceFinite
<1>4. since \subseteq since' /\ (since = {} => since' = {})
  BY <1>2
<1>5. SinceBegan'
  <2>1. DataPath \in Paths /\ visible \in [Paths -> Calls \cup Paths \cup {None}]
    BY ScanAssumption DEF ScanInv, ScanTypeOK
  <2>2. since' # {} => visible'[DataPath] \in since'
    BY <1>2, <2>1 DEF SinceInv, SinceBegan
  <2>3. since' # {} => \E f \in since' : f # None
    BY <1>4 DEF SinceInv, SinceBegan
  <2> QED BY <1>1, <1>4, <2>2, <2>3 DEF SinceInv, SinceBegan
<1>6. TableFromSince' /\ QueriesFromSince'
  BY <1>1, <1>4 DEF SinceInv, TableFromSince, QueriesFromSince
<1>7. Lone' => Lone
  BY <1>4 DEF Lone
<1>8. FailureMeansReplaced'
  BY <1>1, <1>7 DEF SinceInv, FailureMeansReplaced
<1> QED BY <1>3, <1>5, <1>6, <1>8 DEF SinceInv

LEMMA StutterSince == SinceInv /\ UNCHANGED scanVars => SinceInv'
BY DEF SinceInv, scanVars, storeVars, proofVars, tableVars, queryVars, SinceFinite, SinceBegan,
   TableFromSince, QueriesFromSince, FailureMeansReplaced, Lone

(* A registration fails, or a scan fails on or reads another file than the  *)
(* registered one, only when the path was replaced since the registration   *)
(* began or was empty then (bootstrap/local.rs, decode/morsels.rs).         *)
THEOREM ReplacementDisturbs == ScanSpec => []OnlyReplacementDisturbs
<1>1. ScanInv /\ SinceInv /\ [ScanNext]_scanVars => SinceInv'
  BY RegisterSince, StepSince, ReplaceSince, StutterSince DEF ScanNext
<1>2. ScanInv /\ SinceInv => OnlyReplacementDisturbs
  <2> SUFFICES ASSUME ScanInv, SinceInv, Cardinality(since) = 1
               PROVE  /\ stage # "failed"
                      /\ \A t \in Tasks : pc[t] # "corrupt" /\ pages[t] \in {None, reg}
    BY DEF OnlyReplacementDisturbs
  <2>1. PICK f : since = {f}
    BY FS_Singleton DEF SinceInv, SinceFinite
  <2>2. stage # "failed" /\ \A t \in Tasks : pc[t] # "corrupt"
    BY <2>1 DEF SinceInv, FailureMeansReplaced, Lone
  <2>3. ASSUME NEW t \in Tasks, pages[t] # None PROVE pages[t] = reg
    BY <2>1, <2>3, LoneFile DEF SinceInv, QueriesFromSince
  <2> QED BY <2>2, <2>3
<1> QED BY <1>1, <1>2, SinceInit, ScanInvariant, PTL DEF ScanSpec

-----------------------------------------------------------------------------
(* Epochs order the proofs by their last use: no two proofs share one, and  *)
(* the clock is not behind any.                                             *)
CacheInv == /\ entries \in [DOMAIN entries -> Nat]
            /\ \A p \in DOMAIN entries : entries[p] <= next_epoch
            /\ \A p, r \in DOMAIN entries : entries[p] = entries[r] => p = r
            /\ IsFiniteSet(DOMAIN entries)
            /\ Cardinality(DOMAIN entries) <= Capacity
            /\ next_epoch \in Nat

Labels == {"idle", "segment", "corrupt"} \cup Exporting \cup Finished
Older == {p \in (DOMAIN entries) \X (DOMAIN entries) : entries[p[1]] < entries[p[2]]}
Found == {t \in Tasks : pc[t] \in {"trusted", "unchecked"}}
Recorded == {t \in Tasks : pc[t] = "recorded"}

(* A page that gets a new epoch becomes the most recent of those kept, and  *)
(* leaves the order of the others as it was.                                *)
LEMMA Used ==
  ASSUME CacheInv, NEW k, NEW kept \in SUBSET DOMAIN entries, NEW new,
         new \in [kept \cup {k} -> Nat], new[k] = next_epoch + 1,
         \A p \in kept \ {k} : new[p] = entries[p]
  PROVE  /\ {p \in (kept \cup {k}) \X (kept \cup {k}) : new[p[1]] < new[p[2]]} = Lru!Using(k, kept)
         /\ \A p \in kept \cup {k} : new[p] <= next_epoch + 1
         /\ \A p, r \in kept \cup {k} : new[p] = new[r] => p = r
<1> DEFINE all == kept \cup {k}
<1>1. \A p \in kept \ {k} : new[p] = entries[p] /\ entries[p] \in Nat /\ new[p] < next_epoch + 1
  BY DEF CacheInv
<1>2. next_epoch + 1 \in Nat
  BY DEF CacheInv
<1>3. \A p \in all : p # k => p \in kept \ {k}
  OBVIOUS
<1>4. \A a, b \in all : new[a] < new[b] <=>
        \/ a # k /\ b # k /\ entries[a] < entries[b]
        \/ a # k /\ b = k
  BY <1>1, <1>2, <1>3
<1>5. \A a, b \in all : a # k /\ b # k => (<<a, b>> \in Older <=> entries[a] < entries[b])
  BY <1>3 DEF Older
<1>6. Lru!Using(k, kept) = {p \in Older : p[1] \in kept \ {k} /\ p[2] \in kept \ {k}}
                           \cup {<<a, k>> : a \in kept \ {k}}
  BY DEF Lru!Using, Older
<1>7. ASSUME NEW a \in all, NEW b \in all
      PROVE  <<a, b>> \in Lru!Using(k, kept) <=> new[a] < new[b]
  <2>1. <<a, b>> \in Lru!Using(k, kept) <=>
          \/ <<a, b>> \in Older /\ a # k /\ b # k
          \/ a # k /\ b = k
    BY <1>3, <1>6
  <2> QED BY <1>4, <1>5, <2>1
<1>8. \A p \in Lru!Using(k, kept) : p = <<p[1], p[2]>> /\ p[1] \in all /\ p[2] \in all
  BY <1>6 DEF Older
<1>9. \A p \in all \X all : p = <<p[1], p[2]>> /\ p[1] \in all /\ p[2] \in all
  OBVIOUS
<1>10. {p \in all \X all : new[p[1]] < new[p[2]]} = Lru!Using(k, kept)
  <2> HIDE DEF all
  <2>1. ASSUME NEW p \in all \X all, new[p[1]] < new[p[2]] PROVE p \in Lru!Using(k, kept)
    <3>1. p[1] \in all /\ p[2] \in all /\ p = <<p[1], p[2]>>
      BY <1>9, <2>1
    <3>2. <<p[1], p[2]>> \in Lru!Using(k, kept)
      BY <1>7, <2>1, <3>1
    <3> QED BY <3>1, <3>2
  <2>2. ASSUME NEW p \in Lru!Using(k, kept) PROVE p \in all \X all /\ new[p[1]] < new[p[2]]
    <3>1. p[1] \in all /\ p[2] \in all /\ p = <<p[1], p[2]>>
      BY <1>8, <2>2
    <3>2. <<p[1], p[2]>> \in Lru!Using(k, kept)
      BY <2>2, <3>1
    <3>3. new[p[1]] < new[p[2]]
      BY <1>7, <3>1, <3>2
    <3> QED BY <3>1, <3>3
  <2> QED BY <2>1, <2>2
<1>11. \A p \in all : new[p] <= next_epoch + 1
  BY <1>1, <1>2, <1>3
<1>12. \A p, r \in all : new[p] = new[r] => p = r
  BY <1>1, <1>2, <1>3 DEF CacheInv
<1> QED BY <1>10, <1>11, <1>12

(* LruCache counts as this module does.                                     *)
LEMMA SameCardinality == ASSUME NEW S PROVE Lru!Cardinality(S) = Cardinality(S)
BY DEF Lru!Cardinality, Cardinality, Lru!IsFiniteSet, IsFiniteSet

(* A set of natural numbers has a least one.                                *)
LEMMA LeastNat ==
  ASSUME NEW S \in SUBSET Nat, S # {}
  PROVE  \E n \in S : \A m \in S : n <= m
<1>1. PICK n \in S : \A m \in S : ~(<<m, n>> \in OpToRel(<, Nat))
  BY NatLessThanWellFounded, WFMin
<1>2. \A m \in S : ~(m < n)
  BY <1>1 DEF OpToRel
<1> QED BY <1>2

LEMMA HitIsFind ==
  ASSUME CacheInv, NEW t \in Tasks, pc \in [Tasks -> Labels], ContainsHits(t)
  PROVE  CacheInv' /\ Lru!Find(t)
<1> DEFINE k == PageOf[t]
<1>1. /\ pc[t] = "decoded" /\ k \in DOMAIN entries /\ next_epoch' = next_epoch + 1
      /\ entries' = [entries EXCEPT ![k] = next_epoch'] /\ pc' = [pc EXCEPT ![t] = "trusted"]
  BY DEF ContainsHits, Goto
<1> HIDE DEF k
<1>2. next_epoch \in Nat /\ entries \in [DOMAIN entries -> Nat] /\ next_epoch' \in Nat
  BY <1>1 DEF CacheInv
<1>3. DOMAIN entries' = DOMAIN entries /\ DOMAIN entries \cup {k} = DOMAIN entries
  BY <1>1
<1>4. entries' \in [DOMAIN entries -> Nat] /\ entries'[k] = next_epoch + 1
      /\ \A p \in DOMAIN entries \ {k} : entries'[p] = entries[p]
  BY <1>1, <1>2
<1>5. /\ Older' = Lru!Using(k, DOMAIN entries)
      /\ \A p \in DOMAIN entries : entries'[p] <= next_epoch + 1
      /\ \A p, r \in DOMAIN entries : entries'[p] = entries'[r] => p = r
  BY <1>3, <1>4, Used DEF Older
<1>6. CacheInv'
  BY <1>1, <1>2, <1>3, <1>4, <1>5 DEF CacheInv
<1>7. t \notin Found \cup Recorded /\ Found' = Found \cup {t} /\ Recorded' = Recorded
  BY <1>1 DEF Found, Recorded
<1> QED BY <1>1, <1>3, <1>5, <1>6, <1>7 DEF Lru!Find, Older, Found, Recorded, k

LEMMA InsertIsRecord ==
  ASSUME CacheInv, NEW t \in Tasks, pc \in [Tasks -> Labels], Insert(t)
  PROVE  CacheInv' /\ Lru!Record(t)
<1> DEFINE k == PageOf[t]
           f == Stamped(k, next_epoch')
<1>1. /\ pc[t] = "validated" /\ next_epoch' = next_epoch + 1
      /\ entries' = Evict(f) /\ pc' = [pc EXCEPT ![t] = "recorded"]
  BY DEF Insert, Goto
<1>2. next_epoch \in Nat /\ next_epoch' \in Nat /\ Capacity \in Nat \ {0}
      /\ \A p \in DOMAIN entries : entries[p] \in Nat /\ entries[p] < next_epoch'
  BY <1>1, ProofAssumption DEF CacheInv
<1>3. f \in [DOMAIN entries \cup {k} -> Nat] /\ f[k] = next_epoch'
      /\ \A p \in DOMAIN entries \ {k} : f[p] = entries[p]
  BY <1>2 DEF Stamped
<1>4. IsFiniteSet(DOMAIN entries) /\ Cardinality(DOMAIN entries) \in Nat
      /\ Cardinality(DOMAIN entries) <= Capacity
  BY FS_CardinalityType DEF CacheInv
<1>5. IsFiniteSet(DOMAIN f) /\ Cardinality(DOMAIN f) =
        IF k \in DOMAIN entries THEN Cardinality(DOMAIN entries) ELSE Cardinality(DOMAIN entries) + 1
  BY <1>3, <1>4, FS_AddElement
<1> HIDE DEF f, k
<1>6. \E kept \in SUBSET DOMAIN entries :
        /\ Lru!Kept(k, kept)
        /\ entries' \in [kept \cup {k} -> Nat] /\ entries'[k] = next_epoch + 1
        /\ \A p \in kept \ {k} : entries'[p] = entries[p]
        /\ Cardinality(kept \cup {k}) <= Capacity
  <2>1. CASE Cardinality(DOMAIN f) <= Capacity
    <3>1. entries' = f
      BY <1>1, <2>1 DEF Evict
    <3>2. k \in DOMAIN entries \/ Cardinality(DOMAIN entries) < Capacity
      BY <1>2, <1>4, <1>5, <2>1
    <3>3. Lru!Kept(k, DOMAIN entries)
      BY <3>2, SameCardinality DEF Lru!Kept, Lru!Room
    <3>4. DOMAIN f = DOMAIN entries \cup {k}
      BY <1>3
    <3> QED BY <1>1, <1>3, <2>1, <3>1, <3>3, <3>4
  <2>2. CASE ~(Cardinality(DOMAIN f) <= Capacity)
    <3> DEFINE Least(l) == \A p \in DOMAIN f : f[l] <= f[p]
               least == CHOOSE l \in DOMAIN f : Least(l)
    <3>1. entries' = Without(f, least)
      BY <1>1, <2>2 DEF Evict
    <3>2. k \notin DOMAIN entries /\ Cardinality(DOMAIN entries) = Capacity
      BY <1>2, <1>4, <1>5, <2>2
    <3>3. DOMAIN entries # {}
      BY <1>2, <1>4, <3>2, FS_EmptySet
    <3>4. \E l \in DOMAIN f : Least(l)
      <4> DEFINE epochs == {f[p] : p \in DOMAIN f}
      <4>1. epochs \subseteq Nat /\ epochs # {}
        BY <1>3
      <4>2. PICK e \in epochs : \A x \in epochs : e <= x
        <5> HIDE DEF epochs
        <5> QED BY <4>1, LeastNat
      <4> QED BY <4>2
    <3>5. least \in DOMAIN f /\ Least(least)
      BY <3>4
    <3> HIDE DEF least
    <3>6. least \in DOMAIN entries /\ least # k
      BY <1>2, <1>3, <3>2, <3>3, <3>5
    <3>7. \A p \in DOMAIN entries : entries[least] <= entries[p]
      BY <1>3, <3>2, <3>5, <3>6
    <3>8. \A p \in DOMAIN entries \ {least} : entries[least] < entries[p]
      BY <1>2, <3>6, <3>7 DEF CacheInv
    <3> DEFINE kept == DOMAIN entries \ {least}
    <3>9. Lru!Kept(k, kept)
      <4>1. \A p \in kept : <<least, p>> \in Older
        BY <3>6, <3>8 DEF Older
      <4> QED BY <1>2, <3>2, <3>6, <4>1, SameCardinality DEF Lru!Kept, Lru!Room, Older
    <3>10. DOMAIN f \ {least} = kept \cup {k}
      BY <1>3, <3>6
    <3>11. Cardinality(DOMAIN f \ {least}) = Cardinality(DOMAIN f) - 1
      BY <1>5, <3>5, FS_RemoveElement
    <3>12. Cardinality(kept \cup {k}) <= Capacity
      <4>1. Cardinality(DOMAIN f) = Capacity + 1
        BY <1>5, <3>2
      <4>2. Cardinality(DOMAIN f \ {least}) = Capacity
        BY <1>2, <3>11, <4>1
      <4>3. Cardinality(kept \cup {k}) = Capacity
        BY <3>10, <4>2
      <4> QED BY <1>2, <4>3
    <3>13. entries' = [p \in kept \cup {k} |-> f[p]]
      BY <3>1, <3>10 DEF Without
    <3>14. \A p \in kept : p \in DOMAIN entries \ {k}
      BY <3>2
    <3>15. entries' \in [kept \cup {k} -> Nat] /\ entries'[k] = next_epoch + 1
           /\ \A p \in kept \ {k} : entries'[p] = entries[p]
      <4> HIDE DEF kept
      <4>1. \A p \in kept \cup {k} : f[p] \in Nat
        BY <1>3, <3>14
      <4> QED BY <1>1, <1>3, <3>13, <3>14, <4>1
    <3> QED BY <3>9, <3>12, <3>15
  <2> QED BY <2>1, <2>2
<1>7. PICK kept \in SUBSET DOMAIN entries : <1>6!(kept)
  BY <1>6
<1>8. DOMAIN entries' = kept \cup {k}
  BY <1>7
<1>9. /\ Older' = Lru!Using(k, kept)
      /\ \A p \in kept \cup {k} : entries'[p] <= next_epoch + 1
      /\ \A p, r \in kept \cup {k} : entries'[p] = entries'[r] => p = r
  BY <1>7, <1>8, Used DEF Older
<1>10. IsFiniteSet(DOMAIN entries') /\ Cardinality(DOMAIN entries') <= Capacity
  <2>1. IsFiniteSet(kept)
    BY <1>4, <1>7, FS_Subset
  <2> QED BY <1>7, <1>8, <2>1, FS_AddElement
<1>11. CacheInv'
  BY <1>1, <1>2, <1>7, <1>8, <1>9, <1>10 DEF CacheInv
<1>12. t \notin Found \cup Recorded /\ Found' = Found /\ Recorded' = Recorded \cup {t}
  BY <1>1 DEF Found, Recorded
<1> QED BY <1>7, <1>8, <1>9, <1>11, <1>12 DEF Lru!Record, Older, Found, Recorded, k

LEMMA LruInitial == ScanInit => CacheInv /\ Lru!LruInit
<1> SUFFICES ASSUME ScanInit PROVE CacheInv /\ Lru!LruInit
  OBVIOUS
<1>1. entries = << >> /\ next_epoch = 0 /\ \A t \in Tasks : pc[t] = "idle"
  BY DEF ScanInit, EmptyCache
<1>2. DOMAIN entries = {}
  BY <1>1
<1>3. IsFiniteSet(DOMAIN entries) /\ Cardinality(DOMAIN entries) = 0
  BY <1>2, FS_EmptySet
<1>4. CacheInv
  BY <1>1, <1>2, <1>3, ProofAssumption DEF CacheInv
<1>5. Older = {} /\ Found = {} /\ Recorded = {}
  BY <1>1, <1>2 DEF Older, Found, Recorded
<1> QED BY <1>2, <1>4, <1>5 DEF Lru!LruInit, Older, Found, Recorded

(* Every step that is not a hit or an insertion leaves the cache, and who   *)
(* has found or recorded, as they were.                                     *)
LEMMA LruStep ==
  ASSUME ScanInv, CacheInv, [ScanNext]_scanVars
  PROVE  CacheInv' /\ [Lru!LruNext]_(Lru!lruVars)
<1>0. pc \in [Tasks -> Labels]
  BY DEF ScanInv, ScanTypeOK, Labels
<1>1. ASSUME UNCHANGED <<entries, next_epoch>>,
             Found' = Found, Recorded' = Recorded
      PROVE  CacheInv' /\ [Lru!LruNext]_(Lru!lruVars)
  <2>1. CacheInv'
    BY <1>1 DEF CacheInv
  <2>2. UNCHANGED Lru!lruVars
    BY <1>1 DEF Lru!lruVars, Found, Recorded
  <2> QED BY <2>1, <2>2
<1>2. ASSUME NEW t \in Tasks, NEW label \in {"segment", "corrupt", "decoded", "strict", "validated", "err"},
             UNCHANGED <<entries, next_epoch>>, pc' = [pc EXCEPT ![t] = label],
             pc[t] \notin {"trusted", "unchecked", "recorded"}
      PROVE  CacheInv' /\ [Lru!LruNext]_(Lru!lruVars)
  <2>1. Found' = Found /\ Recorded' = Recorded
    BY <1>0, <1>2 DEF Found, Recorded
  <2> QED BY <1>1, <1>2, <2>1
<1>3. CASE UNCHANGED scanVars
  BY <1>1, <1>3 DEF scanVars, proofVars, Found, Recorded
<1>4. CASE Register
  <2>1. UNCHANGED <<entries, next_epoch, pc>>
    BY <1>4 DEF Register, StatFile, Bootstrap, CheckCache, CheckCovi, ReadSidecar, proofVars
  <2> QED BY <1>1, <2>1 DEF Found, Recorded
<1>5. ASSUME NEW c \in Calls, Replace(c) PROVE CacheInv' /\ [Lru!LruNext]_(Lru!lruVars)
  <2>1. UNCHANGED <<entries, next_epoch, pc>>
    BY <1>5 DEF Replace, proofVars
  <2> QED BY <1>1, <2>1 DEF Found, Recorded
<1>6. ASSUME NEW t \in Tasks, ScanStep(t) PROVE CacheInv' /\ [Lru!LruNext]_(Lru!lruVars)
  <2>1. CASE ReadSegment(t)
    BY <1>2, <2>1 DEF ReadSegment, Goto
  <2>2. CASE ReadPages(t)
    BY <1>2, <2>2 DEF ReadPages, Goto
  <2>3. CASE ContainsMisses(t)
    BY <1>2, <2>3 DEF ContainsMisses, Goto
  <2>4. CASE ContainsHits(t)
    BY <1>0, <2>4, HitIsFind DEF Lru!LruNext
  <2>5. CASE ClockFails(t)
    BY <1>2, <2>5 DEF ClockFails, Goto
  <2>6. CASE ExportTrusted(t)
    <3>1. Found' = Found /\ Recorded' = Recorded
      BY <1>0, <2>6 DEF ExportTrusted, Goto, Found, Recorded
    <3> QED BY <1>1, <2>6, <3>1 DEF ExportTrusted
  <2>7. CASE ExportStrict(t)
    BY <1>2, <2>7 DEF ExportStrict, Goto
  <2>8. CASE Insert(t)
    BY <1>0, <2>8, InsertIsRecord DEF Lru!LruNext
  <2> QED BY <1>6, <2>1, <2>2, <2>3, <2>4, <2>5, <2>6, <2>7, <2>8 DEF ScanStep, ExportStep
<1> QED BY <1>3, <1>4, <1>5, <1>6 DEF ScanNext

(* The cache of UTF-8 proofs is a cache of recently used pages, for any     *)
(* capacity and any interleaving of partitions: the proof just recorded or  *)
(* just used is never the one to go (decode/cache.rs, Utf8ProofCache).      *)
THEOREM CacheIsLru == ScanSpec => ImplementsLru
<1>1. ScanInv /\ CacheInv /\ [ScanNext]_scanVars => CacheInv' /\ [Lru!LruNext]_(Lru!lruVars)
  BY LruStep
<1> QED BY <1>1, LruInitial, ScanInvariant, PTL DEF ScanSpec, ImplementsLru, Lru!LruSpec
=============================================================================
