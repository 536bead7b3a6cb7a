------------------------- MODULE DeltaPublishProofs -------------------------
(***************************************************************************)
(* Proofs about DeltaPublish, for any number of publications, readers and   *)
(* paths.  A publication takes only steps that DurableReplace allows, so    *)
(* the invariant proved there holds here; what is added is the order of the *)
(* two calls (DeltaFirst) and which file can be at which path (OwnPaths).   *)
(***************************************************************************)
EXTENDS DeltaPublish, DurableReplaceProofs

DeltaFirst == \A m \in Manifests : pc[m] # "idle" => pc[DeltaOf[m]] = "ok"

FilesAtTarget ==
  \A p \in Paths : \A f \in onDisk[p] :
    \/ f = None
    \/ f \in Paths /\ serial[f] = 0
    \/ f \in Calls /\ Target[f] = p

OkWasRenamed == \A c \in Calls : pc[c] \in {"renamed", "ok"} => serial[c] > 0

SerialsDiffer ==
  \A c, d \in Calls : serial[c] = serial[d] /\ serial[c] > 0 => c = d

HeldIsPublished ==
  \A r \in Readers : held[r] # None => pc[DeltaOf[held[r]]] = "ok"

PubIInv == /\ IInv
           /\ PubTypeOK
           /\ DeltaFirst
           /\ FilesAtTarget
           /\ OkWasRenamed
           /\ SerialsDiffer
           /\ HeldIsPublished
           /\ ReaderErrMeansOverwritten

(* Publications and readers take only steps of DurableReplace.              *)
LEMMA PubStepIsStep == [PubNext]_pubVars => [Next]_vars
  BY DEF PubNext, pubVars, CrashAll, PublishStep, PublishDisturb, KillBetween,
     ReadDelta, ReadManifest, Next

(* A manifest that is on disk anywhere has an acknowledged delta.           *)
LEMMA OnDiskHasDelta ==
  ASSUME PubIInv, NEW m \in Manifests, NEW p \in Paths,
         m \in onDisk[p] \cup {entry[p]}
  PROVE  pc[DeltaOf[m]] = "ok" /\ pc[m] # "idle"
<1>1. m \in onDisk[p] /\ m \in Calls
  BY PublishAssumption, TempNames DEF PubIInv, IInv, EntryOnDisk
<1>2. pc[m] \notin Preparing
  BY <1>1 DEF PubIInv, IInv, FinalFilesPublished
<1> QED
  BY <1>2 DEF Preparing, PubIInv, DeltaFirst

(* The initial states satisfy the invariant.                                *)
LEMMA PubInitInv == PubInit => PubIInv
<1> SUFFICES ASSUME PubInit PROVE PubIInv
  OBVIOUS
<1>1. IInv /\ TypeOK
  BY InitIInv DEF PubInit, IInv
<1>2. PubTypeOK /\ HeldIsPublished
  BY <1>1, PublishAssumption DEF PubInit, PubTypeOK, HeldIsPublished
<1>3. DeltaFirst /\ OkWasRenamed
  BY PublishAssumption DEF PubInit, Init, DeltaFirst, OkWasRenamed
<1>4. SerialsDiffer
  BY DEF PubInit, Init, SerialsDiffer, Files
<1>5. FilesAtTarget
  BY TempNames DEF PubInit, Init, FilesAtTarget, Files, Names
<1>6. ReaderErrMeansOverwritten
  BY DEF PubInit, ReaderErrMeansOverwritten
<1> QED
  BY <1>1, <1>2, <1>3, <1>4, <1>5, <1>6 DEF PubIInv

(* What a step of DurableReplace does to the history: only a rename writes  *)
(* serial numbers, and only that of the renaming call, with a fresh one.    *)
LEMMA SerialSteps ==
  ASSUME IInv, [Next]_vars
  PROVE  \/ serial' = serial
         \/ \E c \in Calls : /\ Rename(c)
                             /\ serial' = [serial EXCEPT ![c] = renames + 1]
<1>1. ASSUME NEW c \in Calls, Rename(c)
      PROVE  serial' = [serial EXCEPT ![c] = renames + 1]
  <2>1. entry[temp_path_for(c)] = c
    BY <1>1 DEF Rename, IInv, TempsOwned, Preparing
  <2> QED
    BY <1>1, <2>1 DEF Rename
<1>2. ASSUME NEW c \in Calls, CallStep(c), ~Rename(c) PROVE serial' = serial
  BY <1>2 DEF CallStep, Create, Write, SyncFile, SyncParentDir, OperationRefused, Cleanup
<1> QED
  BY <1>1, <1>2 DEF Next, vars, SystemCrash, Disturb, StepFails, CleanupFails, Kill

(* A call that has returned Ok keeps that result, and its serial number.    *)
LEMMA OkStays ==
  ASSUME IInv, [Next]_vars, NEW c \in Calls, pc[c] = "ok"
  PROVE  pc'[c] = "ok" /\ serial'[c] = serial[c]
<1>1. pc \in [Calls -> {"idle"} \cup Running \cup Done] /\ serial \in [Files -> Nat] /\ c \in Files
  BY TempNames DEF IInv, TypeOK
<1>2. pc'[c] = "ok"
  <2>1. CASE SystemCrash
    BY <1>1, <2>1 DEF SystemCrash, Running
  <2>2. ASSUME NEW d \in Calls, CallStep(d) \/ Disturb(d) PROVE pc'[c] = "ok"
    <3>1. pc[d] # "ok" /\ \E v : pc' = [pc EXCEPT ![d] = v]
      BY <2>2 DEF CallStep, Disturb, Create, Write, SyncFile, Rename, SyncParentDir,
         OperationRefused, Refused, Cleanup, StepFails, CleanupFails, Kill, Running
    <3> QED
      BY <1>1, <3>1
  <2>3. CASE UNCHANGED vars
    BY <2>3 DEF vars
  <2> QED
    BY <2>1, <2>2, <2>3 DEF Next
<1>3. serial'[c] = serial[c]
  <2>1. ASSUME NEW d \in Calls, Rename(d) PROVE d # c
    BY <2>1 DEF Rename
  <2> QED
    BY <1>1, <2>1, SerialSteps
<1> QED
  BY <1>2, <1>3

(* The order of the two calls survives every step.                          *)
LEMMA DeltaFirstStep == ASSUME PubIInv, [PubNext]_pubVars PROVE DeltaFirst'
<1> SUFFICES ASSUME NEW m \in Manifests, pc'[m] # "idle"
             PROVE  pc'[DeltaOf[m]] = "ok"
  BY DEF DeltaFirst
<1>1. DeltaOf[m] \in Calls /\ DeltaOf[m] \notin Manifests /\ m \in Calls
  BY PublishAssumption DEF Deltas
<1>2. IInv /\ [Next]_vars
  BY PubStepIsStep DEF PubIInv
<1>3. CASE pc[m] # "idle"
  BY <1>1, <1>2, <1>3, OkStays DEF PubIInv, DeltaFirst
<1>4. CASE pc[m] = "idle"
  <2>1. pc \in [Calls -> {"idle"} \cup Running \cup Done]
    BY <1>2 DEF IInv, TypeOK
  <2>2. ASSUME NEW c \in Calls, CallStep(c) \/ Disturb(c), c # m PROVE pc'[m] = pc[m]
    <3>1. \E v : pc' = [pc EXCEPT ![c] = v]
      BY <2>2 DEF CallStep, Disturb, Create, Write, SyncFile, Rename, SyncParentDir,
         OperationRefused, Refused, Cleanup, StepFails, CleanupFails, Kill
    <3> QED
      BY <1>1, <2>1, <2>2, <3>1
  <2>3. PICK c \in Calls : PublishStep(c) \/ PublishDisturb(c)
    BY <1>1, <1>4 DEF PubNext, pubVars, vars, CrashAll, SystemCrash, KillBetween,
       ReadDelta, ReadManifest, Running
  <2>4. c = m
    BY <1>4, <2>2, <2>3 DEF PublishStep, PublishDisturb
  <2>5. MayStart(m)
    BY <1>4, <2>3, <2>4 DEF PublishStep, PublishDisturb
  <2>6. pc[DeltaOf[m]] = "ok"
    BY <1>1, <2>5, PublishAssumption DEF MayStart, Deltas
  <2> QED
    BY <1>1, <1>2, <2>6, OkStays
<1> QED
  BY <1>3, <1>4

(* Serial numbers: positive once renamed, and unique.                       *)
LEMMA SerialsStep ==
  ASSUME PubIInv, [Next]_vars PROVE OkWasRenamed' /\ SerialsDiffer'
<1> USE DEF PubIInv
<1>1. /\ pc \in [Calls -> {"idle"} \cup Running \cup Done]
      /\ serial \in [Files -> Nat] /\ renames \in Nat
      /\ \A c \in Calls : c \in Files
      /\ \A f \in Files : serial[f] <= renames
  BY TempNames DEF IInv, TypeOK, SerialsBounded
<1>2. CASE serial' = serial
  <2>1. ASSUME NEW c \in Calls, pc'[c] \in {"renamed", "ok"}
        PROVE  pc[c] \in {"renamed", "ok"} \/ Rename(c)
    <3>1. CASE SystemCrash
      BY <1>1, <2>1, <3>1 DEF SystemCrash
    <3>2. ASSUME NEW d \in Calls, CallStep(d) \/ Disturb(d)
          PROVE  pc[c] \in {"renamed", "ok"} \/ Rename(c)
      <4>1. CASE c = d
        BY <1>1, <2>1, <3>2, <4>1 DEF CallStep, Disturb, Create, Write, SyncFile,
           SyncParentDir, OperationRefused, Refused, Cleanup, StepFails, CleanupFails, Kill
      <4>2. CASE c # d
        <5>1. \E v : pc' = [pc EXCEPT ![d] = v]
          BY <3>2 DEF CallStep, Disturb, Create, Write, SyncFile, Rename, SyncParentDir,
             OperationRefused, Refused, Cleanup, StepFails, CleanupFails, Kill
        <5> QED
          BY <1>1, <2>1, <4>2, <5>1
      <4> QED
        BY <4>1, <4>2
    <3>3. CASE UNCHANGED vars
      BY <2>1, <3>3 DEF vars
    <3> QED
      BY <3>1, <3>2, <3>3 DEF Next
  <2>2. ASSUME NEW c \in Calls PROVE ~Rename(c)
    <3>1. ASSUME Rename(c) PROVE FALSE
      <4>1. entry[temp_path_for(c)] = c
        BY <3>1 DEF Rename, IInv, TempsOwned, Preparing
      <4>2. serial'[c] = renames + 1
        BY <1>1, <3>1, <4>1 DEF Rename
      <4> QED
        BY <1>1, <1>2, <4>2
    <3> QED
      BY <3>1
  <2> QED
    BY <1>2, <2>1, <2>2 DEF OkWasRenamed, SerialsDiffer
<1>3. ASSUME NEW c \in Calls, Rename(c), serial' = [serial EXCEPT ![c] = renames + 1]
      PROVE  OkWasRenamed' /\ SerialsDiffer'
  <2>1. pc' = [pc EXCEPT ![c] = "renamed"]
    BY <1>3 DEF Rename
  <2>2. OkWasRenamed'
    BY <1>1, <1>3, <2>1 DEF OkWasRenamed
  <2>3. SerialsDiffer'
    BY <1>1, <1>3 DEF SerialsDiffer
  <2> QED
    BY <2>2, <2>3
<1> QED
  BY <1>2, <1>3, SerialSteps

(* A final path holds old files and files renamed to it, nothing else.      *)
LEMMA FilesAtTargetStep == ASSUME PubIInv, [Next]_vars PROVE FilesAtTarget'
<1> USE DEF PubIInv
<1>1. /\ onDisk \in [Names -> SUBSET (Files \cup {None})] /\ Paths \subseteq Names
      /\ entry \in [Names -> Files \cup {None}]
      /\ \A p \in Paths : entry[p] \in onDisk[p]
      /\ serial \in [Files -> Nat] /\ Paths \subseteq Files
  BY TempNames DEF IInv, TypeOK, EntryOnDisk
<1>2. \A f \in Paths : serial'[f] = serial[f]
  BY <1>1, SerialSteps, CallsAssumption DEF IInv
<1>3. ASSUME NEW p \in Paths, NEW f \in onDisk'[p]
      PROVE  f \in onDisk[p] \/ (f \in Calls /\ Target[f] = p)
  <2>1. CASE SystemCrash
    <3>1. f = entry'[p]
      BY <1>1, <1>3, <2>1 DEF SystemCrash
    <3>2. entry'[p] \in onDisk[p]
      BY <1>1, <2>1 DEF SystemCrash
    <3> QED
      BY <3>1, <3>2
  <2>2. ASSUME NEW c \in Calls, Rename(c)
        PROVE  f \in onDisk[p] \/ (f \in Calls /\ Target[f] = p)
    <3>1. entry[temp_path_for(c)] = c
      BY <2>2 DEF Rename, IInv, TempsOwned, Preparing
    <3>2. p # temp_path_for(c)
      BY TempNames
    <3>3. onDisk'[p] \subseteq IF p = Target[c] THEN onDisk[p] \cup {c} ELSE onDisk[p]
      BY <1>1, <2>2, <3>1, <3>2 DEF Rename
    <3> QED
      BY <1>3, <3>3
  <2>3. ASSUME NEW c \in Calls, Create(c) \/ Cleanup(c) PROVE onDisk'[p] = onDisk[p]
    BY <1>1, <2>3, TempNames DEF Create, Cleanup
  <2>4. ASSUME NEW c \in Calls, SyncParentDir(c) PROVE onDisk'[p] \subseteq onDisk[p]
    BY <1>1, <2>4 DEF SyncParentDir
  <2>5. CASE UNCHANGED onDisk
    BY <1>3, <2>5
  <2> QED
    BY <1>3, <2>1, <2>2, <2>3, <2>4, <2>5 DEF Next, vars, CallStep, Disturb, Write,
       SyncFile, OperationRefused, StepFails, CleanupFails, Kill
<1> QED
  BY <1>2, <1>3 DEF FilesAtTarget

(* Readers: a delta that a held manifest names is acknowledged, and the     *)
(* reader's verdict is right when it is reached and stays right.            *)
LEMMA ReadersStep ==
  ASSUME PubIInv, [PubNext]_pubVars
  PROVE  PubTypeOK' /\ HeldIsPublished' /\ ReaderErrMeansOverwritten'
<1>1. IInv /\ [Next]_vars /\ IInv' /\ TypeOK'
  BY PubStepIsStep, NextIInv DEF PubIInv, IInv
<1>2. /\ rpc \in [Readers -> {"idle", "manifest", "ok", "err"}]
      /\ held \in [Readers -> Manifests \cup {None}]
      /\ stopped \subseteq Manifests
      /\ serial \in [Files -> Nat] /\ renames \in Nat
      /\ \A c \in Calls : c \in Files
      /\ \A f \in Files : serial[f] <= renames
  BY TempNames DEF PubIInv, PubTypeOK, IInv, TypeOK, SerialsBounded
<1>3. \A m \in Manifests : DeltaOf[m] \in Calls /\ m # None
  BY PublishAssumption, CallsAssumption DEF Deltas
<1>4. \A m \in Manifests : pc[DeltaOf[m]] = "ok" =>
         pc'[DeltaOf[m]] = "ok" /\ serial'[DeltaOf[m]] = serial[DeltaOf[m]]
  BY <1>1, <1>3, OkStays
<1>5. \A c, d \in Calls : serial'[d] = serial[d] /\ serial[c] > serial[d]
                            => serial'[c] > serial'[d]
  BY <1>1, <1>2, SerialSteps
<1>6. CASE rpc' = rpc /\ held' = held /\ stopped' \subseteq Manifests
  <2>1. PubTypeOK'
    BY <1>1, <1>6 DEF PubTypeOK, PubIInv
  <2>2. HeldIsPublished'
    BY <1>2, <1>4, <1>6 DEF HeldIsPublished, PubIInv
  <2>3. ReaderErrMeansOverwritten'
    <3> SUFFICES ASSUME NEW r \in Readers, rpc[r] = "err"
                 PROVE  \E c \in Calls : /\ Target[c] = Target[DeltaOf[held[r]]]
                                        /\ serial'[c] > serial'[DeltaOf[held[r]]]
      BY <1>6 DEF ReaderErrMeansOverwritten
    <3>1. held[r] \in Manifests /\ pc[DeltaOf[held[r]]] = "ok"
      BY <1>2 DEF PubIInv, PubTypeOK, HeldIsPublished
    <3>2. PICK c \in Calls : /\ Target[c] = Target[DeltaOf[held[r]]]
                             /\ serial[c] > serial[DeltaOf[held[r]]]
      BY DEF PubIInv, ReaderErrMeansOverwritten
    <3> QED
      BY <1>3, <1>4, <1>5, <3>1, <3>2
  <2> QED
    BY <2>1, <2>2, <2>3
<1>7. CASE CrashAll
  BY <1>1, <1>2, <1>7 DEF CrashAll, PubTypeOK, HeldIsPublished, ReaderErrMeansOverwritten
<1>8. ASSUME NEW r \in Readers, NEW p \in Paths, ReadManifest(r, p)
      PROVE  PubTypeOK' /\ HeldIsPublished' /\ ReaderErrMeansOverwritten'
  <2>1. /\ entry[p] \in Manifests /\ UNCHANGED <<pc, serial, stopped>>
        /\ rpc' = [rpc EXCEPT ![r] = "manifest"]
        /\ held' = [held EXCEPT ![r] = entry[p]]
    BY <1>8 DEF ReadManifest, vars
  <2>2. pc[DeltaOf[entry[p]]] = "ok"
    BY <2>1, OnDiskHasDelta
  <2>3. PubTypeOK'
    BY <1>1, <1>2, <1>3, <2>1 DEF PubTypeOK, PubIInv
  <2>4. HeldIsPublished'
    BY <1>2, <2>1, <2>2 DEF HeldIsPublished, PubIInv
  <2>5. ReaderErrMeansOverwritten'
    BY <1>2, <2>1 DEF ReaderErrMeansOverwritten, PubIInv
  <2> QED
    BY <2>3, <2>4, <2>5
<1>9. ASSUME NEW r \in Readers, ReadDelta(r)
      PROVE  PubTypeOK' /\ HeldIsPublished' /\ ReaderErrMeansOverwritten'
  <2> DEFINE d == DeltaOf[held[r]]
             f == entry[Target[d]]
  <2>1. /\ rpc[r] = "manifest" /\ UNCHANGED <<pc, serial, stopped, held>>
        /\ rpc' = [rpc EXCEPT ![r] = IF DigestMatches(r) THEN "ok" ELSE "err"]
    BY <1>9 DEF ReadDelta, vars
  <2>2. held[r] \in Manifests /\ d \in Calls /\ pc[d] = "ok"
    BY <1>2, <1>3, <2>1 DEF PubIInv, PubTypeOK, HeldIsPublished
  <2>3. Target[d] \in Paths
    BY <2>2, TempNames
  <2>4. f # None /\ serial[f] >= serial[d] /\ data[f] = "full"
    BY <2>2, <2>3 DEF PubIInv, IInv, AckedNeverReverts, FinalPathComplete
  <2>5. f \in onDisk[Target[d]]
    BY <2>3, TempNames DEF PubIInv, IInv, EntryOnDisk
  <2>6. serial[d] > 0
    BY <2>2 DEF PubIInv, OkWasRenamed
  <2>7. f \in Calls /\ Target[f] = Target[d]
    BY <1>2, <2>2, <2>3, <2>4, <2>5, <2>6 DEF PubIInv, FilesAtTarget
  <2>8. ~DigestMatches(r) => serial[f] > serial[d]
    <3>1. ~DigestMatches(r) => f # d
      BY <2>4 DEF DigestMatches
    <3> QED
      BY <1>2, <2>2, <2>4, <2>6, <2>7, <3>1 DEF PubIInv, SerialsDiffer
  <2>9. ReaderErrMeansOverwritten'
    <3> SUFFICES ASSUME NEW q \in Readers, rpc'[q] = "err"
                 PROVE  \E c \in Calls : /\ Target[c] = Target[DeltaOf[held[q]]]
                                        /\ serial[c] > serial[DeltaOf[held[q]]]
      BY <2>1 DEF ReaderErrMeansOverwritten
    <3>1. CASE q = r
      BY <1>2, <2>1, <2>7, <2>8, <3>1
    <3>2. CASE q # r
      BY <1>2, <2>1, <3>2 DEF PubIInv, ReaderErrMeansOverwritten
    <3> QED
      BY <3>1, <3>2
  <2>10. PubTypeOK'
    BY <1>1, <1>2, <2>1 DEF PubTypeOK, PubIInv
  <2> QED
    BY <2>1, <2>9, <2>10 DEF HeldIsPublished, PubIInv
<1>10. CASE UNCHANGED pubVars
  BY <1>2, <1>6, <1>10 DEF pubVars
<1>11. ASSUME NEW c \in Calls, PublishStep(c) \/ PublishDisturb(c)
       PROVE  rpc' = rpc /\ held' = held /\ stopped' \subseteq Manifests
  BY <1>2, <1>11 DEF PublishStep, PublishDisturb
<1>12. ASSUME NEW m \in Manifests, KillBetween(m)
       PROVE  rpc' = rpc /\ held' = held /\ stopped' \subseteq Manifests
  BY <1>2, <1>12 DEF KillBetween
<1> QED
  BY <1>6, <1>7, <1>8, <1>9, <1>10, <1>11, <1>12 DEF PubNext

(* Every step of a publication or a reader keeps the invariant.             *)
LEMMA PubNextInv == PubIInv /\ [PubNext]_pubVars => PubIInv'
<1> SUFFICES ASSUME PubIInv, [PubNext]_pubVars PROVE PubIInv'
  OBVIOUS
<1>1. [Next]_vars /\ IInv'
  BY PubStepIsStep, NextIInv DEF PubIInv
<1> QED
  BY <1>1, DeltaFirstStep, SerialsStep, FilesAtTargetStep, ReadersStep DEF PubIInv

(* The invariant holds in every reachable state.                            *)
THEOREM PubInvariance == PubSpec => []PubIInv
  BY PubInitInv, PubNextInv, PTL DEF PubSpec

(* A publication of a delta and its manifest implements DurableReplace: its *)
(* calls are calls of durable_replace and readers change no file.           *)
THEOREM PublishImplementsReplace == PubSpec => Init /\ [][Next]_vars
<1>1. PubInit => Init
  BY DEF PubInit
<1> QED
  BY <1>1, PubStepIsStep, PTL DEF PubSpec

(* Every variable of the publication and its readers keeps its type.        *)
THEOREM PubTypeCorrect == PubSpec => []PubTypeOK
<1>1. PubIInv => PubTypeOK
  BY DEF PubIInv
<1> QED
  BY <1>1, PubInvariance, PTL

(* A manifest that a reader can find, now or after a crash, never names a   *)
(* delta that is missing, torn or older than the one it was published with. *)
THEOREM NeverDangles == PubSpec => []ManifestNeverDangles
<1>1. PubIInv => ManifestNeverDangles
  <2> SUFFICES ASSUME PubIInv, NEW m \in Manifests, NEW p \in Paths,
                      m \in onDisk[p] \cup {entry[p]},
                      NEW f \in onDisk[Target[DeltaOf[m]]] \cup {entry[Target[DeltaOf[m]]]}
               PROVE  f # None /\ serial[f] >= serial[DeltaOf[m]] /\ data[f] = "full"
    BY DEF ManifestNeverDangles
  <2>1. DeltaOf[m] \in Calls /\ pc[DeltaOf[m]] = "ok" /\ Target[DeltaOf[m]] \in Paths
    BY OnDiskHasDelta, TempNames, PublishAssumption DEF Deltas
  <2> QED
    BY <2>1 DEF PubIInv, IInv, AckedNeverReverts, FinalPathComplete
<1> QED
  BY <1>1, PubInvariance, PTL

(* A reader fails only when the path of the delta it needs was reused.      *)
THEOREM ReaderErrors == PubSpec => []ReaderErrMeansOverwritten
<1>1. PubIInv => ReaderErrMeansOverwritten
  BY DEF PubIInv
<1> QED
  BY <1>1, PubInvariance, PTL
=============================================================================
