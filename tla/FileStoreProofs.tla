--------------------------- MODULE FileStoreProofs ---------------------------
(***************************************************************************)
(* DurableReplace implements FileStore, for any calls and paths and both    *)
(* builds; and what its error path leaves behind.                           *)
(*                                                                         *)
(* The invariant of DurableReplaceProofs makes every file behind a final    *)
(* path whole, so that readers see only which file is there.  Added to it:  *)
(* a call has a serial number from its rename on (SerialFromRename), and    *)
(* its temporary name is free before it starts and after its rename         *)
(* (TempsFree), and it fails for a fault or for a bare name                 *)
(* (ErrorsExplained).                                                       *)
(***************************************************************************)
EXTENDS DurableReplaceProofs

SerialFromRename ==
  \A c \in Calls : /\ pc[c] \in Preparing => serial[c] = 0
                   /\ pc[c] \in {"renamed", "ok"} => serial[c] > 0

TempsFree ==
  \A c \in Calls : /\ pc[c] = "idle" => onDisk[temp_path_for(c)] = {None}
                   /\ pc[c] = "renamed" => entry[temp_path_for(c)] = None

ErrorsExplained ==
  \A c \in Calls : pc[c] \in {"cleanup", "err"} /\ CanOpenParent(Target[c]) => faults > 0

MoreInv == SerialFromRename /\ TempsFree /\ ErrorsExplained

(* Before any call nothing is renamed, taken or failed.                     *)
LEMMA MoreInit == Init => MoreInv
<1> SUFFICES ASSUME Init PROVE MoreInv
  OBVIOUS
<1>1. IInv
  BY InitIInv
<1>2. SerialFromRename /\ ErrorsExplained
  BY TempNames DEF Init, SerialFromRename, ErrorsExplained
<1>3. \A c \in Calls : entry[temp_path_for(c)] = None
  BY TempNames DEF Init
<1>4. TempsFree
  BY <1>3, TempNames DEF Init, TempsFree
<1> QED BY <1>2, <1>4 DEF MoreInv

(* Steps that only move a call towards its return.                          *)
LEMMA MorePcOnly ==
  ASSUME IInv, MoreInv, NEW c \in Calls, NEW s \in {"cleanup", "err", "dead"},
         pc' = [pc EXCEPT ![c] = s], faults' \in Nat, faults' >= faults,
         UNCHANGED <<entry, onDisk, serial>>,
         s # "dead" /\ CanOpenParent(Target[c]) => faults' > 0
  PROVE  MoreInv'
<1>1. \A d \in Calls : pc'[d] = IF d = c THEN s ELSE pc[d]
  BY DEF IInv, TypeOK
<1>2. faults \in Nat
  BY DEF IInv, TypeOK
<1>3. SerialFromRename' /\ TempsFree'
  BY <1>1 DEF MoreInv, SerialFromRename, TempsFree, Preparing
<1>4. ErrorsExplained'
  BY <1>1, <1>2 DEF MoreInv, ErrorsExplained, CanOpenParent
<1> QED BY <1>3, <1>4 DEF MoreInv

(* A step of call c that leaves the temporary names of the others alone.    *)
LEMMA MoreOwnStep ==
  ASSUME IInv, MoreInv, NEW c \in Calls, NEW s,
         pc' = [pc EXCEPT ![c] = s], faults' = faults,
         \A d \in Calls \ {c} : /\ serial'[d] = serial[d]
                                /\ pc[d] = "idle" => onDisk'[temp_path_for(d)] = {None}
                                /\ entry'[temp_path_for(d)] = entry[temp_path_for(d)],
         s \in Preparing => serial'[c] = 0,
         s \in {"renamed", "ok"} => serial'[c] > 0,
         s # "idle",
         s = "renamed" => entry'[temp_path_for(c)] = None,
         s \in {"cleanup", "err"} => pc[c] \in {"cleanup", "err"}
  PROVE  MoreInv'
<1>1. \A d \in Calls : pc'[d] = IF d = c THEN s ELSE pc[d]
  BY DEF IInv, TypeOK
<1>2. SerialFromRename'
  BY <1>1 DEF MoreInv, SerialFromRename
<1>3. TempsFree'
  BY <1>1 DEF MoreInv, TempsFree
<1>4. ErrorsExplained'
  BY <1>1 DEF MoreInv, ErrorsExplained, CanOpenParent
<1> QED BY <1>2, <1>3, <1>4 DEF MoreInv

(* The steps of the calling thread keep the added invariant.                *)
LEMMA MoreCallStep ==
  ASSUME IInv, MoreInv, NEW c \in Calls, CallStep(c)
  PROVE  MoreInv'
<1> DEFINE tmp == temp_path_for(c)
<1>0. /\ tmp \in Names /\ tmp \notin Paths /\ c \in Files /\ c # None
      /\ Target[c] \in Paths /\ Target[c] \in Names
      /\ \A d \in Calls \ {c} : temp_path_for(d) \in Names \ {tmp, Target[c]} /\ d \in Files
  BY TempNames
<1>1. /\ pc \in [Calls -> {"idle"} \cup Running \cup Done] /\ faults \in Nat
      /\ entry \in [Names -> Files \cup {None}]
      /\ onDisk \in [Names -> SUBSET (Files \cup {None})]
      /\ serial \in [Files -> Nat] /\ renames \in Nat
  BY DEF IInv, TypeOK
<1>2. \A d \in Calls : pc[d] = "idle" => onDisk[temp_path_for(d)] = {None}
  BY DEF MoreInv, TempsFree
<1>3. CASE Create(c)
  <2>1. serial[c] = 0
    BY <1>3 DEF Create, MoreInv, SerialFromRename, Preparing
  <2> QED BY <1>0, <1>1, <1>2, <1>3, <2>1, MoreOwnStep DEF Create
<1>4. CASE Write(c)
  <2>1. serial[c] = 0
    BY <1>4 DEF Write, MoreInv, SerialFromRename, Preparing
  <2>2. PICK s \in {"writing", "written"} : pc' = [pc EXCEPT ![c] = s]
    BY <1>1, <1>4 DEF Write
  <2>3. UNCHANGED <<entry, onDisk, serial, faults>>
    BY <1>4 DEF Write
  <2> QED BY <1>2, <2>1, <2>2, <2>3, MoreOwnStep
<1>5. CASE SyncFile(c)
  <2>1. serial[c] = 0
    BY <1>5 DEF SyncFile, MoreInv, SerialFromRename, Preparing
  <2> QED BY <1>2, <1>5, <2>1, MoreOwnStep DEF SyncFile
<1>6. CASE Rename(c)
  <2>1. entry[tmp] = c /\ pc' = [pc EXCEPT ![c] = "renamed"] /\ faults' = faults
    BY <1>6 DEF Rename, IInv, TempsOwned, Preparing
  <2>2. entry' = [entry EXCEPT ![tmp] = None, ![Target[c]] = c]
        /\ serial' = [serial EXCEPT ![c] = renames + 1]
    BY <1>6, <2>1 DEF Rename
  <2>3. \A n \in Names \ {tmp, Target[c]} : onDisk'[n] = onDisk[n]
    BY <1>0, <1>1, <1>6 DEF Rename
  <2>4. serial'[c] > 0 /\ \A d \in Calls \ {c} : serial'[d] = serial[d]
    BY <1>0, <1>1, <2>2
  <2>5. entry'[tmp] = None
    BY <1>0, <1>1, <2>2
  <2>6. \A d \in Calls \ {c} : /\ entry'[temp_path_for(d)] = entry[temp_path_for(d)]
                               /\ onDisk'[temp_path_for(d)] = onDisk[temp_path_for(d)]
    BY <1>0, <1>1, <2>2, <2>3
  <2> QED BY <1>2, <2>1, <2>4, <2>5, <2>6, MoreOwnStep DEF Preparing
<1>7. CASE SyncParentDir(c)
  <2>1. pc[c] = "renamed" /\ pc' = [pc EXCEPT ![c] = "ok"] /\ UNCHANGED <<entry, serial, faults>>
    BY <1>7 DEF SyncParentDir
  <2>2. serial[c] > 0
    BY <2>1 DEF MoreInv, SerialFromRename
  <2>3. \A n \in Names : onDisk[n] = {None} => onDisk'[n] = {None}
    BY <1>1, <1>7 DEF SyncParentDir, IInv, EntryOnDisk
  <2>4. \A d \in Calls \ {c} : pc[d] = "idle" => onDisk'[temp_path_for(d)] = {None}
    BY <1>0, <1>2, <2>3
  <2> QED BY <2>1, <2>2, <2>4, MoreOwnStep DEF Preparing
<1>8. CASE OperationRefused(c)
  <2>1. CanOpenParent(Target[c]) => FALSE
    BY <1>0, <1>2, <1>8 DEF OperationRefused, Refused, IInv, EntryOnDisk, TempsOwned, Preparing
  <2>2. /\ pc' = [pc EXCEPT ![c] = "cleanup"] /\ faults' \in Nat /\ faults' >= faults
        /\ UNCHANGED <<entry, onDisk, serial>>
    BY <1>1, <1>8 DEF OperationRefused
  <2> HIDE DEF tmp
  <2> QED BY <2>1, <2>2, MorePcOnly DEF CanOpenParent
<1>9. CASE Cleanup(c)
  <2>1. pc[c] = "cleanup" /\ pc' = [pc EXCEPT ![c] = "err"] /\ UNCHANGED <<serial, faults>>
    BY <1>9 DEF Cleanup
  <2>2. \A d \in Calls \ {c} : /\ entry'[temp_path_for(d)] = entry[temp_path_for(d)]
                               /\ onDisk'[temp_path_for(d)] = onDisk[temp_path_for(d)]
    BY <1>0, <1>1, <1>9 DEF Cleanup
  <2> QED BY <1>2, <2>1, <2>2, MoreOwnStep DEF Preparing
<1> QED BY <1>3, <1>4, <1>5, <1>6, <1>7, <1>8, <1>9 DEF CallStep

(* So does every other step.                                                *)
LEMMA MoreNext == IInv /\ MoreInv /\ [Next]_vars => MoreInv'
<1> SUFFICES ASSUME IInv, MoreInv, [Next]_vars PROVE MoreInv'
  OBVIOUS
<1>0. faults \in Nat
  BY DEF IInv, TypeOK
<1>1. CASE SystemCrash
  <2>1. /\ \A c \in Calls : pc'[c] = IF pc[c] \in Running THEN "dead" ELSE pc[c]
        /\ UNCHANGED <<serial, renames, faults>>
    BY <1>1 DEF SystemCrash
  <2>2. \A c \in Calls : pc[c] = "idle" => onDisk'[temp_path_for(c)] = {None}
    BY <1>1, CrashChoices, TempNames DEF MoreInv, TempsFree
  <2>3. SerialFromRename' /\ ErrorsExplained'
    BY <2>1 DEF MoreInv, SerialFromRename, ErrorsExplained, Running, Preparing, CanOpenParent
  <2>4. TempsFree'
    BY <2>1, <2>2 DEF TempsFree, Running
  <2> QED BY <2>3, <2>4 DEF MoreInv
<1>2. ASSUME NEW c \in Calls, Disturb(c) PROVE MoreInv'
  <2>1. CASE StepFails(c)
    <3>1. /\ pc' = [pc EXCEPT ![c] = "cleanup"] /\ UNCHANGED <<entry, onDisk, serial>>
          /\ faults' \in Nat /\ faults' >= faults /\ faults' > 0
      BY <1>0, <2>1 DEF StepFails
    <3> QED BY <3>1, MorePcOnly
  <2>2. CASE CleanupFails(c)
    <3>1. /\ pc' = [pc EXCEPT ![c] = "err"] /\ UNCHANGED <<entry, onDisk, serial>>
          /\ faults' \in Nat /\ faults' >= faults /\ faults' > 0
      BY <1>0, <2>2 DEF CleanupFails
    <3> QED BY <3>1, MorePcOnly
  <2>3. CASE Kill(c)
    <3>1. /\ pc' = [pc EXCEPT ![c] = "dead"] /\ UNCHANGED <<entry, onDisk, serial>>
          /\ faults' \in Nat /\ faults' >= faults
      BY <1>0, <2>3 DEF Kill
    <3> QED BY <3>1, MorePcOnly
  <2> QED BY <1>2, <2>1, <2>2, <2>3 DEF Disturb
<1>3. CASE UNCHANGED vars
  BY <1>3 DEF vars, MoreInv, SerialFromRename, TempsFree, ErrorsExplained, CanOpenParent
<1> QED BY <1>1, <1>2, <1>3, MoreCallStep DEF Next

(* The added invariant holds throughout.                                    *)
LEMMA MoreInvariance == Spec => []MoreInv
  BY Invariance, MoreInit, MoreNext, PTL DEF Spec

-----------------------------------------------------------------------------
(* Where the directory of a path can be opened, a call fails only when an   *)
(* I/O operation failed: none of its own steps is ever refused              *)
(* (durable.rs, create_new, sync_file and rename of a name of its own).     *)
THEOREM FailuresAreFaults == Spec => []OnlyBareNamesFail
<1>1. MoreInv => OnlyBareNamesFail
  BY DEF MoreInv, ErrorsExplained, OnlyBareNamesFail
<1> QED BY <1>1, MoreInvariance, PTL

(* A call that returns has freed its temporary name, unless the removal     *)
(* itself failed, whichever of its steps went wrong (durable.rs, the error  *)
(* path of durable_replace).                                                *)
THEOREM NoTempsLeft == Spec => TempsCleaned
<1>1. ASSUME IInv, MoreInv, Next, NEW c \in Calls,
             pc[c] \in Running, pc'[c] \in {"ok", "err"}, faults' = faults
      PROVE  entry'[temp_path_for(c)] = None
  <2>0. /\ pc \in [Calls -> {"idle"} \cup Running \cup Done] /\ faults \in Nat
        /\ entry \in [Names -> Files \cup {None}] /\ temp_path_for(c) \in Names
    BY <1>1, TempNames DEF IInv, TypeOK
  <2>1. ~SystemCrash
    <3>1. SystemCrash => pc'[c] = "dead"
      BY <1>1 DEF SystemCrash
    <3> QED BY <1>1, <3>1
  <2>2. \A d \in Calls : Disturb(d) => d = c
    BY <1>1, <2>0 DEF Disturb, StepFails, CleanupFails, Kill, Running
  <2>3. ~Disturb(c)
    BY <1>1, <2>0 DEF Disturb, StepFails, CleanupFails, Kill
  <2>4. PICK d \in Calls : CallStep(d)
    BY <1>1, <2>1, <2>2, <2>3 DEF Next
  <2>5. d = c
    BY <1>1, <2>0, <2>4 DEF CallStep, Create, Write, SyncFile, Rename, SyncParentDir,
       OperationRefused, Cleanup, Running
  <2>6. SyncParentDir(c) \/ Cleanup(c)
    BY <1>1, <2>0, <2>4, <2>5 DEF CallStep, Create, Write, SyncFile, Rename, OperationRefused
  <2>7. CASE SyncParentDir(c)
    BY <1>1, <2>7 DEF SyncParentDir, MoreInv, TempsFree
  <2>8. CASE Cleanup(c)
    BY <2>0, <2>8 DEF Cleanup
  <2> QED BY <2>6, <2>7, <2>8
<1>2. ASSUME UNCHANGED vars, NEW c \in Calls
      PROVE  ~(pc[c] \in Running /\ pc'[c] \in {"ok", "err"})
  BY <1>2 DEF vars, Running
<1>3. IInv /\ MoreInv /\ [Next]_vars =>
        [\A c \in Calls : /\ pc[c] \in Running /\ pc'[c] \in {"ok", "err"}
                          /\ faults' = faults
                          => entry'[temp_path_for(c)] = None]_vars
  BY <1>1, <1>2
<1> QED BY <1>3, Invariance, MoreInvariance, PTL DEF Spec, TempsCleaned

-----------------------------------------------------------------------------
(* Readers see only which file is behind a path, never how much of it.      *)
W(f) == IF f = None THEN None ELSE <<f, "full">>

Visible == [p \in Paths |-> W(entry[p])]
Durable == [p \in Paths |-> {W(f) : f \in onDisk[p]}]
Published == {c \in Calls : serial[c] > 0}
Outcome == [c \in Calls |-> IF pc[c] \in Done THEN pc[c] ELSE "pending"]

(* Whole files make the two views of FileStore functions of entry and       *)
(* onDisk alone, before and after a step.                                   *)
LEMMA SeenWhole ==
  /\ FinalPathComplete => /\ [p \in Paths |-> Behind(entry[p])] = Visible
                          /\ [p \in Paths |-> UNION {LeftBehind(f) : f \in onDisk[p]}] = Durable
  /\ FinalPathComplete' => /\ [p \in Paths |-> Behind(entry[p])]' = Visible'
                           /\ [p \in Paths |-> UNION {LeftBehind(f) : f \in onDisk[p]}]' = Durable'
<1>1. ASSUME FinalPathComplete
      PROVE  /\ [p \in Paths |-> Behind(entry[p])] = Visible
             /\ [p \in Paths |-> UNION {LeftBehind(f) : f \in onDisk[p]}] = Durable
  <2> DEFINE B(f) == IF f = None THEN None ELSE <<f, data[f]>>
             L(f) == IF f = None THEN {None} ELSE {<<f, d>> : d \in disk[f]}
  <2>1. ASSUME NEW p \in Paths, NEW f \in onDisk[p] \cup {entry[p]}
        PROVE  B(f) = W(f) /\ L(f) = {W(f)}
    <3>1. f # None => data[f] = "full" /\ disk[f] = {"full"}
      BY <1>1 DEF FinalPathComplete
    <3>2. f # None => {<<f, d>> : d \in disk[f]} = {<<f, "full">>}
      BY <3>1
    <3> QED BY <3>1, <3>2 DEF W
  <2>2. \A p \in Paths : /\ B(entry[p]) = W(entry[p])
                         /\ UNION {L(f) : f \in onDisk[p]} = {W(f) : f \in onDisk[p]}
    <3> HIDE DEF B, L
    <3> QED BY <2>1
  <2>3. /\ [p \in Paths |-> B(entry[p])] = [p \in Paths |-> W(entry[p])]
        /\ [p \in Paths |-> UNION {L(f) : f \in onDisk[p]}] = [p \in Paths |-> {W(f) : f \in onDisk[p]}]
    <3> HIDE DEF B, L
    <3> QED BY <2>2
  <2> QED BY <2>3, Zenon DEF Behind, LeftBehind, Visible, Durable
<1>2. ASSUME FinalPathComplete'
      PROVE  /\ [p \in Paths |-> Behind(entry[p])]' = Visible'
             /\ [p \in Paths |-> UNION {LeftBehind(f) : f \in onDisk[p]}]' = Durable'
  <2> DEFINE B(f) == IF f = None THEN None ELSE <<f, data'[f]>>
             L(f) == IF f = None THEN {None} ELSE {<<f, d>> : d \in disk'[f]}
  <2>1. ASSUME NEW p \in Paths, NEW f \in onDisk'[p] \cup {entry'[p]}
        PROVE  B(f) = W(f) /\ L(f) = {W(f)}
    <3>1. f # None => data'[f] = "full" /\ disk'[f] = {"full"}
      BY <1>2 DEF FinalPathComplete
    <3>2. f # None => {<<f, d>> : d \in disk'[f]} = {<<f, "full">>}
      BY <3>1
    <3> QED BY <3>1, <3>2 DEF W
  <2>2. \A p \in Paths : /\ B(entry'[p]) = W(entry'[p])
                         /\ UNION {L(f) : f \in onDisk'[p]} = {W(f) : f \in onDisk'[p]}
    <3> HIDE DEF B, L
    <3> QED BY <2>1
  <2>3. /\ [p \in Paths |-> B(entry'[p])] = [p \in Paths |-> W(entry'[p])]
        /\ [p \in Paths |-> UNION {L(f) : f \in onDisk'[p]}] = [p \in Paths |-> {W(f) : f \in onDisk'[p]}]
    <3> HIDE DEF B, L
    <3> QED BY <2>2
  <2> QED BY <2>3, Zenon DEF Behind, LeftBehind, Visible, Durable
<1> QED BY <1>1, <1>2

(* Initial states map to initial states.                                    *)
LEMMA FSInitial == Init => FS!FSInit
<1> SUFFICES ASSUME Init PROVE FS!FSInit
  OBVIOUS
<1>1. /\ [p \in Paths |-> Behind(entry[p])] = Visible
      /\ [p \in Paths |-> UNION {LeftBehind(f) : f \in onDisk[p]}] = Durable
  BY InitIInv, SeenWhole DEF IInv
<1>2. PICK old \in SUBSET Paths : entry = [n \in Names |-> IF n \in old THEN n ELSE None]
  BY DEF Init
<1>3. Visible = [p \in Paths |-> IF p \in old THEN <<p, "full">> ELSE None]
  BY <1>2, TempNames DEF Visible, W
<1>4. Durable = [p \in Paths |-> {Visible[p]}]
  BY TempNames DEF Init, Durable, Visible
<1>5. Published = {} /\ Outcome = [c \in Calls |-> "pending"]
  BY TempNames DEF Init, Published, Outcome, Done
<1> QED BY <1>1, <1>3, <1>4, <1>5 DEF FS!FSInit, FS!Whole, Published, Outcome

(* Steps that leave alone what final paths lead to: at most a call returns. *)
LEMMA QuietStep ==
  ASSUME IInv, IInv', NEW c \in Calls, NEW s, pc' = [pc EXCEPT ![c] = s],
         pc[c] \notin Done, s \notin Done \/ s \in {"err", "dead"},
         \A p \in Paths : entry'[p] = entry[p] /\ onDisk'[p] = onDisk[p],
         serial' = serial
  PROVE  UNCHANGED FS!fsVars \/ FS!GiveUp(c)
<1>1. Visible' = Visible /\ Durable' = Durable /\ Published' = Published
  BY DEF Visible, Durable, Published
<1>2. /\ [p \in Paths |-> Behind(entry[p])]' = [p \in Paths |-> Behind(entry[p])]
      /\ [p \in Paths |-> UNION {LeftBehind(f) : f \in onDisk[p]}]'
           = [p \in Paths |-> UNION {LeftBehind(f) : f \in onDisk[p]}]
  BY <1>1, SeenWhole DEF IInv
<1>3. \A d \in Calls : pc'[d] = IF d = c THEN s ELSE pc[d]
  BY DEF IInv, TypeOK
<1>4. CASE s \notin Done
  <2>1. Outcome' = Outcome
    BY <1>3, <1>4 DEF Outcome
  <2> QED BY <1>1, <1>2, <2>1 DEF FS!fsVars, Published, Outcome
<1>5. CASE s \in {"err", "dead"}
  <2>1. Outcome[c] = "pending" /\ Outcome' = [Outcome EXCEPT ![c] = s]
    BY <1>3, <1>5 DEF Outcome, Done
  <2> QED BY <1>1, <1>2, <1>5, <2>1 DEF FS!GiveUp, Published, Outcome
<1> QED BY <1>4, <1>5

(* The rename is the publication: with its temporary file goes a whole one. *)
LEMMA RenameIsPublish ==
  ASSUME IInv, MoreInv, IInv', NEW c \in Calls, Rename(c)
  PROVE  FS!Publish(c)
<1> DEFINE tmp == temp_path_for(c)
           p == Target[c]
<1>0. /\ tmp \in Names /\ tmp \notin Paths /\ c \in Files /\ c # None
      /\ p \in Paths /\ Paths \subseteq Names
  BY TempNames
<1>1. /\ pc \in [Calls -> {"idle"} \cup Running \cup Done]
      /\ entry \in [Names -> Files \cup {None}]
      /\ onDisk \in [Names -> SUBSET (Files \cup {None})]
      /\ serial \in [Files -> Nat] /\ renames \in Nat
  BY DEF IInv, TypeOK
<1>2. /\ pc[c] = "synced" /\ pc' = [pc EXCEPT ![c] = "renamed"] /\ entry[tmp] = c
      /\ serial' = [serial EXCEPT ![c] = renames + 1]
      /\ entry' = [entry EXCEPT ![tmp] = None, ![p] = c]
      /\ onDisk' = IF Windows
                   THEN [onDisk EXCEPT ![tmp] = {None}, ![p] = {c}]
                   ELSE [onDisk EXCEPT ![tmp] = @ \cup {None}, ![p] = @ \cup {c}]
  BY DEF Rename, IInv, TempsOwned, Preparing
<1>3. serial[c] = 0
  BY <1>2 DEF MoreInv, SerialFromRename, Preparing
<1>4. c \notin Published /\ Published' = Published \cup {c}
  <2>1. \A d \in Calls : d \in Files /\ serial'[d] = IF d = c THEN renames + 1 ELSE serial[d]
    BY <1>1, <1>2, TempNames
  <2> QED BY <1>1, <1>3, <2>1 DEF Published
<1>5. Outcome[c] = "pending" /\ Outcome' = Outcome
  BY <1>1, <1>2 DEF Outcome, Done
<1>6. Visible' = [Visible EXCEPT ![p] = <<c, "full">>]
  <2>1. \A q \in Paths : entry'[q] = IF q = p THEN c ELSE entry[q]
    BY <1>0, <1>1, <1>2
  <2> QED BY <1>0, <2>1 DEF Visible, W
<1>7. \/ Durable' = [Durable EXCEPT ![p] = @ \cup {<<c, "full">>}]
      \/ Durable' = [Durable EXCEPT ![p] = {<<c, "full">>}]
  <2>0. W(c) = <<c, "full">>
    BY <1>0 DEF W
  <2>1. CASE Windows
    <3>1. \A q \in Paths : onDisk'[q] = IF q = p THEN {c} ELSE onDisk[q]
      BY <1>0, <1>1, <1>2, <2>1
    <3>2. {W(f) : f \in {c}} = {<<c, "full">>}
      BY <2>0
    <3>3. Durable' = [q \in Paths |-> IF q = p THEN {<<c, "full">>} ELSE Durable[q]]
      BY <3>1, <3>2 DEF Durable
    <3> QED BY <1>0, <3>3 DEF Durable
  <2>2. CASE ~Windows
    <3>1. \A q \in Paths : onDisk'[q] = IF q = p THEN onDisk[q] \cup {c} ELSE onDisk[q]
      BY <1>0, <1>1, <1>2, <2>2
    <3>2. {W(f) : f \in onDisk[p] \cup {c}} = {W(f) : f \in onDisk[p]} \cup {<<c, "full">>}
      BY <2>0
    <3> QED BY <1>0, <3>1, <3>2 DEF Durable
  <2> QED BY <2>1, <2>2
<1>8. FinalPathComplete /\ FinalPathComplete'
  BY DEF IInv
<1> QED BY <1>4, <1>5, <1>6, <1>7, <1>8, SeenWhole DEF FS!Publish, FS!Whole, Published, Outcome

(* The directory sync is the acknowledgement.                               *)
LEMMA SyncIsAcknowledge ==
  ASSUME IInv, MoreInv, IInv', NEW c \in Calls, SyncParentDir(c)
  PROVE  FS!Acknowledge(c)
<1> DEFINE synced == IF Windows THEN {Target[c]} ELSE {p \in Paths : Parent[p] = Parent[Target[c]]}
<1>0. Target[c] \in Paths /\ Paths \subseteq Names
  BY TempNames
<1>1. /\ pc[c] = "renamed" /\ pc' = [pc EXCEPT ![c] = "ok"]
      /\ onDisk' = IF Windows THEN onDisk
                   ELSE [n \in Names |-> IF ParentOf(n) = Parent[Target[c]]
                                         THEN {entry[n]} ELSE onDisk[n]]
      /\ UNCHANGED <<entry, serial>>
  BY DEF SyncParentDir
<1>2. Outcome[c] = "pending" /\ Outcome' = [Outcome EXCEPT ![c] = "ok"]
  <2>1. \A d \in Calls : pc'[d] = IF d = c THEN "ok" ELSE pc[d]
    BY <1>1 DEF IInv, TypeOK
  <2> QED BY <1>1, <2>1 DEF Outcome, Done
<1>3. c \in Published /\ Published' = Published /\ Visible' = Visible
  BY <1>1 DEF MoreInv, SerialFromRename, Published, Visible
<1>4. synced \in SUBSET Paths /\ Target[c] \in synced
  BY <1>0
<1>5. \A p \in Paths : onDisk'[p] = IF p \in synced THEN {entry[p]} ELSE onDisk[p]
  <2>1. CASE Windows
    BY <1>0, <1>1, <2>1 DEF IInv, WriteThrough
  <2>2. CASE ~Windows
    <3>1. \A p \in Paths : ParentOf(p) = Parent[p]
      BY DEF ParentOf
    <3> QED BY <1>0, <1>1, <2>2, <3>1
  <2> QED BY <2>1, <2>2
<1>6. Durable' = [p \in Paths |-> IF p \in synced THEN {Visible[p]} ELSE Durable[p]]
  <2> HIDE DEF synced
  <2>1. \A p \in Paths : {W(f) : f \in onDisk'[p]}
                           = IF p \in synced THEN {Visible[p]} ELSE Durable[p]
    BY <1>5 DEF Durable, Visible
  <2> QED BY <2>1 DEF Durable
<1>7. FinalPathComplete /\ FinalPathComplete'
  BY DEF IInv
<1>8. \E S \in SUBSET Paths : /\ Target[c] \in S
                              /\ Durable' = [p \in Paths |-> IF p \in S THEN {Visible[p]} ELSE Durable[p]]
  <2> HIDE DEF synced
  <2> QED BY <1>4, <1>6
<1> DEFINE vis == [p \in Paths |-> Behind(entry[p])]
           dur == [p \in Paths |-> UNION {LeftBehind(f) : f \in onDisk[p]}]
<1>9. vis = Visible /\ dur = Durable /\ vis' = Visible' /\ dur' = Durable'
  BY <1>7, SeenWhole
<1>10. /\ vis' = vis
       /\ \E S \in SUBSET Paths :
            /\ Target[c] \in S
            /\ dur' = [p \in Paths |-> IF p \in S THEN {vis[p]} ELSE dur[p]]
  <2> HIDE DEF vis, dur
  <2> QED BY <1>3, <1>8, <1>9
<1> QED BY <1>2, <1>3, <1>10, Zenon DEF FS!Acknowledge, Published, Outcome

(* A crash gives each path one of the files it could come back with.        *)
LEMMA CrashIsCrash ==
  ASSUME IInv, IInv', SystemCrash
  PROVE  FS!Crash
<1> DEFINE killed == {c \in Calls : pc[c] \in Running}
<1>0. Paths \subseteq Names
  BY TempNames
<1>1. \A p \in Paths : Visible'[p] \in Durable[p] /\ Durable'[p] = {Visible'[p]}
  BY <1>0, CrashChoices DEF Visible, Durable
<1>2. Visible' \in [Paths -> UNION {Durable[p] : p \in Paths}]
  <2>1. \A p \in Paths : Visible'[p] \in UNION {Durable[q] : q \in Paths}
    BY <1>1
  <2>2. Visible' = [p \in Paths |-> Visible'[p]]
    BY DEF Visible
  <2> QED BY <2>1, <2>2
<1>3. Durable' = [p \in Paths |-> {Visible'[p]}]
  BY <1>1 DEF Durable
<1>4. /\ Published' = Published
      /\ killed \in SUBSET {c \in Calls : Outcome[c] = "pending"}
      /\ Outcome' = [c \in Calls |-> IF c \in killed THEN "dead" ELSE Outcome[c]]
  BY DEF SystemCrash, Published, Outcome, Running, Done
<1>5. /\ \E left \in [Paths -> UNION {Durable[p] : p \in Paths}] :
           (\A p \in Paths : left[p] \in Durable[p]) /\ Visible' = left
      /\ \E K \in SUBSET {c \in Calls : Outcome[c] = "pending"} :
           Outcome' = [c \in Calls |-> IF c \in K THEN "dead" ELSE Outcome[c]]
  <2> HIDE DEF killed
  <2> QED BY <1>1, <1>2, <1>4
<1>6. FinalPathComplete /\ FinalPathComplete'
  BY DEF IInv
<1> DEFINE vis == [p \in Paths |-> Behind(entry[p])]
           dur == [p \in Paths |-> UNION {LeftBehind(f) : f \in onDisk[p]}]
<1>7. vis = Visible /\ dur = Durable /\ vis' = Visible' /\ dur' = Durable'
  BY <1>6, SeenWhole
<1>8. /\ \E left \in [Paths -> UNION {dur[p] : p \in Paths}] :
           (\A p \in Paths : left[p] \in dur[p]) /\ vis' = left
      /\ dur' = [p \in Paths |-> {vis'[p]}]
  <2> HIDE DEF vis, dur
  <2> QED BY <1>3, <1>5, <1>7
<1> QED BY <1>4, <1>5, <1>8, Zenon DEF FS!Crash, Published, Outcome

(* Every step is a step of the file store, or one that readers cannot see.  *)
LEMMA FSStep ==
  ASSUME IInv, MoreInv, IInv', [Next]_vars
  PROVE  [FS!FSNext]_(FS!fsVars)
<1>0. pc \in [Calls -> {"idle"} \cup Running \cup Done] /\ Paths \subseteq Names
      /\ onDisk \in [Names -> SUBSET (Files \cup {None})]
      /\ entry \in [Names -> Files \cup {None}]
  BY TempNames DEF IInv, TypeOK
<1>1. CASE SystemCrash
  BY <1>1, CrashIsCrash DEF FS!FSNext
<1>2. ASSUME NEW c \in Calls, CallStep(c) \/ Disturb(c) PROVE [FS!FSNext]_(FS!fsVars)
  <2>0. temp_path_for(c) \in Names \ Paths
    BY TempNames
  <2>1. ASSUME NEW s, pc' = [pc EXCEPT ![c] = s], pc[c] \notin Done,
               s \notin Done \/ s \in {"err", "dead"},
               \A p \in Paths : entry'[p] = entry[p] /\ onDisk'[p] = onDisk[p],
               serial' = serial
        PROVE  [FS!FSNext]_(FS!fsVars)
    BY <2>1, QuietStep DEF FS!FSNext
  <2>2. CASE Create(c)
    BY <1>0, <2>0, <2>1, <2>2 DEF Create, Done
  <2>3. CASE Write(c)
    <3>1. PICK s \in {"writing", "written"} : pc' = [pc EXCEPT ![c] = s]
      BY <1>0, <2>3 DEF Write
    <3> QED BY <2>1, <2>3, <3>1 DEF Write, Done
  <2>4. CASE SyncFile(c)
    BY <2>1, <2>4 DEF SyncFile, Done
  <2>5. CASE Rename(c)
    BY <2>5, RenameIsPublish DEF FS!FSNext
  <2>6. CASE SyncParentDir(c)
    BY <2>6, SyncIsAcknowledge DEF FS!FSNext
  <2>7. CASE OperationRefused(c)
    <3>1. pc[c] \notin Done
      BY <2>7 DEF OperationRefused, Refused, Done
    <3> QED BY <2>1, <2>7, <3>1 DEF OperationRefused, Done
  <2>8. CASE Cleanup(c)
    BY <1>0, <2>0, <2>1, <2>8 DEF Cleanup, Done
  <2>9. CASE StepFails(c)
    BY <2>1, <2>9 DEF StepFails, Done
  <2>10. CASE CleanupFails(c)
    BY <2>1, <2>10 DEF CleanupFails, Done
  <2>11. CASE Kill(c)
    BY <2>1, <2>11 DEF Kill, Running, Done
  <2> QED BY <1>2, <2>2, <2>3, <2>4, <2>5, <2>6, <2>7, <2>8, <2>9, <2>10, <2>11
          DEF CallStep, Disturb
<1>3. CASE UNCHANGED vars
  BY <1>3 DEF vars, FS!fsVars, Behind, LeftBehind
<1> QED BY <1>1, <1>2, <1>3 DEF Next

(* To everyone who opens files by path, durable replace is a store whose    *)
(* paths switch between whole files in one step and keep what was           *)
(* acknowledged, for any calls, paths and I/O errors (durable.rs,           *)
(* durable_replace and durable_replace_with_writer).                        *)
THEOREM Implementation == Spec => ImplementsFileStore
<1>1. IInv /\ MoreInv /\ IInv' /\ [Next]_vars => [FS!FSNext]_(FS!fsVars)
  BY FSStep
<1> QED BY <1>1, FSInitial, Invariance, MoreInvariance, PTL DEF Spec, ImplementsFileStore, FS!FSSpec
=============================================================================
