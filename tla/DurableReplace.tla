--------------------------- MODULE DurableReplace ---------------------------
(***************************************************************************)
(* The durable-replace protocol of cove-core/src/durable.rs: every file the *)
(* project publishes (archives, deltas, manifests, sidecars, reports) goes *)
(* through it.  A call writes a sibling temporary file, syncs it, renames it *)
(* over the final path and syncs the parent directory; the first error is   *)
(* returned after a best-effort removal of the temporary file.              *)
(*                                                                         *)
(* The file system is external.  It is modelled the way a writer has to     *)
(* think of it: next to what running processes see (entry, data) stands     *)
(* what a system crash may leave behind (onDisk, disk), a set that grows    *)
(* with every change and collapses to one value at the matching fsync.      *)
(***************************************************************************)
EXTENDS Naturals, FiniteSets

CONSTANTS
  Calls,      \* calls of durable_replace, by any thread of any process
  Paths,      \* final paths
  Target,     \* Target[c] : the final path of call c
  Parent,     \* Parent[p] : what Path::parent yields for p
  EmptyPath,  \* the parent "" of a bare file name such as "snapshot.cove"
  None,       \* no directory entry
  Windows,    \* TRUE for the cfg(windows) build
  MaxFaults   \* bound: I/O errors the environment injects

ASSUME CallsAssumption == /\ Calls \cap Paths = {}
                          /\ Target \in [Calls -> Paths]
                          /\ None \notin Calls \cup Paths
                          /\ DOMAIN Parent = Paths
                          /\ Windows \in BOOLEAN
                          /\ MaxFaults \in Nat

(* A file is named by what created it: a call, or, for the file that was at *)
(* a final path before any call, that path.                                 *)
Files == Calls \cup Paths

temp_path_shared(c) == <<Target[c]>>    \* mutant: a suffix without the counter

(* The sibling temporary path.  The process id, clock and process-wide      *)
(* counter in its suffix make it unique to the call.                        *)
temp_path_for(c) == <<Target[c], c>>

Temps == {temp_path_for(c) : c \in Calls}
Names == Paths \cup Temps

ASSUME NamesAssumption == Paths \cap Temps = {} /\ None \notin Names

(* The directory a name lives in; a temporary path is a sibling.            *)
ParentOf(n) == IF n \in Paths THEN Parent[n] ELSE Parent[n[1]]

Contents == {"empty", "partial", "full"}

VARIABLES
  pc,       \* pc[c]     : how far call c has got
  entry,    \* entry[n]  : the file name n leads to, or None
  onDisk,   \* onDisk[n] : what n may lead to after a system crash
  data,     \* data[f]   : how much of file f has been written
  disk,     \* disk[f]   : how much of f a system crash may leave
  serial,   \* serial[f] : history: the number of the rename that published f
  renames,  \* history   : renames so far
  faults    \* injected I/O errors so far

vars == <<pc, entry, onDisk, data, disk, serial, renames, faults>>

Running == {"writing", "written", "synced", "renamed", "cleanup"}
Done == {"ok", "err", "dead"}

-----------------------------------------------------------------------------
(* A final path is free or holds a complete, durable file.                  *)
Init ==
  /\ pc = [c \in Calls |-> "idle"]
  /\ \E old \in SUBSET Paths :
       entry = [n \in Names |-> IF n \in old THEN n ELSE None]
  /\ onDisk = [n \in Names |-> {entry[n]}]
  /\ data = [f \in Files |-> IF f \in Paths THEN "full" ELSE "empty"]
  /\ disk = [f \in Files |-> {data[f]}]
  /\ serial = [f \in Files |-> 0]
  /\ renames = 0
  /\ faults = 0

(* write_new_file: create_new refuses a name that is taken.                 *)
Create(c) ==
  LET tmp == temp_path_for(c) IN
  /\ pc[c] = "idle"
  /\ entry[tmp] = None
  /\ entry' = [entry EXCEPT ![tmp] = c]
  /\ onDisk' = [onDisk EXCEPT ![tmp] = @ \cup {c}]
  /\ pc' = [pc EXCEPT ![c] = "writing"]
  /\ UNCHANGED <<data, disk, serial, renames, faults>>

WriteInPlace(c) ==    \* mutant: an existing final file is truncated and rewritten
  LET f == IF entry[Target[c]] = None THEN c ELSE entry[Target[c]]
      more == IF data[f] = "partial" THEN "full" ELSE "partial"
  IN
  /\ pc[c] = "writing"
  /\ data' = [data EXCEPT ![f] = more]
  /\ disk' = [disk EXCEPT ![f] = @ \cup {more}]
  /\ pc' = [pc EXCEPT ![c] = IF more = "full" THEN "written" ELSE @]
  /\ UNCHANGED <<entry, onDisk, serial, renames, faults>>

(* write_all, or the caller's writer callback, in two chunks.               *)
Write(c) ==
  /\ pc[c] = "writing"
  /\ LET more == IF data[c] = "empty" THEN "partial" ELSE "full" IN
       /\ data' = [data EXCEPT ![c] = more]
       /\ disk' = [disk EXCEPT ![c] = @ \cup {more}]
       /\ pc' = [pc EXCEPT ![c] = IF more = "full" THEN "written" ELSE @]
  /\ UNCHANGED <<entry, onDisk, serial, renames, faults>>

SyncFileSkipped(c) ==    \* mutant: rename without the file sync
  /\ pc[c] = "written"
  /\ pc' = [pc EXCEPT ![c] = "synced"]
  /\ UNCHANGED <<entry, onDisk, data, disk, serial, renames, faults>>

(* sync_file: fsync of whatever file the temporary path leads to (the       *)
(* writer variant syncs its open handle, the same file while the temporary  *)
(* name is the call's own).                                                 *)
SyncFile(c) ==
  LET f == entry[temp_path_for(c)] IN
  /\ pc[c] = "written"
  /\ f # None
  /\ disk' = [disk EXCEPT ![f] = {data[f]}]
  /\ pc' = [pc EXCEPT ![c] = "synced"]
  /\ UNCHANGED <<entry, onDisk, data, serial, renames, faults>>

(* rename_durable: fs::rename, or MoveFileExW with write-through.           *)
Rename(c) ==
  LET tmp == temp_path_for(c)
      f == entry[tmp]
      p == Target[c]
  IN
  /\ pc[c] = "synced"
  /\ f # None
  /\ entry' = [entry EXCEPT ![tmp] = None, ![p] = f]
  /\ onDisk' = IF Windows
               THEN [onDisk EXCEPT ![tmp] = {None}, ![p] = {f}]
               ELSE [onDisk EXCEPT ![tmp] = @ \cup {None}, ![p] = @ \cup {f}]
  /\ renames' = renames + 1
  /\ serial' = [serial EXCEPT ![f] = renames']
  /\ pc' = [pc EXCEPT ![c] = "renamed"]
  /\ UNCHANGED <<data, disk, faults>>

(* sync_parent_dir can open the parent: never for a bare name, whose parent *)
(* is the empty path; on Windows nothing is opened.                         *)
CanOpenParent(p) == Windows \/ Parent[p] # EmptyPath

SyncParentDirBestEffort(c) ==    \* mutant: the fsync error is swallowed
  /\ pc[c] = "renamed"
  /\ pc' = [pc EXCEPT ![c] = "ok"]
  /\ UNCHANGED <<entry, onDisk, data, disk, serial, renames, faults>>

(* sync_parent_dir: fsync makes every entry of the directory durable.       *)
SyncParentDir(c) ==
  /\ pc[c] = "renamed"
  /\ CanOpenParent(Target[c])
  /\ onDisk' = IF Windows THEN onDisk
               ELSE [n \in Names |-> IF ParentOf(n) = Parent[Target[c]]
                                     THEN {entry[n]} ELSE onDisk[n]]
  /\ pc' = [pc EXCEPT ![c] = "ok"]
  /\ UNCHANGED <<entry, data, disk, serial, renames, faults>>

(* The `?` of each step: any of them may fail with an I/O error.            *)
StepFails(c) ==
  /\ faults < MaxFaults
  /\ pc[c] \in {"idle", "writing", "written", "synced", "renamed"}
  /\ pc' = [pc EXCEPT ![c] = "cleanup"]
  /\ faults' = faults + 1
  /\ UNCHANGED <<entry, onDisk, data, disk, serial, renames>>

(* The operations that cannot succeed: create_new on a taken name, opening  *)
(* or renaming a temporary path that is gone, opening the empty path.       *)
Refused(c) ==
  \/ pc[c] = "idle" /\ entry[temp_path_for(c)] # None
  \/ pc[c] \in {"written", "synced"} /\ entry[temp_path_for(c)] = None
  \/ pc[c] = "renamed" /\ ~CanOpenParent(Target[c])

OperationRefused(c) ==
  /\ Refused(c)
  /\ pc' = [pc EXCEPT ![c] = "cleanup"]
  /\ UNCHANGED <<entry, onDisk, data, disk, serial, renames, faults>>

CleanupFinal(c) ==    \* mutant: the error path removes the final path
  /\ pc[c] = "cleanup"
  /\ entry' = [entry EXCEPT ![Target[c]] = None]
  /\ onDisk' = [onDisk EXCEPT ![Target[c]] = @ \cup {None}]
  /\ pc' = [pc EXCEPT ![c] = "err"]
  /\ UNCHANGED <<data, disk, serial, renames, faults>>

CleanupForgotten(c) ==    \* mutant: the temporary file is left behind
  /\ pc[c] = "cleanup"
  /\ pc' = [pc EXCEPT ![c] = "err"]
  /\ UNCHANGED <<entry, onDisk, data, disk, serial, renames, faults>>

CleanupInsists(c) ==    \* mutant: the removal is retried until it succeeds
  LET tmp == temp_path_for(c) IN
  /\ pc[c] = "cleanup"
  /\ entry[tmp] # None
  /\ entry' = [entry EXCEPT ![tmp] = None]
  /\ onDisk' = [onDisk EXCEPT ![tmp] = @ \cup {None}]
  /\ pc' = [pc EXCEPT ![c] = "err"]
  /\ UNCHANGED <<data, disk, serial, renames, faults>>

(* The error path: remove the temporary file, if it is there, and return.   *)
Cleanup(c) ==
  LET tmp == temp_path_for(c) IN
  /\ pc[c] = "cleanup"
  /\ entry' = [entry EXCEPT ![tmp] = None]
  /\ onDisk' = [onDisk EXCEPT ![tmp] = @ \cup {None}]
  /\ pc' = [pc EXCEPT ![c] = "err"]
  /\ UNCHANGED <<data, disk, serial, renames, faults>>

(* The removal is best effort: its own error is dropped.                    *)
CleanupFails(c) ==
  /\ pc[c] = "cleanup"
  /\ faults < MaxFaults
  /\ pc' = [pc EXCEPT ![c] = "err"]
  /\ faults' = faults + 1
  /\ UNCHANGED <<entry, onDisk, data, disk, serial, renames>>

(* The process of a call is killed; the file system goes on.                *)
Kill(c) ==
  /\ pc[c] \in Running
  /\ pc' = [pc EXCEPT ![c] = "dead"]
  /\ UNCHANGED <<entry, onDisk, data, disk, serial, renames, faults>>

(* The machine stops: every running call dies, and each name and file comes *)
(* back as one of the things it may be on disk.  Without a running call it  *)
(* can still undo the unsynced rename of one that failed or was killed.     *)
SystemCrash ==
  LET names == {n \in Names : onDisk[n] # {entry[n]}}
      files == {f \in Files : disk[f] # {data[f]}}
  IN
  /\ pc' = [c \in Calls |-> IF pc[c] \in Running THEN "dead" ELSE pc[c]]
  /\ \E left \in [names -> UNION {onDisk[n] : n \in names}] :
       /\ \A n \in names : left[n] \in onDisk[n]
       /\ entry' = [n \in Names |-> IF n \in names THEN left[n] ELSE entry[n]]
  /\ \E kept \in [files -> Contents] :
       /\ \A f \in files : kept[f] \in disk[f]
       /\ data' = [f \in Files |-> IF f \in files THEN kept[f] ELSE data[f]]
  /\ onDisk' = [n \in Names |-> {entry'[n]}]
  /\ disk' = [f \in Files |-> {data'[f]}]
  /\ UNCHANGED <<serial, renames, faults>>

(* The steps of the calling thread, in program order.                       *)
CallStep(c) ==
  \/ Create(c) \/ Write(c) \/ SyncFile(c) \/ Rename(c) \/ SyncParentDir(c)
  \/ OperationRefused(c) \/ Cleanup(c)

(* What the environment does to a call.                                     *)
Disturb(c) == StepFails(c) \/ CleanupFails(c) \/ Kill(c)

Next == SystemCrash \/ \E c \in Calls : CallStep(c) \/ Disturb(c)

(* A thread inside a call keeps running until the call returns; errors,     *)
(* kills and crashes are never required to happen.                          *)
Fairness == \A c \in Calls : WF_vars(CallStep(c))

Spec == Init /\ [][Next]_vars /\ Fairness

-----------------------------------------------------------------------------
TypeOK ==
  /\ pc \in [Calls -> {"idle"} \cup Running \cup Done]
  /\ entry \in [Names -> Files \cup {None}]
  /\ onDisk \in [Names -> SUBSET (Files \cup {None})]
  /\ data \in [Files -> Contents]
  /\ disk \in [Files -> SUBSET Contents]
  /\ serial \in [Files -> Nat]
  /\ renames \in Nat
  /\ faults \in Nat

(* "Readers may assume that any file at the final path is structurally      *)
(* complete" (module comment of durable.rs): now, and after a crash at any  *)
(* moment.                                                                  *)
FinalPathComplete ==
  \A p \in Paths : \A f \in onDisk[p] \cup {entry[p]} :
    f # None => data[f] = "full" /\ disk[f] = {"full"}

(* A call that returned Ok stays published: neither running readers nor a   *)
(* reader after a crash can find a file that was renamed earlier, or none.  *)
AckedNeverReverts ==
  \A c \in Calls : pc[c] = "ok" =>
    \A f \in onDisk[Target[c]] \cup {entry[Target[c]]} :
      f # None /\ serial[f] >= serial[c]

(* Once a crash cannot leave a final path empty, nothing can any more: no   *)
(* error path, kill or crash takes the last durable file away.              *)
DurablePathStays ==
  [][\A p \in Paths : None \notin onDisk[p] => None \notin onDisk'[p]]_vars

(* The bytes behind a final path do not change while a reader has the file  *)
(* open: a replacement is a new file, never a rewrite of the old one.       *)
PublishedBytesNeverChange ==
  [][\A p \in Paths : entry[p] # None => data'[entry[p]] = data[entry[p]]]_vars

(* A call fails only when an I/O operation failed: what durable.rs cannot   *)
(* carry out by itself is nothing.                                          *)
ErrMeansFault == (\E c \in Calls : pc[c] = "err") => faults > 0

(* The same where the directory of the path can be opened at all.          *)
OnlyBareNamesFail ==
  \A c \in Calls : pc[c] = "err" /\ CanOpenParent(Target[c]) => faults > 0

(* A call leaves its temporary file behind only when its process dies or    *)
(* when the removal itself fails: whichever of its steps went wrong, its    *)
(* temporary name is free when it returns.                                  *)
TempsCleaned ==
  [][\A c \in Calls :
       /\ pc[c] \in Running /\ pc'[c] \in {"ok", "err"}
       /\ faults' = faults
       => entry'[temp_path_for(c)] = None]_vars

(* Every call that has started returns, or dies with its process.           *)
CallsReturn == \A c \in Calls : (pc[c] = "writing") ~> (pc[c] \in Done)

-----------------------------------------------------------------------------
(* What readers find behind a directory entry, and what a crash may leave.  *)
Behind(f) == IF f = None THEN None ELSE <<f, data[f]>>
LeftBehind(f) == IF f = None THEN {None} ELSE {<<f, d>> : d \in disk[f]}

FS == INSTANCE FileStore WITH
  visible <- [p \in Paths |-> Behind(entry[p])],
  durable <- [p \in Paths |-> UNION {LeftBehind(f) : f \in onDisk[p]}],
  published <- {c \in Calls : serial[c] > 0},
  outcome <- [c \in Calls |-> IF pc[c] \in Done THEN pc[c] ELSE "pending"]

(* To readers, durable replace is an atomic file store: whatever the steps, *)
(* errors, kills and crashes, a path only ever switches between whole files *)
(* and an acknowledged one is durable.                                      *)
ImplementsFileStore == FS!FSSpec
=============================================================================
