------------------------ MODULE DurableReplaceProofs ------------------------
(***************************************************************************)
(* Proofs about DurableReplace, for any set of calls and paths, any number  *)
(* of I/O errors, and both builds.                                          *)
(*                                                                         *)
(* The inductive invariant says why the steps are in this order: a call     *)
(* owns its temporary file until the rename (TempsOwned), the file is       *)
(* complete and synced by then (SyncedBeforeRename), and nothing under a    *)
(* final path is still being written (FinalFilesPublished).                 *)
(***************************************************************************)
EXTENDS DurableReplace, TLAPS

Preparing == {"idle", "writing", "written", "synced"}

EntryOnDisk == \A n \in Names : entry[n] \in onDisk[n]

TempsOwned ==
  \A c \in Calls :
    /\ onDisk[temp_path_for(c)] \subseteq {None, c}
    /\ pc[c] \in Preparing \ {"idle"} => entry[temp_path_for(c)] = c

SyncedBeforeRename ==
  \A c \in Calls : pc[c] \in {"written", "synced"} =>
    /\ data[c] = "full"
    /\ pc[c] = "synced" => disk[c] = {"full"}

FinalFilesPublished ==
  \A p \in Paths, c \in Calls : c \in onDisk[p] => pc[c] \notin Preparing

RenamedIsVisible ==
  \A c \in Calls : pc[c] = "renamed" =>
    /\ entry[Target[c]] # None
    /\ serial[entry[Target[c]]] >= serial[c]

(* On Windows the rename is durable by itself.                              *)
WriteThrough == Windows => \A p \in Paths : onDisk[p] = {entry[p]}

SerialsBounded == \A f \in Files : serial[f] <= renames

IInv == /\ TypeOK
        /\ EntryOnDisk
        /\ TempsOwned
        /\ SyncedBeforeRename
        /\ FinalFilesPublished
        /\ RenamedIsVisible
        /\ SerialsBounded
        /\ WriteThrough
        /\ FinalPathComplete
        /\ AckedNeverReverts

(* Temporary names are distinct from each other and from the final paths.   *)
LEMMA TempNames ==
  /\ \A c \in Calls : temp_path_for(c) \in Names /\ temp_path_for(c) \notin Paths
  /\ \A c, d \in Calls : temp_path_for(c) = temp_path_for(d) => c = d
  /\ \A c \in Calls : Target[c] \in Paths /\ Target[c] \in Names /\ c \in Files
  /\ Paths \subseteq Names /\ Paths \subseteq Files
  /\ None \notin Files
<1>1. \A c \in Calls : temp_path_for(c) \in Temps
  BY DEF Temps
<1>2. \A c \in Calls : temp_path_for(c) \notin Paths
  BY <1>1, NamesAssumption
<1>3. \A c, d \in Calls : temp_path_for(c) = temp_path_for(d) => c = d
  BY DEF temp_path_for
<1> QED
  BY <1>1, <1>2, <1>3, CallsAssumption DEF Names, Files

(* The initial file system satisfies the inductive invariant.               *)
LEMMA InitIInv == Init => IInv
<1> SUFFICES ASSUME Init PROVE IInv
  OBVIOUS
<1>1. \A n \in Names : entry[n] \in {n, None} /\ (entry[n] # None => n \in Paths)
  BY DEF Init
<1>2. TypeOK
  BY <1>1, TempNames DEF Init, TypeOK, Contents, Files, Running, Done
<1>3. \A c \in Calls : onDisk[temp_path_for(c)] = {None}
  BY <1>1, TempNames DEF Init
<1>4. \A p \in Paths : onDisk[p] \cup {entry[p]} \subseteq {p, None}
  BY <1>1, TempNames DEF Init
<1>5. FinalPathComplete
  BY <1>4, TempNames DEF Init, FinalPathComplete
<1>6. FinalFilesPublished
  BY <1>4, CallsAssumption DEF FinalFilesPublished
<1> QED
  BY <1>1, <1>2, <1>3, <1>5, <1>6, TempNames DEF Init, IInv, EntryOnDisk,
     TempsOwned, SyncedBeforeRename, RenamedIsVisible, SerialsBounded,
     WriteThrough, AckedNeverReverts

(* A change of pc alone, that moves a call towards its return.              *)
LEMMA PcOnly ==
  ASSUME IInv, NEW c \in Calls, NEW s \in {"cleanup", "err", "dead"},
         pc' = [pc EXCEPT ![c] = s], faults' \in Nat,
         UNCHANGED <<entry, onDisk, data, disk, serial, renames>>
  PROVE  IInv'
<1>1. TypeOK' /\ EntryOnDisk' /\ SerialsBounded' /\ WriteThrough' /\ FinalPathComplete'
  BY DEF IInv, TypeOK, EntryOnDisk, SerialsBounded, WriteThrough, FinalPathComplete,
     Running, Done
<1>2. \A d \in Calls : pc'[d] = pc[d] \/ pc'[d] \in {"cleanup", "err", "dead"}
  BY DEF IInv, TypeOK
<1>3. TempsOwned' /\ SyncedBeforeRename' /\ FinalFilesPublished'
  BY <1>2 DEF IInv, TempsOwned, SyncedBeforeRename, FinalFilesPublished, Preparing
<1>4. RenamedIsVisible' /\ AckedNeverReverts'
  BY <1>2 DEF IInv, RenamedIsVisible, AckedNeverReverts
<1> QED
  BY <1>1, <1>3, <1>4 DEF IInv

(* A new temporary file is empty and on no final path.                      *)
LEMMA CreateIInv == ASSUME IInv, NEW c \in Calls, Create(c) PROVE IInv'
<1> DEFINE tmp == temp_path_for(c)
<1>1. tmp \in Names /\ tmp \notin Paths /\ c \in Files
  BY TempNames
<1>2. TypeOK'
  BY <1>1 DEF IInv, TypeOK, Create, Running
<1>3. \A p \in Paths : entry'[p] = entry[p] /\ onDisk'[p] = onDisk[p]
  BY <1>1, TempNames DEF IInv, TypeOK, Create
<1>4. EntryOnDisk'
  BY <1>1 DEF IInv, TypeOK, Create, EntryOnDisk
<1>5. \A d \in Calls : d # c => /\ temp_path_for(d) # tmp
                                /\ entry'[temp_path_for(d)] = entry[temp_path_for(d)]
                                /\ onDisk'[temp_path_for(d)] = onDisk[temp_path_for(d)]
                                /\ pc'[d] = pc[d]
  BY <1>1, TempNames DEF IInv, TypeOK, Create
<1>6. entry'[tmp] = c /\ onDisk'[tmp] = onDisk[tmp] \cup {c} /\ pc'[c] = "writing"
      /\ pc[c] = "idle"
  BY <1>1 DEF IInv, TypeOK, Create
<1>7. TempsOwned'
  BY <1>5, <1>6 DEF IInv, TempsOwned
<1>8. SyncedBeforeRename' /\ FinalFilesPublished' /\ RenamedIsVisible'
      /\ SerialsBounded' /\ WriteThrough' /\ FinalPathComplete' /\ AckedNeverReverts'
  BY <1>3, <1>5, <1>6, TempNames DEF IInv, Create, SyncedBeforeRename, Preparing,
     FinalFilesPublished, RenamedIsVisible, SerialsBounded, WriteThrough, FinalPathComplete,
     AckedNeverReverts
<1> QED
  BY <1>2, <1>4, <1>7, <1>8 DEF IInv

(* Writing changes only the call's own file, which no final path leads to.  *)
LEMMA WriteIInv == ASSUME IInv, NEW c \in Calls, Write(c) PROVE IInv'
<1>1. \A p \in Paths : c \notin onDisk[p]
  BY DEF IInv, FinalFilesPublished, Write, Preparing
<1>2. \A p \in Paths : entry[p] # c
  BY <1>1, TempNames DEF IInv, EntryOnDisk
<1>3. \A f \in Files : f # c => data'[f] = data[f] /\ disk'[f] = disk[f]
  BY TempNames DEF IInv, TypeOK, Write
<1>4. TypeOK'
  BY TempNames DEF IInv, TypeOK, Write, Contents, Running
<1>5. FinalPathComplete'
  <2> SUFFICES ASSUME NEW p \in Paths, NEW f \in onDisk[p] \cup {entry[p]}, f # None
               PROVE  data'[f] = "full" /\ disk'[f] = {"full"}
    BY DEF FinalPathComplete, Write
  <2>1. f # c /\ f \in Files
    BY <1>1, <1>2, TempNames DEF IInv, TypeOK
  <2> QED
    BY <2>1, <1>3 DEF IInv, FinalPathComplete
<1>6. SyncedBeforeRename'
  BY <1>3, TempNames DEF IInv, TypeOK, SyncedBeforeRename, Write
<1>7. EntryOnDisk' /\ TempsOwned' /\ FinalFilesPublished' /\ RenamedIsVisible'
      /\ SerialsBounded' /\ WriteThrough' /\ AckedNeverReverts'
  BY DEF IInv, TypeOK, Write, EntryOnDisk, TempsOwned, Preparing,
     FinalFilesPublished, RenamedIsVisible, SerialsBounded, WriteThrough, AckedNeverReverts
<1> QED
  BY <1>4, <1>5, <1>6, <1>7 DEF IInv

(* After the file sync the call's file is complete on disk as well.         *)
LEMMA SyncFileIInv == ASSUME IInv, NEW c \in Calls, SyncFile(c) PROVE IInv'
<1>1. entry[temp_path_for(c)] = c /\ data[c] = "full" /\ pc[c] = "written"
  BY DEF IInv, TempsOwned, SyncedBeforeRename, SyncFile, Preparing
<1>2. /\ disk' = [disk EXCEPT ![c] = {"full"}]
      /\ pc' = [pc EXCEPT ![c] = "synced"]
      /\ UNCHANGED <<entry, onDisk, data, serial, renames, faults>>
  BY <1>1 DEF SyncFile
<1>3. TypeOK'
  BY <1>2, TempNames DEF IInv, TypeOK, Contents, Running
<1>4. FinalPathComplete' /\ SyncedBeforeRename'
  BY <1>1, <1>2, TempNames DEF IInv, TypeOK, FinalPathComplete, SyncedBeforeRename
<1>5. EntryOnDisk' /\ TempsOwned' /\ FinalFilesPublished' /\ RenamedIsVisible'
      /\ SerialsBounded' /\ WriteThrough' /\ AckedNeverReverts'
  BY <1>1, <1>2 DEF IInv, TypeOK, EntryOnDisk, TempsOwned, Preparing,
     FinalFilesPublished, RenamedIsVisible, SerialsBounded, WriteThrough, AckedNeverReverts
<1> QED
  BY <1>3, <1>4, <1>5 DEF IInv

(* The rename publishes the call's own file, complete and synced, with a    *)
(* serial number above all others.                                          *)
LEMMA RenameIInv == ASSUME IInv, NEW c \in Calls, Rename(c) PROVE IInv'
<1> DEFINE tmp == temp_path_for(c)
           p == Target[c]
<1>1. /\ entry[tmp] = c /\ pc[c] = "synced"
      /\ data[c] = "full" /\ disk[c] = {"full"}
  BY DEF IInv, TempsOwned, SyncedBeforeRename, Rename, Preparing
<1>2. tmp \in Names /\ p \in Names /\ p \in Paths /\ tmp # p /\ c \in Files
  BY TempNames
<1>3. /\ entry' = [entry EXCEPT ![tmp] = None, ![p] = c]
      /\ renames' = renames + 1
      /\ serial' = [serial EXCEPT ![c] = renames + 1]
      /\ pc' = [pc EXCEPT ![c] = "renamed"]
      /\ UNCHANGED <<data, disk, faults>>
  BY <1>1 DEF Rename
<1>4. /\ onDisk' \in [Names -> SUBSET (Files \cup {None})]
      /\ c \in onDisk'[p] /\ onDisk'[p] \subseteq onDisk[p] \cup {c}
      /\ None \in onDisk'[tmp] /\ onDisk'[tmp] \subseteq onDisk[tmp] \cup {None}
      /\ \A n \in Names \ {tmp, p} : onDisk'[n] = onDisk[n]
  BY <1>1, <1>2 DEF IInv, TypeOK, Rename
<1>5. TypeOK'
  <2>1. entry' \in [Names -> Files \cup {None}]
    BY <1>2, <1>3 DEF IInv, TypeOK
  <2>2. pc' \in [Calls -> {"idle"} \cup Running \cup Done]
    BY <1>3 DEF IInv, TypeOK, Running
  <2>3. serial' \in [Files -> Nat] /\ renames' \in Nat
    <3>1. renames + 1 \in Nat /\ serial \in [Files -> Nat]
      BY DEF IInv, TypeOK
    <3> QED
      BY <3>1, <1>3
  <2> QED
    BY <2>1, <2>2, <2>3, <1>3, <1>4 DEF IInv, TypeOK
<1>6. EntryOnDisk'
  BY <1>2, <1>3, <1>4 DEF IInv, TypeOK, EntryOnDisk
<1>7. TempsOwned'
  <2> SUFFICES ASSUME NEW d \in Calls
               PROVE  /\ onDisk'[temp_path_for(d)] \subseteq {None, d}
                      /\ pc'[d] \in Preparing \ {"idle"} => entry'[temp_path_for(d)] = d
    BY DEF TempsOwned
  <2>1. CASE d = c
    BY <2>1, <1>3, <1>4 DEF IInv, TypeOK, TempsOwned, Preparing
  <2>2. CASE d # c
    <3>1. temp_path_for(d) \in Names \ {tmp, p}
      BY <2>2, TempNames
    <3> QED
      BY <2>2, <3>1, <1>3, <1>4 DEF IInv, TypeOK, TempsOwned
  <2> QED
    BY <2>1, <2>2
<1>8. SyncedBeforeRename'
  BY <1>3 DEF IInv, TypeOK, SyncedBeforeRename
<1>9. \A q \in Paths : onDisk'[q] \subseteq onDisk[q] \cup {c}
                     /\ entry'[q] \in {entry[q], c}
  BY <1>2, <1>3, <1>4, TempNames DEF IInv, TypeOK
<1>10. FinalFilesPublished'
  BY <1>3, <1>9 DEF IInv, TypeOK, FinalFilesPublished, Preparing
<1>11. FinalPathComplete'
  BY <1>1, <1>3, <1>9 DEF IInv, FinalPathComplete
<1>12. serial'[c] = renames + 1 /\ \A f \in Files \ {c} : serial'[f] = serial[f]
  BY <1>2, <1>3 DEF IInv, TypeOK
<1>13. SerialsBounded'
  BY <1>3, <1>12 DEF IInv, TypeOK, SerialsBounded
<1>17. WriteThrough'
  <2> SUFFICES ASSUME Windows, NEW q \in Paths PROVE onDisk'[q] = {entry'[q]}
    BY DEF WriteThrough
  <2>1. onDisk' = [onDisk EXCEPT ![tmp] = {None}, ![p] = {c}]
    BY <1>1 DEF Rename
  <2> QED
    BY <2>1, <1>2, <1>3, TempNames DEF IInv, TypeOK, WriteThrough
<1>14. \A f \in Files : serial'[f] \in Nat /\ serial'[f] >= serial[f]
                       /\ serial'[c] >= serial'[f]
  BY <1>12, <1>2 DEF IInv, TypeOK, SerialsBounded
<1>15. RenamedIsVisible'
  <2> SUFFICES ASSUME NEW d \in Calls, pc'[d] = "renamed"
               PROVE  /\ entry'[Target[d]] # None
                      /\ serial'[entry'[Target[d]]] >= serial'[d]
    BY DEF RenamedIsVisible
  <2>1. CASE Target[d] = p
    BY <2>1, <1>2, <1>3, <1>14, TempNames DEF IInv, TypeOK
  <2>2. CASE Target[d] # p
    <3>1. d # c /\ pc[d] = "renamed" /\ entry'[Target[d]] = entry[Target[d]]
      BY <2>2, <1>3, TempNames DEF IInv, TypeOK
    <3>2. entry[Target[d]] \in Files
      BY <3>1, TempNames DEF IInv, TypeOK, RenamedIsVisible
    <3> QED
      BY <3>1, <3>2, <1>12, <1>14, TempNames DEF IInv, TypeOK, RenamedIsVisible
  <2> QED
    BY <2>1, <2>2
<1>16. AckedNeverReverts'
  <2> SUFFICES ASSUME NEW d \in Calls, pc'[d] = "ok",
                      NEW f \in onDisk'[Target[d]] \cup {entry'[Target[d]]}
               PROVE  f # None /\ serial'[f] >= serial'[d]
    BY DEF AckedNeverReverts
  <2>1. d # c /\ pc[d] = "ok" /\ d \in Files
    BY <1>3, TempNames DEF IInv, TypeOK
  <2>2. CASE f = c
    BY <2>1, <2>2, <1>2, <1>14, TempNames
  <2>3. CASE f # c
    <3>1. f \in onDisk[Target[d]] \cup {entry[Target[d]]}
      BY <2>3, <1>9, TempNames
    <3>2. f # None /\ serial[f] >= serial[d]
      BY <2>1, <3>1 DEF IInv, AckedNeverReverts
    <3>3. f \in Files
      BY <3>1, <3>2, TempNames DEF IInv, TypeOK
    <3> QED
      BY <2>1, <2>3, <3>2, <3>3, <1>12
  <2> QED
    BY <2>2, <2>3
<1> QED
  BY <1>5, <1>6, <1>7, <1>8, <1>10, <1>11, <1>13, <1>15, <1>16, <1>17 DEF IInv

(* The directory sync collapses the choices for the path to the file that   *)
(* is visible there, which is the call's own or a later one.                *)
LEMMA SyncParentDirIInv == ASSUME IInv, NEW c \in Calls, SyncParentDir(c) PROVE IInv'
<1>1. /\ pc[c] = "renamed"
      /\ pc' = [pc EXCEPT ![c] = "ok"]
      /\ UNCHANGED <<entry, data, disk, serial, renames, faults>>
  BY DEF SyncParentDir
<1>2. /\ onDisk' \in [Names -> SUBSET (Files \cup {None})]
      /\ \A n \in Names : entry[n] \in onDisk'[n] /\ onDisk'[n] \subseteq onDisk[n]
  BY DEF IInv, TypeOK, EntryOnDisk, SyncParentDir
<1>3. TypeOK' /\ EntryOnDisk'
  BY <1>1, <1>2 DEF IInv, TypeOK, EntryOnDisk, Done
<1>4. TempsOwned' /\ FinalFilesPublished' /\ FinalPathComplete'
  BY <1>1, <1>2, TempNames DEF IInv, TypeOK, TempsOwned, Preparing,
     FinalFilesPublished, FinalPathComplete
<1>5. SyncedBeforeRename' /\ RenamedIsVisible' /\ SerialsBounded'
  BY <1>1 DEF IInv, TypeOK, SyncedBeforeRename, RenamedIsVisible, SerialsBounded
<1>7. WriteThrough'
  BY <1>1 DEF IInv, WriteThrough, SyncParentDir
<1>6. AckedNeverReverts'
  <2> SUFFICES ASSUME NEW d \in Calls, pc'[d] = "ok",
                      NEW f \in onDisk'[Target[d]] \cup {entry[Target[d]]}
               PROVE  f # None /\ serial[f] >= serial[d]
    BY <1>1 DEF AckedNeverReverts
  <2>1. CASE d # c
    BY <2>1, <1>1, <1>2, TempNames DEF IInv, TypeOK, AckedNeverReverts
  <2>2. CASE d = c /\ Windows
    <3>1. onDisk'[Target[c]] = {entry[Target[c]]}
      BY <2>2, TempNames DEF SyncParentDir, IInv, WriteThrough
    <3> QED
      BY <2>2, <3>1, <1>1 DEF IInv, RenamedIsVisible
  <2>3. CASE d = c /\ ~Windows
    <3>1. ParentOf(Target[c]) = Parent[Target[c]]
      BY TempNames DEF ParentOf
    <3>2. onDisk'[Target[c]] = {entry[Target[c]]}
      BY <2>3, <3>1, TempNames DEF SyncParentDir
    <3> QED
      BY <2>3, <3>2, <1>1 DEF IInv, RenamedIsVisible
  <2> QED
    BY <2>1, <2>2, <2>3
<1> QED
  BY <1>3, <1>4, <1>5, <1>6, <1>7 DEF IInv

(* The error path touches the call's own temporary name only.               *)
LEMMA CleanupIInv == ASSUME IInv, NEW c \in Calls, Cleanup(c) PROVE IInv'
<1> DEFINE tmp == temp_path_for(c)
<1>1. tmp \in Names /\ tmp \notin Paths
  BY TempNames
<1>2. /\ pc[c] = "cleanup" /\ pc' = [pc EXCEPT ![c] = "err"]
      /\ entry' = [entry EXCEPT ![tmp] = None]
      /\ onDisk' = [onDisk EXCEPT ![tmp] = @ \cup {None}]
      /\ UNCHANGED <<data, disk, serial, renames, faults>>
  BY DEF Cleanup
<1>3. TypeOK' /\ EntryOnDisk'
  BY <1>1, <1>2 DEF IInv, TypeOK, EntryOnDisk, Done
<1>4. TempsOwned'
  BY <1>2, TempNames DEF IInv, TypeOK, TempsOwned, Preparing
<1>5. \A p \in Paths : entry'[p] = entry[p] /\ onDisk'[p] = onDisk[p]
  BY <1>1, <1>2, TempNames DEF IInv, TypeOK
<1>6. SyncedBeforeRename' /\ FinalFilesPublished' /\ RenamedIsVisible'
      /\ SerialsBounded' /\ WriteThrough' /\ FinalPathComplete' /\ AckedNeverReverts'
  BY <1>2, <1>5, TempNames DEF IInv, TypeOK, SyncedBeforeRename, Preparing,
     FinalFilesPublished, RenamedIsVisible, SerialsBounded, WriteThrough, FinalPathComplete,
     AckedNeverReverts
<1> QED
  BY <1>3, <1>4, <1>6 DEF IInv

(* After a crash every name leads to something it could lead to on disk,    *)
(* and a file that was synced complete is complete.                         *)
LEMMA CrashChoices ==
  ASSUME IInv, SystemCrash
  PROVE  /\ entry' \in [Names -> Files \cup {None}]
         /\ \A n \in Names : entry'[n] \in onDisk[n] /\ onDisk'[n] = {entry'[n]}
         /\ data' \in [Files -> Contents]
         /\ \A f \in Files : disk[f] = {"full"} =>
              /\ data[f] = "full" => data'[f] = "full"
              /\ disk'[f] = {data'[f]}
<1> DEFINE names == {n \in Names : onDisk[n] # {entry[n]}}
           files == {f \in Files : disk[f] # {data[f]}}
<1>1. PICK left \in [names -> UNION {onDisk[n] : n \in names}] :
        /\ \A n \in names : left[n] \in onDisk[n]
        /\ entry' = [n \in Names |-> IF n \in names THEN left[n] ELSE entry[n]]
  BY DEF SystemCrash
<1>2. PICK kept \in [files -> Contents] :
        /\ \A f \in files : kept[f] \in disk[f]
        /\ data' = [f \in Files |-> IF f \in files THEN kept[f] ELSE data[f]]
  BY DEF SystemCrash
<1>3. \A n \in Names : entry'[n] \in onDisk[n]
  BY <1>1 DEF IInv, EntryOnDisk
<1>4. entry' \in [Names -> Files \cup {None}]
  BY <1>1, <1>3 DEF IInv, TypeOK
<1>5. data' \in [Files -> Contents]
  BY <1>2 DEF IInv, TypeOK
<1>6. \A f \in Files : disk[f] = {"full"} /\ data[f] = "full" => data'[f] = "full"
  BY <1>2
<1> QED
  BY <1>3, <1>4, <1>5, <1>6 DEF SystemCrash

(* A crash picks among choices that all satisfy the invariant.              *)
LEMMA SystemCrashIInv == ASSUME IInv, SystemCrash PROVE IInv'
<1>1. /\ \A c \in Calls : pc'[c] = IF pc[c] \in Running THEN "dead" ELSE pc[c]
      /\ UNCHANGED <<serial, renames, faults>>
  BY DEF SystemCrash
<1>2. TypeOK'
  <2>1. pc' \in [Calls -> {"idle"} \cup Running \cup Done]
    BY DEF SystemCrash, IInv, TypeOK, Done
  <2>2. onDisk' \in [Names -> SUBSET (Files \cup {None})]
    <3>1. onDisk' = [n \in Names |-> {entry'[n]}]
      BY DEF SystemCrash
    <3>2. \A n \in Names : entry'[n] \in Files \cup {None}
      BY CrashChoices
    <3> QED
      BY <3>1, <3>2
  <2>3. disk' \in [Files -> SUBSET Contents]
    <3>1. disk' = [f \in Files |-> {data'[f]}]
      BY DEF SystemCrash
    <3>2. \A f \in Files : data'[f] \in Contents
      BY CrashChoices
    <3> QED
      BY <3>1, <3>2
  <2> QED
    BY <2>1, <2>2, <2>3, <1>1, CrashChoices DEF IInv, TypeOK
<1>3. EntryOnDisk' /\ SerialsBounded' /\ WriteThrough'
  BY <1>1, CrashChoices, TempNames DEF IInv, EntryOnDisk, SerialsBounded, WriteThrough
<1>4. TempsOwned'
  BY <1>1, CrashChoices, TempNames DEF IInv, TypeOK, TempsOwned, Preparing, Running
<1>5. SyncedBeforeRename' /\ RenamedIsVisible'
  BY <1>1 DEF SyncedBeforeRename, RenamedIsVisible, Running
<1>6. FinalFilesPublished'
  BY <1>1, CrashChoices, TempNames DEF IInv, FinalFilesPublished, Preparing, Running
<1>7. FinalPathComplete'
  <2> SUFFICES ASSUME NEW p \in Paths, entry'[p] # None
               PROVE  data'[entry'[p]] = "full" /\ disk'[entry'[p]] = {"full"}
    BY CrashChoices, TempNames DEF FinalPathComplete
  <2>1. entry'[p] \in Files /\ entry'[p] \in onDisk[p]
    BY CrashChoices, TempNames
  <2> QED
    BY <2>1, CrashChoices DEF IInv, FinalPathComplete
<1>8. AckedNeverReverts'
  BY <1>1, CrashChoices, TempNames DEF IInv, AckedNeverReverts, Running
<1> QED
  BY <1>2, <1>3, <1>4, <1>5, <1>6, <1>7, <1>8 DEF IInv

(* Every step of the protocol and of its environment keeps the invariant.   *)
LEMMA NextIInv == IInv /\ [Next]_vars => IInv'
<1> SUFFICES ASSUME IInv, [Next]_vars PROVE IInv'
  OBVIOUS
<1>1. CASE SystemCrash
  BY <1>1, SystemCrashIInv
<1>2. ASSUME NEW c \in Calls, CallStep(c) PROVE IInv'
  <2>1. CASE OperationRefused(c)
    BY <2>1, PcOnly DEF OperationRefused, IInv, TypeOK
  <2> QED
    BY <1>2, <2>1, CreateIInv, WriteIInv, SyncFileIInv, RenameIInv,
       SyncParentDirIInv, CleanupIInv DEF CallStep
<1>3. ASSUME NEW c \in Calls, Disturb(c) PROVE IInv'
  <2> faults + 1 \in Nat
    BY DEF IInv, TypeOK
  <2>1. CASE StepFails(c)
    BY <2>1, PcOnly DEF StepFails
  <2>2. CASE CleanupFails(c)
    BY <2>2, PcOnly DEF CleanupFails
  <2>3. CASE Kill(c)
    BY <2>3, PcOnly DEF Kill, IInv, TypeOK
  <2> QED
    BY <1>3, <2>1, <2>2, <2>3 DEF Disturb
<1>4. CASE UNCHANGED vars
  BY <1>4 DEF vars, IInv, TypeOK, EntryOnDisk, TempsOwned, SyncedBeforeRename,
     FinalFilesPublished, RenamedIsVisible, SerialsBounded, WriteThrough, FinalPathComplete,
     AckedNeverReverts
<1> QED
  BY <1>1, <1>2, <1>3, <1>4 DEF Next

(* The inductive invariant holds in every reachable state.                  *)
THEOREM Invariance == Spec => []IInv
  BY InitIInv, NextIInv, PTL DEF Spec

(* The next two action properties rest on the same invariant.               *)
LEMMA StepKeepsDurable ==
  IInv /\ [Next]_vars =>
    \A p \in Paths : None \notin onDisk[p] => None \notin onDisk'[p]
<1> SUFFICES ASSUME IInv, [Next]_vars, NEW p \in Paths, None \notin onDisk[p]
             PROVE  None \notin onDisk'[p]
  OBVIOUS
<1>1. CASE SystemCrash
  BY <1>1, CrashChoices, TempNames
<1>2. ASSUME NEW c \in Calls, CallStep(c) PROVE None \notin onDisk'[p]
  <2>1. temp_path_for(c) \in Names /\ p \in Names /\ temp_path_for(c) # p
    BY TempNames
  <2>2. c # None
    BY TempNames
  <2>3. CASE Create(c) \/ Cleanup(c)
    BY <2>1, <2>2, <2>3 DEF Create, Cleanup, IInv, TypeOK
  <2>4. CASE Rename(c)
    <3>1. entry[temp_path_for(c)] # None
      BY <2>4 DEF Rename
    <3> QED
      BY <2>1, <2>4, <3>1 DEF Rename, IInv, TypeOK
  <2>5. CASE SyncParentDir(c)
    BY <2>1, <2>5 DEF SyncParentDir, IInv, TypeOK, EntryOnDisk
  <2>6. CASE Write(c) \/ SyncFile(c) \/ OperationRefused(c)
    BY <2>6 DEF Write, SyncFile, OperationRefused
  <2> QED
    BY <1>2, <2>3, <2>4, <2>5, <2>6 DEF CallStep
<1>3. ASSUME NEW c \in Calls, Disturb(c) PROVE None \notin onDisk'[p]
  BY <1>3 DEF Disturb, StepFails, CleanupFails, Kill
<1>4. CASE UNCHANGED vars
  BY <1>4 DEF vars
<1> QED
  BY <1>1, <1>2, <1>3, <1>4 DEF Next

(* No step changes the bytes of a file that a final path leads to.          *)
LEMMA StepKeepsBytes ==
  IInv /\ [Next]_vars =>
    \A p \in Paths : entry[p] # None => data'[entry[p]] = data[entry[p]]
<1> SUFFICES ASSUME IInv, [Next]_vars, NEW p \in Paths, entry[p] # None
             PROVE  data'[entry[p]] = data[entry[p]]
  OBVIOUS
<1>1. entry[p] \in Files /\ data[entry[p]] = "full" /\ disk[entry[p]] = {"full"}
  BY TempNames DEF IInv, TypeOK, FinalPathComplete
<1>2. CASE SystemCrash
  BY <1>1, <1>2, CrashChoices
<1>3. ASSUME NEW c \in Calls, Write(c) PROVE data'[entry[p]] = data[entry[p]]
  <2>1. entry[p] # c
    BY <1>3, TempNames DEF IInv, EntryOnDisk, FinalFilesPublished, Preparing, Write
  <2> QED
    BY <1>1, <1>3, <2>1, TempNames DEF IInv, TypeOK, Write
<1>4. ASSUME NEW c \in Calls, CallStep(c) PROVE data'[entry[p]] = data[entry[p]]
  BY <1>3, <1>4 DEF CallStep, Create, SyncFile, Rename, SyncParentDir,
     OperationRefused, Cleanup
<1>5. ASSUME NEW c \in Calls, Disturb(c) PROVE data'[entry[p]] = data[entry[p]]
  BY <1>5 DEF Disturb, StepFails, CleanupFails, Kill
<1>6. CASE UNCHANGED vars
  BY <1>6 DEF vars
<1> QED
  BY <1>2, <1>4, <1>5, <1>6 DEF Next

(* Every variable of the protocol keeps its type.                           *)
THEOREM TypeCorrect == Spec => []TypeOK
  BY Invariance, PTL DEF IInv

(* Whatever is at a final path, now or after a crash, is a complete file:   *)
(* the assumption durable.rs grants to every reader.                        *)
THEOREM CompleteFiles == Spec => []FinalPathComplete
  BY Invariance, PTL DEF IInv

(* A publication acknowledged with Ok survives crashes and is replaced only *)
(* by later ones: the success condition of durable_replace.                 *)
THEOREM AckedIsDurable == Spec => []AckedNeverReverts
  BY Invariance, PTL DEF IInv

(* No error path, kill or crash takes the last durable file from a path.    *)
THEOREM DurableStays == Spec => DurablePathStays
  BY Invariance, StepKeepsDurable, PTL DEF Spec, DurablePathStays

(* A reader that holds a published file open never sees its bytes change.   *)
THEOREM BytesStay == Spec => PublishedBytesNeverChange
  BY Invariance, StepKeepsBytes, PTL DEF Spec, PublishedBytesNeverChange
=============================================================================
