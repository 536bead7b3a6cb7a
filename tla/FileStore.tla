------------------------------ MODULE FileStore ------------------------------
(***************************************************************************)
(* What durable replace promises to everyone who opens files by path, and   *)
(* what the modules above it may assume: a path leads to one complete file  *)
(* or to none, it changes in one step, and a system crash takes it back at  *)
(* most to where it was before a publication that was not acknowledged.     *)
(* Temporary files, partial writes and syncs do not exist at this level;    *)
(* DurableReplace implements it.                                            *)
(***************************************************************************)
EXTENDS Naturals

CONSTANTS
  Calls,    \* publications, each of one file
  Paths,    \* final paths
  Target,   \* Target[c] : the path of publication c
  None      \* no file

(* The complete file of a publication, or the one that a path held before.  *)
Whole(f) == <<f, "full">>

VARIABLES
  visible,    \* visible[p] : what opening p yields
  durable,    \* durable[p] : what opening p may yield after a system crash
  published,  \* the publications that have been visible
  outcome     \* outcome[c] : "pending", "ok", "err" or "dead"

fsVars == <<visible, durable, published, outcome>>

FSInit ==
  /\ \E old \in SUBSET Paths :
       visible = [p \in Paths |-> IF p \in old THEN Whole(p) ELSE None]
  /\ durable = [p \in Paths |-> {visible[p]}]
  /\ published = {}
  /\ outcome = [c \in Calls |-> "pending"]

(* The new file takes the place of the old one; it is durable at once where *)
(* the rename is write-through, and otherwise may still be undone.          *)
Publish(c) ==
  /\ outcome[c] = "pending"
  /\ c \notin published
  /\ published' = published \cup {c}
  /\ visible' = [visible EXCEPT ![Target[c]] = Whole(c)]
  /\ \/ durable' = [durable EXCEPT ![Target[c]] = @ \cup {Whole(c)}]
     \/ durable' = [durable EXCEPT ![Target[c]] = {Whole(c)}]
  /\ UNCHANGED outcome

(* Ok is returned once the path is durable as it is now, and with it the    *)
(* paths of the same directory.                                             *)
Acknowledge(c) ==
  /\ outcome[c] = "pending"
  /\ c \in published
  /\ \E synced \in SUBSET Paths :
       /\ Target[c] \in synced
       /\ durable' = [p \in Paths |-> IF p \in synced THEN {visible[p]} ELSE durable[p]]
  /\ outcome' = [outcome EXCEPT ![c] = "ok"]
  /\ UNCHANGED <<visible, published>>

(* A publication fails or its process is killed, before or after it has     *)
(* become visible.                                                          *)
GiveUp(c) ==
  /\ outcome[c] = "pending"
  /\ \E end \in {"err", "dead"} : outcome' = [outcome EXCEPT ![c] = end]
  /\ UNCHANGED <<visible, durable, published>>

Crash ==
  /\ \E left \in [Paths -> UNION {durable[p] : p \in Paths}] :
       /\ \A p \in Paths : left[p] \in durable[p]
       /\ visible' = left
  /\ durable' = [p \in Paths |-> {visible'[p]}]
  /\ \E killed \in SUBSET {c \in Calls : outcome[c] = "pending"} :
       outcome' = [c \in Calls |-> IF c \in killed THEN "dead" ELSE outcome[c]]
  /\ UNCHANGED published

FSNext ==
  Crash \/ \E c \in Calls : Publish(c) \/ Acknowledge(c) \/ GiveUp(c)

FSSpec == FSInit /\ [][FSNext]_fsVars
=============================================================================
