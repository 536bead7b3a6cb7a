---------------------------- MODULE DeltaPublish ----------------------------
(***************************************************************************)
(* Publication of a delta artifact and of the manifest that makes it        *)
(* visible (durable_publish_delta_then_manifest): two durable replaces, the *)
(* second only after the first has returned Ok.  Readers open the manifest  *)
(* and then the delta it names, without any lock (the loading order of      *)
(* load_validated_delta_snapshot), and verify the delta against the length  *)
(* and digest that the manifest carries.                                    *)
(***************************************************************************)
EXTENDS DurableReplace

CONSTANTS
  Manifests,  \* the calls that publish a manifest; the others publish deltas
  DeltaOf,    \* DeltaOf[m] : the call that publishes the delta m names
  Readers

Deltas == Calls \ Manifests

ASSUME PublishAssumption ==
  /\ Manifests \subseteq Calls
  /\ DeltaOf \in [Manifests -> Deltas]
  /\ \A m, n \in Manifests : DeltaOf[m] = DeltaOf[n] => m = n
  /\ \A d \in Deltas : \E m \in Manifests : DeltaOf[m] = d
  /\ None \notin Readers

VARIABLES
  stopped,  \* publications whose process is gone between its two calls
  rpc,      \* rpc[r]  : "idle", "manifest" (manifest read), "ok" or "err"
  held      \* held[r] : the manifest r has read, or None

pubVars == <<vars, stopped, rpc, held>>

-----------------------------------------------------------------------------
PubInit == /\ Init
           /\ stopped = {}
           /\ rpc = [r \in Readers |-> "idle"]
           /\ held = [r \in Readers |-> None]

MayStartAtOnce(c) ==    \* mutant: the two replaces are not ordered
  \E m \in Manifests : c \in {m, DeltaOf[m]} /\ m \notin stopped

MayStartFresh(c) ==    \* mutant: an existing manifest is not replaced
  \E m \in Manifests :
    /\ c \in {m, DeltaOf[m]}
    /\ Target[m] # Target[DeltaOf[m]]
    /\ m \notin stopped
    /\ c = m => pc[DeltaOf[m]] = "ok" /\ entry[Target[m]] = None

(* The two calls of a publication: none for equal paths, the delta first,   *)
(* the manifest once `?` has let the delta's Ok pass.                       *)
MayStart(c) ==
  \E m \in Manifests :
    /\ c \in {m, DeltaOf[m]}
    /\ Target[m] # Target[DeltaOf[m]]
    /\ m \notin stopped
    /\ c = m => pc[DeltaOf[m]] = "ok"

(* A step of either call, with its errors and its kill.                     *)
PublishStep(c) ==
  /\ pc[c] = "idle" => MayStart(c)
  /\ CallStep(c)
  /\ UNCHANGED <<stopped, rpc, held>>

PublishDisturb(c) ==
  /\ pc[c] = "idle" => MayStart(c)
  /\ Disturb(c)
  /\ UNCHANGED <<stopped, rpc, held>>

(* The process is killed between the two calls.                             *)
KillBetween(m) ==
  /\ pc[DeltaOf[m]] = "ok" /\ pc[m] = "idle" /\ m \notin stopped
  /\ stopped' = stopped \cup {m}
  /\ UNCHANGED <<vars, rpc, held>>

(* A system crash also ends the publications between their calls, and the   *)
(* readers.                                                                 *)
CrashAll ==
  /\ SystemCrash
  /\ stopped' = stopped \cup {m \in Manifests : pc[DeltaOf[m]] # "idle"}
  /\ rpc' = [r \in Readers |-> "idle"]
  /\ held' = [r \in Readers |-> None]

ReadAnything(r, p) ==    \* mutant: the file is not checked to be a manifest
  /\ rpc[r] # "manifest"
  /\ entry[p] # None
  /\ rpc' = [rpc EXCEPT ![r] = "manifest"]
  /\ held' = [held EXCEPT ![r] = entry[p]]
  /\ UNCHANGED <<vars, stopped>>

(* A reader starts (again) and reads whatever manifest is at path p.        *)
ReadManifest(r, p) ==
  /\ rpc[r] # "manifest"
  /\ entry[p] \in Manifests
  /\ rpc' = [rpc EXCEPT ![r] = "manifest"]
  /\ held' = [held EXCEPT ![r] = entry[p]]
  /\ UNCHANGED <<vars, stopped>>

(* verify_delta_artifact_ref_bytes: length and digest tell files apart.     *)
DigestMatches(r) ==
  LET d == DeltaOf[held[r]] IN entry[Target[d]] = d /\ data[d] = "full"

(* Later it reads the delta by the path that the manifest gives.            *)
ReadDelta(r) ==
  /\ rpc[r] = "manifest"
  /\ rpc' = [rpc EXCEPT ![r] = IF DigestMatches(r) THEN "ok" ELSE "err"]
  /\ UNCHANGED <<vars, stopped, held>>

PubNext ==
  \/ CrashAll
  \/ \E c \in Calls : PublishStep(c) \/ PublishDisturb(c)
  \/ \E m \in Manifests : KillBetween(m)
  \/ \E r \in Readers : ReadDelta(r) \/ \E p \in Paths : ReadManifest(r, p)

(* As in DurableReplace: a process that is alive takes its next step.       *)
PubFairness == \A c \in Calls : WF_pubVars(PublishStep(c))

PubSpec == PubInit /\ [][PubNext]_pubVars /\ PubFairness

-----------------------------------------------------------------------------
PubTypeOK == /\ TypeOK
             /\ stopped \subseteq Manifests
             /\ rpc \in [Readers -> {"idle", "manifest", "ok", "err"}]
             /\ held \in [Readers -> Manifests \cup {None}]
             /\ \A r \in Readers : rpc[r] # "idle" => held[r] # None

(* The manifest is the visibility point: wherever a manifest can be found,  *)
(* now or after a crash at any moment, its delta's path holds the delta it  *)
(* was published with, or one that was renamed over it later.               *)
ManifestNeverDangles ==
  \A m \in Manifests, p \in Paths : m \in onDisk[p] \cup {entry[p]} =>
    LET d == DeltaOf[m] IN
    \A f \in onDisk[Target[d]] \cup {entry[Target[d]]} :
      /\ f # None
      /\ serial[f] >= serial[d]
      /\ data[f] = "full"

(* A reader that opened any manifest finds its delta, however late it looks *)
(* and whatever was published, failed or crashed in between, unless another *)
(* call has since renamed a file over that delta's path: never where delta  *)
(* paths are not reused.                                                    *)
ReaderErrMeansOverwritten ==
  \A r \in Readers : rpc[r] = "err" =>
    LET d == DeltaOf[held[r]] IN
    \E c \in Calls : Target[c] = Target[d] /\ serial[c] > serial[d]

(* A publication whose delta is durable goes on to its manifest, unless its *)
(* process is gone.                                                         *)
ManifestFollows ==
  \A m \in Manifests : (pc[DeltaOf[m]] = "ok") ~> (pc[m] \in Done \/ m \in stopped)
=============================================================================
