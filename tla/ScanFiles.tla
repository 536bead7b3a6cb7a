------------------------------ MODULE ScanFiles ------------------------------
(***************************************************************************)
(* A table registered on a local COVE file and the queries that scan it     *)
(* (cove-datafusion: bootstrap/local.rs, bootstrap/covi.rs, decode.rs,      *)
(* decode/cache.rs, decode/morsels.rs, range_reader.rs), while the file and *)
(* its sidecars are replaced by durable publications, of which a process    *)
(* sees what FileStore promises.                                            *)
(*                                                                         *)
(* Registration reads the length of the file, opens it for its metadata,    *)
(* and then reads each sidecar and the file itself again by path, to        *)
(* validate the one against the other.  A query opens the file by path at   *)
(* the first read of one of its partitions and keeps the descriptor, which  *)
(* all partitions share, as they do the segment metadata read through it.   *)
(* A file is immutable once published, so a step reads all it needs from an *)
(* open descriptor; every access by path is a step of its own.              *)
(***************************************************************************)
EXTENDS ProofCache

CONSTANTS
  Calls,        \* publications, each of one file
  Paths,        \* the paths they replace
  Target,       \* Target[c] : the path of publication c
  None,         \* no file
  DataPath,     \* the path the table is registered on
  SidecarPath,  \* SidecarPath["cache"], SidecarPath["covi"]
  Length,       \* Length[f]   : bytes of the data file f
  Layout,       \* Layout[f]   : what a segment header of f says of the segment
  BuiltFor,     \* BuiltFor[s] : the data file the sidecar file s was built for
  Queries,      \* queries, each with one ScanExecutionCache
  QueryOf       \* QueryOf[t]  : the query that task t is a partition of

(* The files that may be at a path, each with an identity of its own        *)
(* (FileIdentity: file id, length and footer checksum).                     *)
FilesAt(p) == {c \in Calls : Target[c] = p} \cup {p}
DataFiles == FilesAt(DataPath)
SidecarFiles == UNION {FilesAt(SidecarPath[k]) : k \in {"cache", "covi"}}

ASSUME ScanAssumption == /\ DataPath \in Paths
                         /\ SidecarPath \in [{"cache", "covi"} -> Paths]
                         /\ DOMAIN Length = DataFiles
                         /\ DOMAIN Layout = DataFiles
                         /\ BuiltFor \in [SidecarFiles -> DataFiles]
                         /\ QueryOf \in [Tasks -> Queries]

VARIABLES
  visible,   \* visible[p] : the file that opening p yields, or None
  replaced,  \* publications so far
  stage,     \* how far the registration has got
  file_len,  \* the length that was read first
  reg,       \* the file whose metadata is registered
  sidecar,   \* the sidecar file that has been read and is to be validated
  attached,  \* the sidecar files that were accepted
  since,     \* history: files at the path since the registration began
  opened,    \* opened[q]  : the file behind the descriptor of query q
  segment,   \* segment[q] : the file whose segment metadata q has cached
  pages      \* pages[t]   : the file that t has read its pages from

storeVars == <<visible, replaced>>
tableVars == <<stage, file_len, reg, sidecar, attached, since>>
queryVars == <<opened, segment, pages>>
scanVars == <<storeVars, proofVars, tableVars, queryVars>>

Stages == {"new", "sized", "cache", "cache_read", "covi", "covi_read",
           "registered", "failed"}

ScanInit ==
  /\ \E old \in SUBSET Paths :
       visible = [p \in Paths |-> IF p \in old THEN p ELSE None]
  /\ replaced = {}
  /\ EmptyCache
  /\ pc = [t \in Tasks |-> "idle"]
  /\ stage = "new"
  /\ file_len = 0
  /\ reg = None
  /\ sidecar = None
  /\ attached = {}
  /\ since = {}
  /\ opened = [q \in Queries |-> None]
  /\ segment = [q \in Queries |-> None]
  /\ pages = [t \in Tasks |-> None]

-----------------------------------------------------------------------------
(* fs::metadata: the length, or no such file.                               *)
StatFile ==
  LET f == visible[DataPath] IN
  /\ stage = "new"
  /\ IF f = None THEN stage' = "failed" /\ UNCHANGED <<file_len, since>>
     ELSE stage' = "sized" /\ file_len' = Length[f] /\ since' = {f}
  /\ UNCHANGED <<storeVars, proofVars, queryVars, reg, sidecar, attached>>

(* bootstrap_header_footer through a reader that opens the file at its      *)
(* first read: refused unless the postscript records the length read first. *)
Bootstrap ==
  LET f == visible[DataPath] IN
  /\ stage = "sized"
  /\ IF f # None /\ Length[f] = file_len
     THEN stage' = "cache" /\ reg' = f
     ELSE stage' = "failed" /\ UNCHANGED reg
  /\ UNCHANGED <<storeVars, proofVars, queryVars, file_len, sidecar, attached, since>>

AfterSidecar(k) == IF k = "cache" THEN "covi" ELSE "registered"

(* fs::read of the sidecar; a table without one goes on.                    *)
ReadSidecar(k) ==
  LET s == visible[SidecarPath[k]] IN
  /\ stage = k
  /\ sidecar' = s
  /\ stage' = IF s = None THEN AfterSidecar(k)
              ELSE IF k = "cache" THEN "cache_read" ELSE "covi_read"
  /\ UNCHANGED <<storeVars, proofVars, queryVars, file_len, reg, attached, since>>

AcceptsReread(s, f) == BuiltFor[s] = f    \* mutant: validated against f alone

(* The context a sidecar is validated in has the identity of the registered *)
(* file and the digest of the file f just read again.                       *)
Accepts(s, f) == BuiltFor[s] = reg /\ BuiltFor[s] = f

CheckCacheInsists ==    \* mutant: a stale sidecar fails the registration
  LET f == visible[DataPath] IN
  /\ stage = "cache_read"
  /\ IF Accepts(sidecar, f)
     THEN attached' = attached \cup {sidecar} /\ stage' = AfterSidecar("cache")
     ELSE stage' = "failed" /\ UNCHANGED attached
  /\ UNCHANGED <<storeVars, proofVars, queryVars, file_len, reg, sidecar, since>>

(* The coverage cache: the file must be readable again.                     *)
CheckCache ==
  LET f == visible[DataPath] IN
  /\ stage = "cache_read"
  /\ stage' = IF f = None THEN "failed" ELSE AfterSidecar("cache")
  /\ attached' = IF f # None /\ Accepts(sidecar, f)
                 THEN attached \cup {sidecar} ELSE attached
  /\ UNCHANGED <<storeVars, proofVars, queryVars, file_len, reg, sidecar, since>>

(* The COVE-I index: the identity alone is checked when it is not.          *)
CheckCovi ==
  LET f == IF visible[DataPath] = None THEN reg ELSE visible[DataPath] IN
  /\ stage = "covi_read"
  /\ stage' = AfterSidecar("covi")
  /\ attached' = IF Accepts(sidecar, f) THEN attached \cup {sidecar} ELSE attached
  /\ UNCHANGED <<storeVars, proofVars, queryVars, file_len, reg, sidecar, since>>

Register ==
  \/ StatFile \/ Bootstrap \/ CheckCache \/ CheckCovi
  \/ \E k \in {"cache", "covi"} : ReadSidecar(k)

-----------------------------------------------------------------------------
local_reader_anew(q) == visible[DataPath]    \* mutant: a reader per read

(* The file behind the reader of query q, which the first read opens.       *)
local_reader(q) == IF opened[q] = None THEN visible[DataPath] ELSE opened[q]

SegmentFrom(q) == IF segment[q] = None THEN local_reader(q) ELSE segment[q]

ReadSegmentWaits(t) ==    \* mutant: waits for the partition that reads it
  LET q == QueryOf[t] IN
  /\ stage = "registered"
  /\ pc[t] = "idle"
  /\ segment[q] # None
  /\ Goto(t, "segment")
  /\ UNCHANGED <<storeVars, tableVars, queryVars, entries, next_epoch, validated>>

(* read_segment_metadata: cached for the query, or read and compared with   *)
(* what the registered segment index says; a path that is not a file any    *)
(* more is refused before that.                                             *)
ReadSegment(t) ==
  LET q == QueryOf[t]
      f == SegmentFrom(q)
  IN
  /\ stage = "registered"
  /\ pc[t] = "idle"
  /\ opened' = [opened EXCEPT ![q] = IF segment[q] = None THEN f ELSE @]
  /\ IF visible[DataPath] # None /\ Layout[f] = Layout[reg]
     THEN segment' = [segment EXCEPT ![q] = f] /\ Goto(t, "segment")
     ELSE Goto(t, "corrupt") /\ UNCHANGED segment
  /\ UNCHANGED <<storeVars, tableVars, pages, entries, next_epoch, validated>>

(* The pages at the places the segment metadata gives.                      *)
ReadPages(t) ==
  LET q == QueryOf[t] IN
  /\ pc[t] = "segment"
  /\ opened' = [opened EXCEPT ![q] = local_reader(q)]
  /\ pages' = [pages EXCEPT ![t] = local_reader(q)]
  /\ Goto(t, "decoded")
  /\ UNCHANGED <<storeVars, tableVars, segment, entries, next_epoch, validated>>

ScanStep(t) ==
  \/ ReadSegment(t) \/ ReadPages(t)
  \/ ExportStep(t) /\ UNCHANGED <<storeVars, tableVars, queryVars>>

-----------------------------------------------------------------------------
(* A durable publication takes its place at its path, as FileStore has it:  *)
(* in one step, at most once, and never leaving the path empty.  `since`    *)
(* keeps what came to the data path once a registration has begun.          *)
Replace(c) ==
  /\ c \notin replaced
  /\ visible' = [visible EXCEPT ![Target[c]] = c]
  /\ replaced' = replaced \cup {c}
  /\ since' = IF since = {} \/ Target[c] # DataPath THEN since ELSE since \cup {c}
  /\ UNCHANGED <<proofVars, queryVars, stage, file_len, reg, sidecar, attached>>

ScanNext ==
  \/ Register
  \/ \E t \in Tasks : ScanStep(t)
  \/ \E c \in Calls : Replace(c)

(* Registration runs to its end, and the engine polls every partition.      *)
ScanFairness ==
  /\ WF_scanVars(Register)
  /\ \A t \in Tasks : WF_scanVars(ScanStep(t))

ScanSpec == ScanInit /\ [][ScanNext]_scanVars /\ ScanFairness

-----------------------------------------------------------------------------
ScanTypeOK ==
  /\ visible \in [Paths -> Calls \cup Paths \cup {None}]
  /\ replaced \subseteq Calls
  /\ stage \in Stages
  /\ file_len \in {0} \cup {Length[f] : f \in DataFiles}
  /\ reg \in DataFiles \cup {None}
  /\ sidecar \in SidecarFiles \cup {None}
  /\ attached \subseteq SidecarFiles
  /\ since \subseteq DataFiles
  /\ opened \in [Queries -> DataFiles \cup {None}]
  /\ segment \in [Queries -> DataFiles \cup {None}]
  /\ pages \in [Tasks -> DataFiles \cup {None}]
  /\ pc \in [Tasks -> {"idle", "segment", "corrupt"} \cup Exporting \cup Finished]
  /\ DOMAIN entries \subseteq Pages
  /\ \A k \in DOMAIN entries : entries[k] \in 1 .. next_epoch
  /\ next_epoch \in 0 .. MaxEpoch
  /\ validated \subseteq Pages \X Rows

(* "A LocalFileRangeReader is bound to one immutable COVE file snapshot":   *)
(* whatever is published meanwhile, no partition of a query pairs the       *)
(* segment metadata of one file with the pages of another.                  *)
OneFilePerQuery ==
  \A t \in Tasks : pages[t] # None => pages[t] = segment[QueryOf[t]]

(* A sidecar is used for pruning with the file it was built for only, also  *)
(* when the file or the sidecar changes in the middle of the registration.  *)
SidecarIsForTable == \A s \in attached : BuiltFor[s] = reg

(* A registration fails, or a scan fails on or reads another file than the  *)
(* registered one, only when the path was replaced after the registration   *)
(* began or was empty then.                                                 *)
OnlyReplacementDisturbs ==
  \/ stage = "failed"
  \/ \E t \in Tasks : pc[t] = "corrupt" \/ pages[t] \notin {None, reg}
  => Cardinality(since) # 1

(* Every partition of every query on a registered table ends.               *)
ScansFinish ==
  (stage = "registered") ~> \A t \in Tasks : pc[t] \in Finished \cup {"corrupt"}
=============================================================================
