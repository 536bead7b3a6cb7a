----------------------------- MODULE ProofCache -----------------------------
(***************************************************************************)
(* The cache of UTF-8 proofs of a registered table (Utf8ProofCache in       *)
(* cove-datafusion/src/decode/cache.rs) and the export of string pages that *)
(* uses it (decode/materialize.rs).  A scan task asks whether its page has  *)
(* a proof; if so the rows it selects are exported unchecked, otherwise     *)
(* they are validated while they are exported and the page is recorded.     *)
(* The tasks of all queries on the table share the cache; each of its two   *)
(* operations holds both of its locks throughout.                           *)
(***************************************************************************)
EXTENDS Naturals, FiniteSets

CONSTANTS
  Tasks,     \* scan tasks, each with one page of strings to export
  Pages,     \* pages that can earn a proof, by their Utf8ProofKey
  Rows,      \* the non-null rows of a page
  PageOf,    \* PageOf[t]   : the page of task t
  Selected,  \* Selected[t] : the rows of it that t selects
  Invalid,   \* pairs <<page, row>> whose bytes are not UTF-8
  Capacity,  \* most proofs kept (4096 in the code)
  MaxEpoch   \* the last value of the clock (u64::MAX in the code)

ASSUME ProofAssumption == /\ PageOf \in [Tasks -> Pages]
                          /\ Selected \in [Tasks -> SUBSET Rows]
                          /\ Invalid \subseteq Pages \X Rows
                          /\ Capacity \in Nat \ {0}
                          /\ MaxEpoch \in Nat

VARIABLES
  entries,     \* epoch of the last use of each proof
  next_epoch,  \* the clock
  pc,          \* pc[t] : how far task t has got
  validated    \* history: rows that an export has validated

proofVars == <<entries, next_epoch, pc, validated>>

Exporting == {"decoded", "trusted", "strict", "validated"}
Finished == {"recorded", "unchecked", "err"}

(* Utf8ProofCache::default, for the lifetime of the registered table.       *)
EmptyCache == entries = << >> /\ next_epoch = 0 /\ validated = {}

ProofInit == EmptyCache /\ pc = [t \in Tasks |-> "decoded"]

-----------------------------------------------------------------------------
ClockUnchecked == FALSE    \* mutant: the addition may pass the last value

(* checked_add on the clock would overflow.                                 *)
ClockAtEnd == next_epoch = MaxEpoch

Goto(t, label) == pc' = [pc EXCEPT ![t] = label]

(* contains: a miss changes nothing.                                        *)
ContainsMisses(t) ==
  /\ pc[t] = "decoded"
  /\ PageOf[t] \notin DOMAIN entries
  /\ Goto(t, "strict")
  /\ UNCHANGED <<entries, next_epoch, validated>>

ContainsAndForgets(t) ==    \* mutant: a hit does not count as a use
  /\ pc[t] = "decoded"
  /\ PageOf[t] \in DOMAIN entries
  /\ Goto(t, "trusted")
  /\ UNCHANGED <<entries, next_epoch, validated>>

(* contains: a hit counts as a use.                                         *)
ContainsHits(t) ==
  /\ pc[t] = "decoded"
  /\ PageOf[t] \in DOMAIN entries
  /\ ~ClockAtEnd
  /\ next_epoch' = next_epoch + 1
  /\ entries' = [entries EXCEPT ![PageOf[t]] = next_epoch']
  /\ Goto(t, "trusted")
  /\ UNCHANGED validated

(* contains or insert: the clock cannot advance, and the scan fails.        *)
ClockFails(t) ==
  /\ ClockAtEnd
  /\ \/ pc[t] = "decoded" /\ PageOf[t] \in DOMAIN entries
     \/ pc[t] = "validated"
  /\ Goto(t, "err")
  /\ UNCHANGED <<entries, next_epoch, validated>>

(* export_arrow_column under TrustedPageProof: nothing is validated.        *)
ExportTrusted(t) ==
  /\ pc[t] = "trusted"
  /\ Goto(t, "unchecked")
  /\ UNCHANGED <<entries, next_epoch, validated>>

(* export_arrow_column under Strict: the selected rows are validated while  *)
(* they are copied, and the first bad one fails the scan.                   *)
ExportStrict(t) ==
  LET rows == {PageOf[t]} \X Selected[t] IN
  /\ pc[t] = "strict"
  /\ IF rows \cap Invalid = {}
     THEN validated' = validated \cup rows /\ Goto(t, "validated")
     ELSE Goto(t, "err") /\ UNCHANGED validated
  /\ UNCHANGED <<entries, next_epoch>>

(* entries with page k used at epoch e.                                     *)
Stamped(k, e) ==
  [p \in DOMAIN entries \cup {k} |-> IF p = k THEN e ELSE entries[p]]

Without(f, k) == [p \in DOMAIN f \ {k} |-> f[p]]

(* Over capacity, the entry with the least epoch goes.                      *)
Evict(f) ==
  IF Cardinality(DOMAIN f) <= Capacity THEN f
  ELSE Without(f, CHOOSE k \in DOMAIN f : \A p \in DOMAIN f : f[k] <= f[p])

(* insert: the page is recorded, whatever part of it the task selected.     *)
Insert(t) ==
  /\ pc[t] = "validated"
  /\ ~ClockAtEnd
  /\ next_epoch' = next_epoch + 1
  /\ entries' = Evict(Stamped(PageOf[t], next_epoch'))
  /\ Goto(t, "recorded")
  /\ UNCHANGED validated

ExportStep(t) ==
  \/ ContainsMisses(t) \/ ContainsHits(t) \/ ClockFails(t)
  \/ ExportTrusted(t) \/ ExportStrict(t) \/ Insert(t)

ProofNext == \E t \in Tasks : ExportStep(t)

ProofSpec == ProofInit /\ [][ProofNext]_proofVars

-----------------------------------------------------------------------------
(* The proof cache at its capacity behaves as a cache of recently used      *)
(* pages: the proof just recorded or just used is never the one to go.      *)
Lru == INSTANCE LruCache WITH
  cached <- DOMAIN entries,
  older <- {p \in (DOMAIN entries) \X (DOMAIN entries) : 
               entries[p[1]] < entries[p[2]]},
  found <- {t \in Tasks : pc[t] \in {"trusted", "unchecked"}},
  recorded <- {t \in Tasks : pc[t] = "recorded"}

ImplementsLru == Lru!LruSpec

(* "Trust a caller-supplied page-level proof that every non-null row slice  *)
(* is valid UTF-8" (ArrowStringValidationPolicy::TrustedPageProof): a page  *)
(* in the cache has had all of its rows validated.                          *)
ProofCoversPage == \A k \in DOMAIN entries : {k} \X Rows \subseteq validated
=============================================================================
