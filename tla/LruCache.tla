------------------------------ MODULE LruCache ------------------------------
(***************************************************************************)
(* What a bounded cache of recently used keys promises: a key that is used  *)
(* becomes the most recent one, and a key that is admitted to a full cache  *)
(* displaces the least recent one, never itself.  Clocks and counters do    *)
(* not exist at this level; ProofCache implements it.                       *)
(***************************************************************************)
EXTENDS Naturals, FiniteSets

CONSTANTS
  Tasks,    \* clients, each with one key
  PageOf,   \* PageOf[t] : the key of t
  Capacity

VARIABLES
  cached,    \* the keys in the cache
  older,     \* pairs <<a, b>> of them: a was used before b
  found,     \* clients that have looked up their key and found it
  recorded   \* clients that have recorded their key

lruVars == <<cached, older, found, recorded>>

LruInit == cached = {} /\ older = {} /\ found = {} /\ recorded = {}

(* The order among the keys of kept, after k was used.                      *)
Using(k, kept) ==
  {p \in older : p[1] \in kept \ {k} /\ p[2] \in kept \ {k}}
    \cup {<<a, k>> : a \in kept \ {k}}

Find(t) ==
  /\ t \notin found \cup recorded
  /\ PageOf[t] \in cached
  /\ older' = Using(PageOf[t], cached)
  /\ found' = found \cup {t}
  /\ UNCHANGED <<cached, recorded>>

Room(k) == k \in cached \/ Cardinality(cached) < Capacity

(* All but the key that gives way to k: none, or the least recent one.      *)
Kept(k, kept) ==
  \/ Room(k) /\ kept = cached
  \/ /\ ~Room(k)
     /\ \E least \in cached :
          /\ \A other \in cached \ {least} : <<least, other>> \in older
          /\ kept = cached \ {least}

Record(t) ==
  /\ t \notin found \cup recorded
  /\ \E kept \in SUBSET cached :
       /\ Kept(PageOf[t], kept)
       /\ cached' = kept \cup {PageOf[t]}
       /\ older' = Using(PageOf[t], kept)
  /\ recorded' = recorded \cup {t}
  /\ UNCHANGED found

LruNext == \E t \in Tasks : Find(t) \/ Record(t)

LruSpec == LruInit /\ [][LruNext]_lruVars
=============================================================================
