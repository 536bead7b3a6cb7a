---------------------------- MODULE MCProofCache ----------------------------
(* A query that selects one row of a page and one that reads all of it.     *)
EXTENDS ProofCache, TLC

CONSTANTS t1, t2, k1, r1, r2

MCTasks == {t1, t2}
MCPages == {k1}
MCRows == {r1, r2}
MCPageOf == (t1 :> k1) @@ (t2 :> k1)
MCSelected == (t1 :> {r1}) @@ (t2 :> {r1, r2})
MCInvalid == {}
=============================================================================
