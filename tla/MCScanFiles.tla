---------------------------- MODULE MCScanFiles ----------------------------
(* A data file that is replaced twice, once by one of the same length and   *)
(* layout, and a new coverage cache; two queries of two partitions, over    *)
(* three pages and a cache of two proofs.                                   *)
EXTENDS ScanFiles, TLC

CONSTANTS data, cache, covi, n1, n2, s1, q1, q2, t1, t2, t3, t4, k1, k2, k3, r1, r2

MCCalls == {n1, n2, s1}
MCPaths == {data, cache, covi}
MCTarget == (n1 :> data) @@ (n2 :> data) @@ (s1 :> cache)
MCSidecarPath == ("cache" :> cache) @@ ("covi" :> covi)
MCLength == (data :> 1) @@ (n1 :> 1) @@ (n2 :> 2)
MCLayout == (data :> 1) @@ (n1 :> 1) @@ (n2 :> 2)
MCBuiltFor == (cache :> data) @@ (covi :> data) @@ (s1 :> n1)

MCTasks == {t1, t2, t3, t4}
MCQueries == {q1, q2}
MCQueryOf == (t1 :> q1) @@ (t2 :> q1) @@ (t3 :> q2) @@ (t4 :> q2)
MCPages == {k1, k2, k3}
MCRows == {r1, r2}
MCPageOf == (t1 :> k1) @@ (t2 :> k2) @@ (t3 :> k1) @@ (t4 :> k3)
MCSelected == (t1 :> {r1}) @@ (t2 :> {r2}) @@ (t3 :> {r1, r2}) @@ (t4 :> {r1})
MCInvalid == {<<k1, r2>>}
=============================================================================
