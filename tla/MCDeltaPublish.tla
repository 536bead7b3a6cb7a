--------------------------- MODULE MCDeltaPublish ---------------------------
(* Two publications that race for one delta path and one manifest path, the *)
(* latter a bare file name, whose directory cannot be opened.               *)
EXTENDS DeltaPublish, TLC

CONSTANTS d1, m1, d2, m2, man, a, r1

MCCalls == {d1, m1, d2, m2}
MCManifests == {m1, m2}
MCDeltaOf == (m1 :> d1) @@ (m2 :> d2)

MCPaths == {man, a}
MCTargets == (d1 :> a) @@ (d2 :> a) @@ (m1 :> man) @@ (m2 :> man)
MCParents == (man :> "") @@ (a :> "dir")
=============================================================================
