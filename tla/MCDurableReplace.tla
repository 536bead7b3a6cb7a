-------------------------- MODULE MCDurableReplace --------------------------
(* Two calls for two paths of which one is a bare file name.                *)
EXTENDS DurableReplace, TLC

CONSTANTS c1, c2, p1, p2

MCCalls == {c1, c2}

TwoPaths == {p1, p2}
TwoTargets == (c1 :> p1) @@ (c2 :> p2)
TwoParents == (p1 :> "dir") @@ (p2 :> "")
=============================================================================
