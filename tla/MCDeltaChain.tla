---------------------------- MODULE MCDeltaChain ----------------------------
(* Instances of DeltaChain for TLC.                                         *)
EXTENDS DeltaChain, TLC

CONSTANTS o1, o2, w1, w2

AnyStart == Csns \X Times
FewStarts == {<<1, 1>>, <<2, 2>>}
OneStart == {<<2, 2>>}

AllColumns == {{"a"}}
SomeColumns == {{"a", "b"}, {"b"}}

(* Nothing tells objects or writers apart but what happens to them.         *)
ObjectSymmetry == Permutations(Objects)
Symmetry == ObjectSymmetry \cup Permutations(Writers)
=============================================================================
