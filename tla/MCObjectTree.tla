---------------------------- MODULE MCObjectTree ----------------------------
EXTENDS ObjectTree

CONSTANTS o1, o2, o3, o4, o5

MCObj2 == {o1, o2}
MCObj3 == {o1, o2, o3}
MCObj5 == {o1, o2, o3, o4, o5}

(* The objects are interchangeable. *)
MCSymmetry == Permutations(Obj)
=============================================================================
