------------------------------ MODULE MCTimer ------------------------------
(* Two client threads and enough loop threads for three starts. *)
EXTENDS Timer, TLC
CONSTANTS c1, c2, l1, l2, l3
MCClient == {c1, c2}
MCLoop == {l1, l2, l3}
MCSymmetry == Permutations(MCClient) \cup Permutations(MCLoop)
=============================================================================
