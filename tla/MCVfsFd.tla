------------------------------ MODULE MCVfsFd ------------------------------
(***************************************************************************)
(* Instances of VfsFd.  Pcb slots are interchangeable.                     *)
(***************************************************************************)
EXTENDS VfsFd, TLC

CONSTANTS p1, p2

MCProcs == {p1, p2}
MCSymmetry == Permutations(MCProcs)
=============================================================================
