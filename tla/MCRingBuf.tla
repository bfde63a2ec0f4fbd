----------------------------- MODULE MCRingBuf -----------------------------
(***************************************************************************)
(* Instances of RingBuf for TLC.  Two whole-slot messages tell torn copies *)
(* apart from each other and from the zeroed memory, a short one leaves    *)
(* old units behind, an oversized one has to be refused.                   *)
(***************************************************************************)
EXTENDS RingBuf

MCItems == {<<1, 1>>, <<2, 2>>, <<1>>, <<2, 2, 2>>}
=============================================================================
