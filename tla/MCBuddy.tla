------------------------------ MODULE MCBuddy ------------------------------
(***************************************************************************)
(* An instance of Buddy: a memory map.                                     *)
(***************************************************************************)
EXTENDS Buddy

\* Unaligned ranges with a hole, and ranges that adjoin: the boot loader makes
\* an entry of every firmware descriptor and joins none.
MCRegions == {<<1, 3>>, <<4, 2>>, <<6, 2>>, <<9, 1>>}
=============================================================================
