------------------------------- MODULE MCFfs -------------------------------
(***************************************************************************)
(* Instances of Ffs.  With one direct block, one pointer and one entry per *)
(* directory block, two names in a directory and two blocks in a file      *)
(* already need an indirect block.                                         *)
(***************************************************************************)
EXTENDS Ffs

MCPaths == {<<"a">>, <<"b">>, <<"a", "b">>}
=============================================================================
