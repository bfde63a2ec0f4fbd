------------------------------ MODULE MCSched ------------------------------
(***************************************************************************)
(* Instances of Sched for TLC.  In a behaviour either the init thread      *)
(* alone waits for processes, or every process does, for any pid.          *)
(***************************************************************************)
EXTENDS Sched

MCBootReaps == {{Boot}}
MCBootOrAllReap == {{Boot}, {Boot} \cup Slots}
=============================================================================
