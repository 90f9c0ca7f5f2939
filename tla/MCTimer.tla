------------------------------ MODULE MCTimer ------------------------------
(***************************************************************************)
(* The wheel with two cells per level and two near cells: time has five    *)
(* bits and wraps every 32 ticks, and the two timers pass through all four *)
(* levels.                                                                 *)
(***************************************************************************)
EXTENDS Timer
=============================================================================
