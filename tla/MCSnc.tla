------------------------------- MODULE MCSnc -------------------------------
(***************************************************************************)
(* A service with up to two coroutines and two waits each.  MCSnc.cfg has  *)
(* one list of the wheel, which a timer of another service may share; the  *)
(* other two have two lists.                                               *)
(***************************************************************************)
EXTENDS Snc
=============================================================================
