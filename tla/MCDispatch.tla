----------------------------- MODULE MCDispatch -----------------------------
(***************************************************************************)
(* Two workers, one in the weight class that takes one message at a time   *)
(* and one that drains half of the queue, one other sending thread, one    *)
(* service running from the start and one to be launched.                  *)
(***************************************************************************)
EXTENDS Dispatch, TLC

CONSTANTS s1, s2, w1, w2

MCWeight == w1 :> -1 @@ w2 :> 0
=============================================================================
