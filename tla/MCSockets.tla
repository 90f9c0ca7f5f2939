----------------------------- MODULE MCSockets -----------------------------
(***************************************************************************)
(* One slot, which two services use in turn: connect, close, close again   *)
(* and connect.                                                            *)
(***************************************************************************)
EXTENDS SocketServer, TLC

Alike == Permutations(Svc) \cup Permutations(Fd)
=============================================================================
