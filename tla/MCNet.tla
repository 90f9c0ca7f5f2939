------------------------------- MODULE MCNet -------------------------------
(***************************************************************************)
(* The network side of a node: the harbor service and the socket server.   *)
(* They share no variable, so a behaviour is one of either: focus says of  *)
(* which.                                                                  *)
(***************************************************************************)
EXTENDS Harbor, SocketServer, TLC

VARIABLE focus

\* A message of one unit and one of two, so that a frame can be split anywhere.
MCSizes == <<1, 2>>

Init == focus \in {"harbor", "socket"} /\ HarborInit /\ SocketInit

Next == /\ \/ focus = "harbor" /\ HarborNext /\ UNCHANGED socketVars
           \/ focus = "socket" /\ SocketNext /\ UNCHANGED harborVars
        /\ UNCHANGED focus

vars == <<focus, harborVars, socketVars>>
Spec == Init /\ [][Next]_vars

NoEvents == <<focus, harborVars, allocId, slot, caller, port, kernel, os, udp, posts, lost, raced>>
Alike == Permutations(Svc) \cup Permutations(Fd)
=============================================================================
