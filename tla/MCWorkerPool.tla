---------------------------- MODULE MCWorkerPool ----------------------------
(***************************************************************************)
(* Two workers, the timer and one I/O thread (MCShared has three workers). *)
(***************************************************************************)
EXTENDS WorkerPool
=============================================================================
