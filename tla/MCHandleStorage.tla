-------------------------- MODULE MCHandleStorage --------------------------
(***************************************************************************)
(* Handle storage for TLC; contexts are interchangeable.                   *)
(***************************************************************************)
EXTENDS HandleStorage, TLC

Symmetry == Permutations(Ctxs)
=============================================================================
