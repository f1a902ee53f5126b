-------------------------- MODULE MCOperationQueue --------------------------
(***************************************************************************)
(* Bounds for OperationQueue: every operation is added at most once, so    *)
(* Operations bounds the run; two names for threads, so that a second      *)
(* worker could exist beside the first.                                    *)
(***************************************************************************)
EXTENDS OperationQueue
=============================================================================
