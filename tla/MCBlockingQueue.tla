-------------------------- MODULE MCBlockingQueue --------------------------
(***************************************************************************)
(* BlockingQueue on a small instance.                                      *)
(***************************************************************************)
EXTENDS BlockingQueue

CONSTANTS p1, p2, c1, c2, c3
=============================================================================
