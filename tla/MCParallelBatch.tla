--------------------------- MODULE MCParallelBatch ---------------------------
(***************************************************************************)
(* ParallelBatch on a small instance: r is a parallelForAsync(2) whose     *)
(* fn(0), on a worker, calls parallelFor(2); fn(0) of that one, q, calls   *)
(* parallelFor(1), s, and parallelForAsync(0), e.  z is a parallelFor(0).  *)
(***************************************************************************)
EXTENDS ParallelBatch

CONSTANTS r, q, s, e, z

Counts == [b \in Batch |-> CASE b = s -> 1 [] b \in {e, z} -> 0 [] OTHER -> 2]
Nesting == [b \in Batch |-> CASE b = r -> NoBatch [] b = q -> r [] OTHER -> q]
NoNesting == [b \in Batch |-> NoBatch]
=============================================================================
