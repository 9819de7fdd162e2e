------------------------------ MODULE MCHeaps ------------------------------
(* Instances of Heaps for TLC. *)
EXTENDS Heaps, TLC

CONSTANTS t1, t2, t3

\* t1 before the other two.
RankedPriority == [id \in Task |-> IF id = t1 THEN 2 ELSE 1]
=============================================================================
