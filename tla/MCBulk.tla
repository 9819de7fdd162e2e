------------------------------- MODULE MCBulk -------------------------------
(* Instances of Bulk for TLC. *)
EXTENDS Bulk, TLC

CONSTANTS t1, t2, w1, w2

RankedPriority == [id \in Task |-> IF id = t1 THEN 2 ELSE 1]

EveryUnit == {1}
=============================================================================
