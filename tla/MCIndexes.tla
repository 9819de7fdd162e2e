----------------------------- MODULE MCIndexes -----------------------------
(* Instances of Indexes for TLC. *)
EXTENDS Indexes, TLC

CONSTANTS t1, t2, t3, t4

\* t1 and t2 want the same name.
SharedName == [id \in Task |-> IF id \in {t1, t2} THEN "a" ELSE IF id = t3 THEN "b" ELSE "c"]
=============================================================================
