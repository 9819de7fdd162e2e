------------------------------ MODULE MCSchedd ------------------------------
(* Instances of Schedd for TLC. *)
EXTENDS Schedd, TLC

CONSTANTS t1, t2, w1, w2

\* All tasks alike, and t1 before t2.
FlatPriority == [id \in Task |-> 1]
RankedPriority == [id \in Task |-> IF id = t1 THEN 2 ELSE 1]

EveryUnit == {1}

\* Request slots are interchangeable.
AlikeClients == Permutations(Client)
=============================================================================
