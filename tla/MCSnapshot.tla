----------------------------- MODULE MCSnapshot -----------------------------
(* Instances of Snapshot for TLC. *)
EXTENDS Snapshot, TLC

CONSTANTS t1, t2, w1, w2

FlatPriority == [id \in Task |-> 1]

EveryUnit == {1}

TwoExports == [c \in {"export", "import", "restart"} |-> IF c = "export" THEN 2 ELSE 1]
NoRestart == [c \in {"export", "import", "restart"} |-> IF c = "restart" THEN 0 ELSE 1]

\* Request slots are interchangeable.
AlikeSlots == Permutations(Slot)
=============================================================================
