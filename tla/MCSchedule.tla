----------------------------- MODULE MCSchedule -----------------------------
(* Instances of Schedule for TLC. *)
EXTENDS Schedule, TLC

Every(step) == [kind |-> "any", a |-> 0, b |-> 0, step |-> step]
Value(v, step) == [kind |-> "value", a |-> v, b |-> v, step |-> step]
Span(a, b, step) == [kind |-> "range", a |-> a, b |-> b, step |-> step]

\* Midnight and the last minute of a day, on every day, at month ends, on the
\* 29th of February, on Mondays, and never.
Calendar ==
  [minute : {<<Value(59, 1)>>, <<Every(30)>>},
   hour : {<<Value(23, 1)>>, <<Value(0, 1), Value(12, 1)>>},
   dayOfMonth : {<<Every(1)>>, <<Value(31, 1)>>, <<Value(29, 1), Value(30, 1)>>},
   month : {<<Every(1)>>, <<Value(2, 1)>>, <<Value(12, 1)>>},
   dayOfWeek : {<<Every(1)>>, <<Value(1, 1)>>}]

\* Ranges and steps at the edges of the minute field, with an int of 8 bits.
Edges ==
  [minute : {<<Span(a, b, step)>> : a \in {-1, 0, 5}, b \in {4, 5, 58, 59, 60},
                                    step \in {0, 1, 2, 54, 68, 69, 127}},
   hour : {<<Value(22, 1), Span(20, 23, 3)>>},
   dayOfMonth : {<<Value(1, 1)>>}, month : {<<Value(1, 1)>>}, dayOfWeek : {<<Every(6)>>}]

MCExprs == Calendar \cup Edges

MCStarts ==
  {<<2023, 12, 31, 23, 58>>, <<2024, 2, 28, 23, 59>>, <<2096, 2, 29, 12, 0>>, <<2025, 12, 31, 20, 0>>}

MCZones == {-300, 0, 480}
=============================================================================
