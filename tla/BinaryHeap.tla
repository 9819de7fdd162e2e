----------------------------- MODULE BinaryHeap -----------------------------
(***************************************************************************)
(* Go's container/heap as the queues use it: a binary heap kept in a slice *)
(* and ordered by Less.  A heap is a sequence; position 1 is the root.     *)
(***************************************************************************)
EXTENDS Naturals, Sequences

CONSTANT Less(_, _)

Swap(h, i, j) == [h EXCEPT ![i] = h[j], ![j] = h[i]]

RECURSIVE Up(_, _)
Up(h, j) ==
  LET parent == j \div 2
  IN  IF j > 1 /\ Less(h[j], h[parent]) THEN Up(Swap(h, parent, j), parent) ELSE h

\* Sinks the entry at position i among the first n.
RECURSIVE Down(_, _, _)
Down(h, i, n) ==
  LET left  == 2 * i
      child == IF left + 1 <= n /\ Less(h[left + 1], h[left]) THEN left + 1 ELSE left
  IN  IF left <= n /\ Less(h[child], h[i]) THEN Down(Swap(h, i, child), child, n) ELSE h

\* Restores the order when only the entry at position i may be out of place.
Settle(h, i, n) ==
  LET sunk == Down(h, i, n)
  IN  IF sunk = h THEN Up(h, i) ELSE sunk

Push(h, entry) == Up(Append(h, entry), Len(h) + 1)

Remove(h, i) ==
  LET n == Len(h) - 1
  IN  IF i = n + 1 THEN SubSeq(h, 1, n)
                   ELSE SubSeq(Settle(Swap(h, i, n + 1), i, n), 1, n)

Pop(h) == Remove(h, 1)

Fix(h, i) == Settle(h, i, Len(h))
=============================================================================
