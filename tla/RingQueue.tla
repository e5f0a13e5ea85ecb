------------------------------ MODULE RingQueue ------------------------------
(***************************************************************************)
(* The queue TQQueue (glib/base/ds.h): a vector used as a ring, which is   *)
(* copied into a larger one when it is full.  Last is one past the newest  *)
(* element, Next is the oldest, and Last = Next means empty, so one place  *)
(* stays free.  Queues of a fixed length, which nothing modelled here      *)
(* uses, are left out.                                                     *)
(***************************************************************************)
EXTENDS Naturals, Sequences

CONSTANT FirstLen    \* length of the first vector, 16 in the code

NewQueue == [Last |-> 0, Next |-> 0, ValV |-> << >>]

QLen(q) == IF q.Last >= q.Next THEN q.Last - q.Next ELSE Len(q.ValV) - (q.Next - q.Last)
Place(q, n) == (q.Next + n) % Len(q.ValV)
At(q, n) == q.ValV[Place(q, n) + 1]
Front(q) == q.ValV[q.Next + 1]

\* The elements, oldest first.
Contents(q) == [n \in 1..QLen(q) |-> At(q, n - 1)]

HasRoom(q) == Len(q.ValV) > QLen(q) + 1

NewLen(q) == IF Len(q.ValV) < FirstLen THEN FirstLen ELSE 2 * Len(q.ValV)

\* Places that were never written hold what happens to be there: the value pushed.
Push(q, v) ==
  IF HasRoom(q)
  THEN [q EXCEPT !.ValV = [@ EXCEPT ![q.Last + 1] = v], !.Last = (@ + 1) % Len(q.ValV)]
  ELSE [Last |-> QLen(q) + 1, Next |-> 0,
        ValV |-> [n \in 1..NewLen(q) |-> IF n <= QLen(q) THEN At(q, n - 1) ELSE v]]

Pop(q) == [q EXCEPT !.Next = (@ + 1) % Len(q.ValV)]
=============================================================================
