--------------------------- MODULE MCAvailability ---------------------------
(***************************************************************************)
(* A small instance of Availability: on the first day two of the three     *)
(* windows are adjacent and the third meets both.                          *)
(***************************************************************************)
EXTENDS Availability, FiniteSets, TLC

CONSTANTS r1, r2, r3, w1, w2

MCRowIds == {r1, r2, r3}
MCWorkers == {w1, w2}
MCWindows == { [day |-> 1, start |-> 1, end |-> 2], [day |-> 1, start |-> 2, end |-> 3],
               [day |-> 1, start |-> 1, end |-> 3], [day |-> 2, start |-> 1, end |-> 2] }

\* The start of a window alone, or its day and end.
MCForms == { {"start"}, {"day", "end"} }

\* Bound: a replace asks for two windows at most; with an inactive profile no more
\* than one request is in flight.
Bound ==
  /\ \A w \in Workers : job[w].pc \in {"delete", "replace"} => Cardinality(job[w].windows) <= 2
  /\ ~active => \E w \in Workers : \A v \in Workers \ {w} : job[v] = Idle

BoundedSpec == Init /\ [][Next /\ Bound']_vars

Symmetry == Permutations(MCRowIds) \cup Permutations(MCWorkers)
===============================================================================
