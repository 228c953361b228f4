---------------------------- MODULE MCDiscovery ----------------------------
(***************************************************************************)
(* A small instance of Discovery: three mates, two of the same rate, two   *)
(* bookings of the first mate and one of the second, two reviews of one    *)
(* instant and one that was written before them although its id is larger. *)
(***************************************************************************)
EXTENDS Discovery, TLC

CONSTANTS w1, w2, b1, b2, b3

MCWorkers == {w1, w2}
MCBookings == {b1, b2, b3}
MCMateOf == (b1 :> 1) @@ (b2 :> 1) @@ (b3 :> 2)
MCHourlyRate == <<500, 500, 300>>
MCCreatedAt == <<2, 3, 1>>
MCReviewedAt == <<2, 2, 1>>
Query(sort, descending, minRating, dated) ==
  [sort |-> sort, descending |-> descending, minRating |-> minRating, dated |-> dated]
MCQueries == { Query("rating", FALSE, NoMinimum, FALSE), Query("createdAt", TRUE, 35, FALSE),
               Query("rate", TRUE, NoMinimum, FALSE), Query("rate", FALSE, 0, TRUE),
               Query("rating", TRUE, 0, FALSE) }

Symmetry == Permutations(MCWorkers) \cup Permutations({b1, b2})

\* Bound: the calendar changes while there is nothing else.  What crosses with a
\* client that turns pages is the deactivation of one mate and what the query
\* depends on: one request about one of two reviews, or one window and its booking.
Bound ==
  \/ /\ Walks("none") /\ active = Mates /\ completed = {}
     /\ Cardinality(weekly) + Cardinality(booked) <= 4
  \/ Walks("none") /\ active = Mates /\ weekly = {} /\ booked = {}
  \/ /\ ~Walks("none")
     /\ active \cup {1} = Mates
     /\ IF walk.query.dated
          THEN completed = {} /\ weekly \cup booked \subseteq {[start |-> 1, end |-> 3]}
          ELSE /\ weekly = {} /\ booked = {} /\ \E w \in MCWorkers : job[w] = Idle
               /\ completed = MCBookings /\ review[3] = Unused

BoundedSpec == Init /\ [][Next /\ Bound']_vars
===============================================================================
