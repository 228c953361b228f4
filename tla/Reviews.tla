------------------------------- MODULE Reviews -------------------------------
(***************************************************************************)
(* The reviews of completed bookings (reviews.service.ts).  Every request  *)
(* reads and writes in two steps, in no transaction with each other; the   *)
(* unique key over bookingId decides between two creates.  Who asks is     *)
(* checked against rows that do not change and is left out, and so is the  *)
(* comment, which is written together with the rating.                     *)
(***************************************************************************)
EXTENDS Integers, FiniteSets

CONSTANTS Workers,     \* requests that can be in flight at the same time
          Bookings,
          ReviewIds,   \* a range of Nat; ids are given out in order
          Ratings

ASSUME ReviewIdsAssumption ==
  ReviewIds \subseteq Nat /\ IsFiniteSet(ReviewIds) /\ Ratings \subseteq Nat

VARIABLES completed,   \* bookings with status 'completed', which they keep
          review,      \* the Review table
          job          \* what every worker is doing

reviewVars == <<completed, review, job>>

Unused == [state |-> "unused"]
Removed == [state |-> "removed"]
Idle == [pc |-> "idle"]

Rows == [booking : Bookings, rating : Ratings]
InsertJob == [pc : {"insert"}, booking : Bookings, rating : Ratings]
EditJob == [pc : {"edit"}, id : ReviewIds, booking : Bookings, rating : Ratings]
DeleteJob == [pc : {"delete"}, id : ReviewIds]

At(w, pc) == job[w].pc = pc
Begin(w, j) == job' = [job EXCEPT ![w] = j]
Leave(w) == Begin(w, Idle)

Written == {id \in ReviewIds : review[id] \notin {Unused, Removed}}
Reviewed(b) == \E id \in Written : review[id].booking = b
NextId == CHOOSE id \in ReviewIds : review[id] = Unused
            /\ \A other \in ReviewIds : review[other] = Unused => id <= other

ReviewsInit ==
  /\ completed = {}
  /\ review = [id \in ReviewIds |-> Unused]
  /\ job = [w \in Workers |-> Idle]

CompleteBooking(b) ==
  /\ b \notin completed
  /\ completed' = completed \cup {b}
  /\ UNCHANGED <<review, job>>

CreateCheck(w, b, rating) ==
  /\ job[w] = Idle
  /\ b \in completed
  /\ ~Reviewed(b)
  /\ Begin(w, [pc |-> "insert", booking |-> b, rating |-> rating])
  /\ UNCHANGED <<completed, review>>

\* Mutant of CreateInsert: there is no unique key.
CreateInsertAgain(w) ==
  /\ At(w, "insert")
  /\ \E id \in ReviewIds : review[id] = Unused
  /\ review' = [review EXCEPT ![NextId] = [booking |-> job[w].booking, rating |-> job[w].rating]]
  /\ Leave(w)
  /\ UNCHANGED completed

\* The unique key refuses a booking that has a review in the meantime.
CreateInsert(w) ==
  /\ At(w, "insert")
  /\ \E id \in ReviewIds : review[id] = Unused
  /\ review' = IF Reviewed(job[w].booking) THEN review
               ELSE [review EXCEPT ![NextId] = [booking |-> job[w].booking,
                                                rating |-> job[w].rating]]
  /\ Leave(w)
  /\ UNCHANGED completed

UpdateRead(w, id, rating) ==
  /\ job[w] = Idle
  /\ id \in Written
  /\ Begin(w, [pc |-> "edit", id |-> id, booking |-> review[id].booking, rating |-> rating])
  /\ UNCHANGED <<completed, review>>

\* Mutant of UpdateWrite: the review is saved as it was read, there or not.
UpdateWriteSaves(w) ==
  /\ At(w, "edit")
  /\ review' = [review EXCEPT ![job[w].id] =
                  [booking |-> job[w].booking, rating |-> job[w].rating]]
  /\ Leave(w)
  /\ UNCHANGED completed

\* By id: a review that was removed in the meantime is not found.
UpdateWrite(w) ==
  /\ At(w, "edit")
  /\ review' = [review EXCEPT ![job[w].id] =
                  IF job[w].id \in Written THEN [@ EXCEPT !.rating = job[w].rating] ELSE @]
  /\ Leave(w)
  /\ UNCHANGED completed

RemoveRead(w, id) ==
  /\ job[w] = Idle
  /\ id \in Written
  /\ Begin(w, [pc |-> "delete", id |-> id])
  /\ UNCHANGED <<completed, review>>

RemoveDelete(w) ==
  /\ At(w, "delete")
  /\ review' = [review EXCEPT ![job[w].id] = Removed]
  /\ Leave(w)
  /\ UNCHANGED completed

\* A request dies between its two steps.
ReviewFail(w) ==
  /\ job[w] # Idle
  /\ Leave(w)
  /\ UNCHANGED <<completed, review>>

ReviewsNext ==
  \/ \E b \in Bookings : CompleteBooking(b)
  \/ \E w \in Workers :
       \/ \E b \in Bookings, r \in Ratings : CreateCheck(w, b, r)
       \/ \E id \in ReviewIds, r \in Ratings : UpdateRead(w, id, r)
       \/ \E id \in ReviewIds : RemoveRead(w, id)
       \/ CreateInsert(w) \/ UpdateWrite(w) \/ RemoveDelete(w) \/ ReviewFail(w)

(***************************************************************************)
(* Properties                                                              *)
(***************************************************************************)

\* A booking has at most one review, however many creates cross, and only once it
\* is completed (REVIEW-03, REVIEW-05).
OneReviewPerBooking ==
  /\ \A x, y \in Written : review[x].booking = review[y].booking => x = y
  /\ \A x \in Written : review[x].booking \in completed

\* A review is of the booking it was written for as long as it is there, and once
\* removed, an edit in flight does not bring it back, nor does it reach the review
\* that the renter writes anew (REVIEW-08, REVIEW-13).
RemovedStaysRemoved ==
  [][\A id \in ReviewIds :
       /\ review[id] = Removed => review'[id] = Removed
       /\ id \in Written /\ review'[id] # Removed => review'[id].booking = review[id].booking
    ]_review
===============================================================================
