------------------------------- MODULE Bookings -------------------------------
(***************************************************************************)
(* The booking component (bookings.service.ts): create, accept, decline,   *)
(* cancel and complete, served concurrently by one or more Node processes  *)
(* over one PostgreSQL database at READ COMMITTED.                         *)
(*                                                                         *)
(* A create locks the mate's row, looks for an overlapping active booking  *)
(* and inserts, in one transaction.  The four decisions read the booking   *)
(* OUTSIDE their transaction, check its status and the clock, and then     *)
(* update the row by id with no condition: what was read may be stale when *)
(* it is written.  Every read, lock and commit is a step of its own; an    *)
(* update and the commit that follows it are one step, because the row     *)
(* lock hides the difference from everyone else (the refund a cancel makes *)
(* between the two is in module Payments).                                 *)
(*                                                                         *)
(* A create call is one HTTP request and is served once.  A decision call  *)
(* stands for any number of requests, one after the other: when one is     *)
(* answered the next may come.  A request that is not admitted is answered *)
(* at once (refused, or unchanged when the booking is already there) and   *)
(* changes nothing, so it is no step.  One unit of time is one step of the *)
(* booking grid.                                                           *)
(***************************************************************************)
EXTENDS Integers

CONSTANTS BookingIds,       \* primary keys the Booking table can hand out
          Mates, Slots,     \* slots are records [start, end]
          CreateRequests,   \* calls of create
          DecisionRequests, \* requests to accept, decline, cancel, complete in flight
          MinDuration,      \* 60 minutes in the code
          MaxDuration,      \* 480 minutes in the code
          MaxLatency,       \* the longest a decision is in flight
          MaxTime           \* bound on the clock

\* A decision is answered before the shortest booking is over: no HTTP call
\* of this program is in flight for an hour.
ASSUME TimingAssumption ==
  /\ MinDuration \in Nat /\ MaxDuration \in Nat /\ MaxTime \in Nat
  /\ MaxLatency \in Nat /\ MaxLatency <= MinDuration
  /\ \A s \in Slots : s.start \in Int /\ s.end \in Int

ASSUME FreeAssumption == "free" \notin CreateRequests

VARIABLES row,       \* the Booking table
          mateLock,  \* who holds FOR UPDATE on a mate's row
          create,    \* the state of every create call
          decision,  \* the state of every decision in flight
          notices,   \* the notifications table
          now,       \* the clock
          revived    \* history: bookings a stale accept made active again

vars == <<row, mateLock, create, decision, notices, now, revived>>

Calendar == INSTANCE BookingCalendar

(***************************************************************************)
(* Rows, calls and notifications.                                          *)
(***************************************************************************)
NoRow == Calendar!NoRow
BookingStatus == Calendar!BookingStatus
Row == Calendar!Row
Occupies(b, m, s) == Calendar!Occupies(b, m, s)

Decisions == {"accept", "decline", "cancel", "complete"}
Actors == {"renter", "mate", "admin", "outsider"}
Free == "free"

New == [pc |-> "new"]
Answer(a) == [pc |-> a]
Answers == {Answer(a) : a \in {"done", "refused", "failed"}}

CreateCall == [pc : {"checked", "locked", "clear"}, mate : Mates, slot : Slots]
DecisionCall == [pc : {"checked"}, op : Decisions, by : Actors,
                 booking : BookingIds, at : 0 .. MaxTime]

NoticeType == {"booking_requested", "booking_confirmed", "booking_declined",
               "booking_cancelled", "booking_completed"}
Notice == [booking : BookingIds, type : NoticeType, to : {"renter", "mate"}]

Init ==
  /\ row = [b \in BookingIds |-> NoRow]
  /\ mateLock = [m \in Mates |-> Free]
  /\ create = [r \in CreateRequests |-> New]
  /\ decision = [r \in DecisionRequests |-> New]
  /\ notices = {}
  /\ now = 0
  /\ revived = {}

(***************************************************************************)
(* create                                                                  *)
(***************************************************************************)

\* "open" is the answer of the mate's profile and availability, which other
\* components may change at any moment after it was given.
Bookable(s, open) ==
  /\ open
  /\ s.start < s.end
  /\ s.start > now
  /\ s.end - s.start \in MinDuration .. MaxDuration

Check(r, m, s) ==
  /\ create[r] = New
  /\ \E open \in BOOLEAN :
       create' = [create EXCEPT ![r] =
         IF Bookable(s, open) THEN [pc |-> "checked", mate |-> m, slot |-> s]
                              ELSE Answer("refused")]
  /\ UNCHANGED <<row, mateLock, decision, notices, now, revived>>

\* Mutant of Lock: the mate's row is read without FOR UPDATE.
LockNoWait(r) ==
  /\ create[r].pc = "checked"
  /\ mateLock' = [mateLock EXCEPT ![create[r].mate] = r]
  /\ create' = [create EXCEPT ![r].pc = "locked"]
  /\ UNCHANGED <<row, decision, notices, now, revived>>

Lock(r) ==
  /\ create[r].pc = "checked"
  /\ mateLock[create[r].mate] = Free
  /\ mateLock' = [mateLock EXCEPT ![create[r].mate] = r]
  /\ create' = [create EXCEPT ![r].pc = "locked"]
  /\ UNCHANGED <<row, decision, notices, now, revived>>

\* Mutant of Unlock: the transaction is never closed.
UnlockNever(m) == mateLock

Unlock(m) == [mateLock EXCEPT ![m] = Free]

\* Mutant of FindOverlap: only confirmed bookings block the calendar.
FindOverlapConfirmed(r) ==
  /\ create[r].pc = "locked"
  /\ IF \E b \in BookingIds : /\ Occupies(b, create[r].mate, create[r].slot)
                             /\ row[b].status = "confirmed"
       THEN /\ create' = [create EXCEPT ![r] = Answer("refused")]
            /\ mateLock' = Unlock(create[r].mate)
       ELSE /\ create' = [create EXCEPT ![r].pc = "clear"]
            /\ UNCHANGED mateLock
  /\ UNCHANGED <<row, decision, notices, now, revived>>

FindOverlap(r) ==
  /\ create[r].pc = "locked"
  /\ IF \E b \in BookingIds : Occupies(b, create[r].mate, create[r].slot)
       THEN /\ create' = [create EXCEPT ![r] = Answer("refused")]
            /\ mateLock' = Unlock(create[r].mate)
       ELSE /\ create' = [create EXCEPT ![r].pc = "clear"]
            /\ UNCHANGED mateLock
  /\ UNCHANGED <<row, decision, notices, now, revived>>

Insert(r, b) ==
  /\ create[r].pc = "clear"
  /\ row[b] = NoRow
  /\ row' = [row EXCEPT ![b] = [status |-> "pending", mate |-> create[r].mate,
                                slot |-> create[r].slot]]
  /\ notices' = notices \cup
       {[booking |-> b, type |-> "booking_requested", to |-> "mate"]}
  /\ mateLock' = Unlock(create[r].mate)
  /\ create' = [create EXCEPT ![r] = Answer("done")]
  /\ UNCHANGED <<decision, now, revived>>

\* A lost connection or a failing statement: PostgreSQL rolls back.
CreateFails(r) ==
  /\ create[r].pc \in {"checked", "locked", "clear"}
  /\ create' = [create EXCEPT ![r] = Answer("failed")]
  /\ mateLock' = IF create[r].pc = "checked" THEN mateLock
                                             ELSE Unlock(create[r].mate)
  /\ UNCHANGED <<row, decision, notices, now, revived>>

(***************************************************************************)
(* accept, decline, cancel, complete                                       *)
(***************************************************************************)
Source == [accept   |-> {"pending"}, decline  |-> {"pending"},
           cancel   |-> {"pending", "confirmed"}, complete |-> {"confirmed"}]
Target == [accept |-> "confirmed", decline |-> "cancelled",
           cancel |-> "cancelled", complete |-> "completed"]
Allowed == [accept |-> {"mate"}, decline |-> {"mate"},
            cancel |-> {"renter", "mate", "admin"}, complete |-> {"mate", "admin"}]

\* Mutant of InTime: complete is compared with the start of the booking.
InTimeFromStart(op, s) ==
  /\ op = "cancel" => now < s.start
  /\ op = "complete" => now >= s.start

InTime(op, s) ==
  /\ op = "cancel" => now < s.start
  /\ op = "complete" => now > s.end

\* Who is told: the renter, except that a cancel tells both sides but the actor.
Told(op, by) == IF op = "cancel" THEN {"renter", "mate"} \ {by} ELSE {"renter"}
TypeOf == [accept |-> "booking_confirmed", decline |-> "booking_declined",
           cancel |-> "booking_cancelled", complete |-> "booking_completed"]

\* Mutant of Admits: the transition is not asserted.
AdmitsAnyStatus(b, op, by) == by \in Allowed[op] /\ InTime(op, row[b].slot)

Admits(b, op, by) ==
  /\ by \in Allowed[op]
  /\ row[b].status \in Source[op]
  /\ InTime(op, row[b].slot)

Read(r, b, op, by) ==
  /\ decision[r] = New
  /\ row[b] # NoRow
  /\ Admits(b, op, by)
  /\ decision' = [decision EXCEPT ![r] =
       [pc |-> "checked", op |-> op, by |-> by, booking |-> b, at |-> now]]
  /\ UNCHANGED <<row, mateLock, create, notices, now, revived>>

Revives(b, op) == op = "accept" /\ row[b].status \in {"cancelled", "completed"}

Write(r) ==
  /\ decision[r].pc = "checked"
  /\ LET op == decision[r].op
         b  == decision[r].booking
     IN /\ row[b] # NoRow
        /\ row' = [row EXCEPT ![b].status = Target[op]]
        /\ notices' = notices \cup
             {[booking |-> b, type |-> TypeOf[op], to |-> p] :
                p \in Told(op, decision[r].by)}
        /\ revived' = IF Revives(b, op) THEN revived \cup {b} ELSE revived
  /\ decision' = [decision EXCEPT ![r] = New]
  /\ UNCHANGED <<mateLock, create, now>>

DecisionFails(r) ==
  /\ decision[r].pc = "checked"
  /\ decision' = [decision EXCEPT ![r] = New]
  /\ UNCHANGED <<row, mateLock, create, notices, now, revived>>

\* Time passes, but no decision is kept in flight longer than MaxLatency.
Tick ==
  /\ now < MaxTime
  /\ \A r \in DecisionRequests :
       decision[r].pc = "checked" => now < decision[r].at + MaxLatency
  /\ now' = now + 1
  /\ UNCHANGED <<row, mateLock, create, decision, notices, revived>>

CreateStep(r) ==
  \/ \E m \in Mates, s \in Slots : Check(r, m, s)
  \/ Lock(r)
  \/ FindOverlap(r)
  \/ \E b \in BookingIds : Insert(r, b)
  \/ CreateFails(r)

DecisionStep(r) ==
  \/ \E b \in BookingIds, op \in Decisions, by \in Actors : Read(r, b, op, by)
  \/ Write(r)
  \/ DecisionFails(r)

Next ==
  \/ \E r \in CreateRequests : CreateStep(r)
  \/ \E r \in DecisionRequests : DecisionStep(r)
  \/ Tick

Spec == Init /\ [][Next]_vars

\* A request the server has admitted is carried on: the event loop and
\* PostgreSQL run every ready continuation.  Nothing makes a client call.
Fairness ==
  /\ \A r \in CreateRequests :
       /\ WF_vars(Lock(r))
       /\ WF_vars(FindOverlap(r))
       /\ WF_vars(\E b \in BookingIds : Insert(r, b))
  /\ \A r \in DecisionRequests : WF_vars(Write(r))

FairSpec == Spec /\ Fairness

(***************************************************************************)
(* Properties                                                              *)
(***************************************************************************)

\* The types of the table, the calls and the notifications.
TypeOK ==
  /\ row \in [BookingIds -> Row \cup {NoRow}]
  /\ mateLock \in [Mates -> CreateRequests \cup {Free}]
  /\ create \in [CreateRequests -> CreateCall \cup Answers \cup {New}]
  /\ decision \in [DecisionRequests -> DecisionCall \cup {New}]
  /\ notices \subseteq Notice
  /\ now \in 0 .. MaxTime
  /\ revived \subseteq BookingIds

DoubleBooked(b, c) == b # c /\ row[c].status \in Calendar!Blocking
                            /\ Occupies(b, row[c].mate, row[c].slot)

\* A mate is never double-booked by the creates themselves, however they and
\* the decisions interleave: of two active bookings that share a mate's time
\* one came back from "cancelled" or "completed" through a stale accept.
DoubleBookingNeedsRevival ==
  \A b, c \in BookingIds : DoubleBooked(b, c) => b \in revived \/ c \in revived

\* A cancel that was admitted before the start cannot be overtaken by a
\* complete, which waits for the end: a completed (hence payable, reviewable)
\* booking is never cancelled and refunded by a request that is still running.
CancelSparesCompleted ==
  \A r \in DecisionRequests :
    decision[r].pc = "checked" /\ decision[r].op = "cancel"
      => row[decision[r].booking].status # "completed"

Quiet(b) == \A r \in DecisionRequests :
              decision[r].pc = "checked" => decision[r].booking # b

\* The damage of stale writes is confined to requests already in flight: once
\* a booking is cancelled or completed and no decision about it is running,
\* it stays as it is and no new decision about it is admitted.
SettledIsStable ==
  [][\A b \in BookingIds :
       row[b].status \in {"cancelled", "completed"} /\ Quiet(b)
         => row'[b] = row[b] /\ Quiet(b)']_vars

\* Every admitted create is answered: the lock of a mate's row is handed on
\* after a conflict, a failure or an insert, and no create waits forever.
CreatesAreAnswered ==
  \A r \in CreateRequests :
    create[r].pc = "checked" ~> create[r] \in Answers

\* The component implements the booking calendar: create is atomic with
\* respect to every other create, and decisions only follow the lifecycle or
\* one of the four overrides.
ImplementsCalendar == Calendar!CalendarSpec

\* What the end-to-end test plan requires of concurrent requests (BOOK-24):
\* no two active bookings of one mate overlap.
NoDoubleBooking == \A b, c \in BookingIds : ~DoubleBooked(b, c)
===============================================================================
