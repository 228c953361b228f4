--------------------------- MODULE BookingCalendar ---------------------------
(***************************************************************************)
(* What the booking component promises to the rest of the program: a table *)
(* of bookings in which a booking is added in ONE atomic step that checks  *)
(* the mate's calendar, and in which the status of a booking follows the   *)
(* lifecycle of the product                                                *)
(*                                                                         *)
(*     pending -> confirmed -> completed       (accept, complete)          *)
(*     pending | confirmed -> cancelled        (decline, cancel)           *)
(*                                                                         *)
(* except for overrides: a decision taken on a status that is no longer    *)
(* the current one.  A booking that an override brings back to "confirmed" *)
(* is remembered in "revived"; only revived bookings may share a mate's    *)
(* time with another active booking.  Module Bookings implements this.     *)
(***************************************************************************)
EXTENDS Integers

CONSTANTS BookingIds, Mates, Slots

VARIABLES row,      \* the Booking table
          revived   \* bookings that an override made active again

calendarVars == <<row, revived>>

NoRow == [status |-> "none"]
BookingStatus == {"pending", "confirmed", "cancelled", "completed"}
Row == [status : BookingStatus, mate : Mates, slot : Slots]

\* The predicate of the overlap query of BookingsService.create.
Blocking == {"pending", "confirmed"}
Overlaps(s, t) == s.start < t.end /\ s.end > t.start
Occupies(b, m, s) ==
  /\ row[b].status \in Blocking
  /\ row[b].mate = m
  /\ Overlaps(row[b].slot, s)

Lifecycle ==
  { <<"pending", "confirmed">>, <<"pending", "cancelled">>,
    <<"confirmed", "cancelled">>, <<"confirmed", "completed">> }

\* What a decision taken on an out-of-date status may do to the current one.
\* "pending" is never written again, and a completed booking is never
\* the target of a cancel: see CancelSparesCompleted in Bookings.
Overrides ==
  { <<"cancelled", "confirmed">>, <<"completed", "confirmed">>,
    <<"cancelled", "completed">>, <<"completed", "cancelled">> }

CalendarInit ==
  /\ row = [b \in BookingIds |-> NoRow]
  /\ revived = {}

Book(b, m, s) ==
  /\ row[b] = NoRow
  /\ \A c \in BookingIds : Occupies(c, m, s) => c \in revived
  /\ row' = [row EXCEPT ![b] = [status |-> "pending", mate |-> m, slot |-> s]]
  /\ UNCHANGED revived

Decide(b, to) ==
  /\ row[b] # NoRow
  /\ <<row[b].status, to>> \in Lifecycle
  /\ row' = [row EXCEPT ![b].status = to]
  /\ UNCHANGED revived

Override(b, to) ==
  /\ row[b] # NoRow
  /\ <<row[b].status, to>> \in Overrides
  /\ row' = [row EXCEPT ![b].status = to]
  /\ revived' = IF to = "confirmed" THEN revived \cup {b} ELSE revived

CalendarNext ==
  \E b \in BookingIds :
    \/ \E m \in Mates, s \in Slots : Book(b, m, s)
    \/ \E to \in BookingStatus : Decide(b, to) \/ Override(b, to)

CalendarSpec == CalendarInit /\ [][CalendarNext]_calendarVars
=============================================================================
