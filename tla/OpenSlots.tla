------------------------------- MODULE OpenSlots -------------------------------
(***************************************************************************)
(* The three readings of a mate's calendar on one date:                    *)
(* getPublicAvailability shows the open intervals, the discovery filter    *)
(* (hasOpenWindow) keeps mates that have one, and isWithinAvailability is  *)
(* what a booking is checked against.  All three are pure functions of two *)
(* tables, which change underneath them: the weekly windows of the date's  *)
(* weekday and the bookings of the date that block.                        *)
(***************************************************************************)
EXTENDS Integers, FiniteSets, SequencesExt

CONSTANTS Horizon,      \* the last minute of the day
          MaxWindows,   \* bound on the windows of a weekday
          MaxBooked     \* bound on the blocking bookings of a date

ASSUME SlotsAssumption == {Horizon, MaxWindows, MaxBooked} \subseteq Nat

VARIABLES weekly,   \* MateAvailability rows of the weekday
          booked    \* pending and confirmed bookings of the date

slotVars == <<weekly, booked>>

Interval == {i \in [start : 0 .. Horizon, end : 0 .. Horizon] : i.start < i.end}

Overlaps(a, b) == a.start < b.end /\ a.end > b.start
Greater(a, b) == IF a < b THEN b ELSE a
Smaller(a, b) == IF a < b THEN a ELSE b

\* seq holds each element of S, the pairs in before in this order; which order the
\* rest comes in is left open.
Arranges(seq, S, before) ==
  /\ \A x \in S : \E i \in DOMAIN seq : seq[i] = x
  /\ \A i, j \in DOMAIN seq : i < j => <<seq[j], seq[i]>> \notin before

\* sort, where it makes no difference how ties are broken; elsewhere any of Sortings.
Sorted(S, before) == CHOOSE seq \in [1..Cardinality(S) -> S] : Arranges(seq, S, before)
Sortings(S, before) == {seq \in [1..Cardinality(S) -> S] : Arranges(seq, S, before)}
ByStart(S) == Sorted(S, {p \in S \X S : p[1].start < p[2].start})

(***************************************************************************)
(* getPublicAvailability                                                   *)
(***************************************************************************)

Gap(from, to) == IF from < to THEN {[start |-> from, end |-> to]} ELSE {}

\* Mutant of Subtract: the cursor goes back to the end of a nested booking.
SubtractForgets(window, seen, booking) ==
  [open   |-> seen.open \cup Gap(seen.cursor, Greater(window.start, booking.start)),
   cursor |-> Smaller(window.end, booking.end)]

\* One booking of the loop: the gap before it is open.
Subtract(window, seen, booking) ==
  [open   |-> seen.open \cup Gap(seen.cursor, Greater(window.start, booking.start)),
   cursor |-> Greater(seen.cursor, Smaller(window.end, booking.end))]

\* The loop leaves at the end of the window; nothing later opens a gap in it.
SubtractIntervals(window) ==
  LET blocking == ByStart({b \in booked : Overlaps(b, window)})
      seen == FoldLeft(LAMBDA s, b : Subtract(window, s, b),
                       [open |-> {}, cursor |-> window.start], blocking)
  IN seen.open \cup Gap(seen.cursor, window.end)

OpenIntervals == UNION {SubtractIntervals(w) : w \in weekly}

(***************************************************************************)
(* hasOpenWindow                                                           *)
(***************************************************************************)

\* Mutant of Visit: a booking that covers the cursor is taken to fill the slot.
VisitFull(slot, at, booking) ==
  IF at.verdict # "looking" \/ booking.end <= at.cursor THEN at
  ELSE IF booking.start >= slot.end THEN [at EXCEPT !.verdict = "past"]
  ELSE IF booking.start > at.cursor THEN [at EXCEPT !.verdict = "open"]
  ELSE [at EXCEPT !.verdict = "full"]

\* One booking of the loop: "open" and "full" are its two returns, "past" its
\* break.
Visit(slot, at, booking) ==
  IF at.verdict # "looking" \/ booking.end <= at.cursor THEN at
  ELSE IF booking.start >= slot.end THEN [at EXCEPT !.verdict = "past"]
  ELSE IF booking.start > at.cursor THEN [at EXCEPT !.verdict = "open"]
  ELSE [cursor  |-> Greater(at.cursor, booking.end),
        verdict |-> IF booking.end >= slot.end THEN "full" ELSE "looking"]

SlotIsOpen(slot) ==
  LET at == FoldLeft(LAMBDA a, b : Visit(slot, a, b),
                     [cursor |-> slot.start, verdict |-> "looking"], ByStart(booked))
  IN \/ at.verdict = "open"
     \/ at.verdict # "full" /\ at.cursor < slot.end

HasOpenWindow == \E slot \in weekly : SlotIsOpen(slot)

(***************************************************************************)
(* isWithinAvailability                                                    *)
(***************************************************************************)

IsWithinAvailability(r) == \E slot \in weekly : r.start >= slot.start /\ r.end <= slot.end

(***************************************************************************)
(* The tables.  Windows may overlap after a race (module Availability) and *)
(* bookings after a revival (module Bookings).                             *)
(***************************************************************************)

SlotsInit == weekly = {} /\ booked = {}

OpenWindow(w) ==
  /\ Cardinality(weekly) < MaxWindows
  /\ weekly' = weekly \cup {w}
  /\ UNCHANGED booked

CloseWindow(w) == weekly' = weekly \ {w} /\ UNCHANGED booked

Book(b) ==
  /\ Cardinality(booked) < MaxBooked
  /\ booked' = booked \cup {b}
  /\ UNCHANGED weekly

Release(b) == booked' = booked \ {b} /\ UNCHANGED weekly

SlotsNext ==
  \/ \E w \in Interval : OpenWindow(w) \/ CloseWindow(w)
  \/ \E b \in Interval : Book(b) \/ Release(b)

(***************************************************************************)
(* Properties                                                              *)
(***************************************************************************)

\* The calendar allows a time (it lies in a window and meets no blocking booking)
\* exactly when it lies in one of the intervals that are shown as open.  Whether it
\* is long enough for a booking is not asked: an interval may be shown that is
\* shorter than the 60 minutes a booking takes at least (AVAIL-10, AVAIL-11).
OffersMatchBookings ==
  LET offers == OpenIntervals IN
  \A r \in Interval :
    (IsWithinAvailability(r) /\ \A b \in booked : ~Overlaps(b, r))
      <=> \E o \in offers : o.start <= r.start /\ r.end <= o.end

\* The discovery filter keeps a mate exactly when the mate's page shows an
\* open interval for the date.
DiscoveryAgrees == HasOpenWindow <=> OpenIntervals # {}
===============================================================================
