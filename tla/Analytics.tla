------------------------------ MODULE Analytics ------------------------------
(***************************************************************************)
(* The figures of a range of days (getAnalytics of admin.service.ts).      *)
(* Four queries run side by side and in no transaction, the last of which  *)
(* are in truth several reads one after the other: totals are computed by  *)
(* the database over a range of instants, the figures of every day by the  *)
(* program over rows.  Days are those of Bangkok; an instant counts units  *)
(* from a midnight in UTC.  New users are counted like bookings and are    *)
(* not repeated.                                                           *)
(***************************************************************************)
EXTENDS Integers, FiniteSets, Functions

CONSTANTS Orders,       \* ids of bookings, and of the payments for them
          Amount,       \* of each payment
          DayLength,    \* units of a day
          BangkokOffset, \* units by which the day begins earlier in Bangkok
          LastInstant   \* now, the instant of what is created during the request

ASSUME AnalyticsAssumption ==
  /\ IsFiniteSet(Orders)
  /\ DayLength \in Nat \ {0} /\ BangkokOffset \in 0..DayLength - 1 /\ LastInstant \in Nat
  /\ Amount \in [Orders -> Nat]

VARIABLES placed,       \* bookings: created at, and status
          paid,         \* payments: paid at, and status
          figures       \* one request

analyticsVars == <<placed, paid, figures>>

Absent == [status |-> "absent"]
Instants == 0..LastInstant
Statuses == {"pending", "confirmed", "cancelled", "completed"}

\* In Bangkok.
Day(t) == (t + BangkokOffset) \div DayLength
Days == 0..Day(LastInstant)
StartOf(day) == day * DayLength - BangkokOffset

\* createdAt.gte(fromInstant), lt(toInstant): the end of the last day.
InRange(t, from, to) == t >= StartOf(from) /\ t < StartOf(to + 1)

Placed(from, to) ==
  {b \in Orders : placed[b] # Absent /\ InRange(placed[b].at, from, to)}
\* The rows that are still 'paid' and were paid in the range.
Paid(from, to) ==
  {b \in Orders : paid[b].status = "paid" /\ InRange(paid[b].at, from, to)}

Revenue(ids) == SumFunctionOnSet(Amount, ids)

AnalyticsInit ==
  /\ placed \in [Orders -> {Absent} \cup [status : {"pending"}, at : Instants]]
  /\ paid \in [Orders -> {Absent} \cup [status : {"paid"}, at : Instants]]
  /\ \A b \in Orders : paid[b] # Absent => placed[b] # Absent /\ placed[b].at <= paid[b].at
  /\ figures = [pc |-> "none"]

(***************************************************************************)
(* getAnalytics                                                            *)
(***************************************************************************)

Reading == figures.pc = "reading"
Waits(field) == Reading /\ field \notin DOMAIN figures.got
Got(field, value) ==
  /\ figures' = [figures EXCEPT !.got = [f \in DOMAIN @ \cup {field} |->
                                           IF f = field THEN value ELSE @[f]]]
  /\ UNCHANGED <<placed, paid>>

\* History: whether a booking was created (grown) or a payment changed (moved)
\* since the request came.
Ask(from, to) ==
  /\ figures.pc = "none"
  /\ from <= to
  /\ figures' = [pc |-> "reading", from |-> from, to |-> to, got |-> << >>,
                 grown |-> FALSE, moved |-> FALSE]
  /\ UNCHANGED <<placed, paid>>

\* aggregateBookingCounts: one query, GROUP BY status.
CountByStatus ==
  /\ Waits("counts")
  /\ Got("counts", [s \in Statuses |->
       Cardinality({b \in Placed(figures.from, figures.to) : placed[b].status = s})])

SumRevenue ==
  /\ Waits("revenue")
  /\ Got("revenue", Revenue(Paid(figures.from, figures.to)))

\* Mutant of PerDay: the days are those of UTC.
PerDayUtc(ids, row, from, to) ==
  [d \in from..to |-> {b \in ids : row[b].at \div DayLength = d}]

\* The rows of the range, by the day that their instant has in Bangkok.
PerDay(ids, row, from, to) == [d \in from..to |-> {b \in ids : Day(row[b].at) = d}]

\* aggregateDaily reads the bookings, then the payments.
DailyBookings ==
  /\ Waits("bookings")
  /\ LET byDay == PerDay(Placed(figures.from, figures.to), placed, figures.from, figures.to)
     IN Got("bookings", [d \in DOMAIN byDay |-> Cardinality(byDay[d])])

DailyRevenue ==
  /\ Waits("daily")
  /\ ~Waits("bookings")
  /\ LET byDay == PerDay(Paid(figures.from, figures.to), paid, figures.from, figures.to)
     IN Got("daily", [d \in DOMAIN byDay |-> Revenue(byDay[d])])

Answer ==
  /\ Reading
  /\ \A field \in {"counts", "revenue", "bookings", "daily"} : ~Waits(field)
  /\ figures' = [figures EXCEPT !.pc = "answered"]
  /\ UNCHANGED <<placed, paid>>

(***************************************************************************)
(* What others do in the meantime                                          *)
(***************************************************************************)

Place(b) ==
  /\ Reading
  /\ placed[b] = Absent
  /\ placed' = [placed EXCEPT ![b] = [status |-> "pending", at |-> LastInstant]]
  /\ figures' = [figures EXCEPT !.grown = TRUE]
  /\ UNCHANGED paid

Decide(b, status) ==
  /\ Reading
  /\ placed[b] # Absent
  /\ <<placed[b].status, status>> \in {<<"pending", "confirmed">>, <<"confirmed", "completed">>,
                                       <<"pending", "cancelled">>, <<"confirmed", "cancelled">>}
  /\ placed' = [placed EXCEPT ![b].status = status]
  /\ UNCHANGED <<paid, figures>>

Pay(b) ==
  /\ Reading
  /\ placed[b] # Absent /\ paid[b] = Absent
  /\ paid' = [paid EXCEPT ![b] = [status |-> "paid", at |-> LastInstant]]
  /\ figures' = [figures EXCEPT !.moved = TRUE]
  /\ UNCHANGED placed

\* A refund leaves the instant of the payment.
Refund(b) ==
  /\ Reading
  /\ paid[b].status = "paid"
  /\ paid' = [paid EXCEPT ![b].status = "refunding"]
  /\ figures' = [figures EXCEPT !.moved = TRUE]
  /\ UNCHANGED placed

AnalyticsNext ==
  \/ \E from, to \in Days : Ask(from, to)
  \/ CountByStatus \/ SumRevenue \/ DailyBookings \/ DailyRevenue \/ Answer
  \/ \E b \in Orders : Place(b) \/ Pay(b) \/ Refund(b) \/ \E s \in Statuses : Decide(b, s)

(***************************************************************************)
(* Properties                                                              *)
(***************************************************************************)

\* The days of an answer add up to its totals, although they are computed apart and
\* from reads at different moments: decisions that are taken in between do not
\* matter, only bookings that are made, and payments that are received or refunded.
DaysAddUp ==
  figures.pc = "answered" =>
    LET got == figures.got IN
    /\ DOMAIN got.bookings = figures.from..figures.to
    /\ ~figures.grown => SumFunction(got.bookings) = SumFunction(got.counts)
    /\ ~figures.moved => SumFunction(got.daily) = got.revenue
=============================================================================
