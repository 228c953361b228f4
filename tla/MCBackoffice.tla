---------------------------- MODULE MCBackoffice ----------------------------
(***************************************************************************)
(* A small instance of Backoffice, which explores one part at a time.      *)
(***************************************************************************)
EXTENDS Backoffice, TLC

CONSTANTS w1, w2, u1, u2, a1, a2, b1, b2, n1, n2, n3, m1, x, y

MCWorkers == {w1, w2}
MCUserIds == {u1, u2}
MCAdmins == {a1, a2}
MCOwnerOf == m1 :> u2
MCBookedBy == b1 :> [renter |-> u1, mate |-> m1]
MCReviewOf == 1 :> [renter |-> u1, mate |-> m1]
MCSentIn == 1 :> b1
MCOrders == {b1, b2}
MCAmount == (b1 :> 1) @@ (b2 :> 2)
MCNotices == {n1, n2, n3}

\* Reports of every kind, one at a time; two admins who resolve one report; an admin
\* who turns the pages of a list that grows while another one resolves open reports.
Kinds == Filed \subseteq {1} /\ turn.pc = "none" /\ \A a \in Admins : desk[a].pc = "idle"
SomeReports == removed = {} /\ \A id \in Filed : report[id].by = u1 /\ report[id].target.id = u2
Desks == SomeReports /\ turn.pc = "none" /\ Filed \subseteq {1}
Reviews == desk[a1].pc = "resolve" => desk[a1].status = "reviewed" /\ desk[a1].note = NoNote
Turns ==
  /\ SomeReports /\ Reviews /\ desk[a2].pc = "idle" /\ turn.pc # "none"
  /\ \A id \in Filed : report[id].status \in {"open", "reviewed"} /\ report[id].note = NoNote
  /\ \/ turn.filter = "open" /\ Cardinality({id \in Filed : report[id].status # "open"}) <= 1
     \/ turn.filter = All /\ desk[a1].pc = "idle" /\ \A id \in Filed : report[id].status = "open"
Grows == SomeReports /\ turn.pc = "none" /\ \A a \in Admins : desk[a].pc = "idle"
           /\ \A id \in Filed : report[id].status = "open"

\* Bookings are made and one of them decided, or payments received and one refunded.
OnlyBookings ==
  /\ \A b \in Orders : paid[b] = Absent
  /\ placed[b1].status \in {"absent", "pending", "confirmed"} /\ placed[b2].status \in {"absent", "pending"}
  /\ placed[b2] # Absent => placed[b1] # Absent /\ placed[b1].at <= placed[b2].at
OnlyPayments ==
  /\ \A b \in Orders : placed[b] = [status |-> "pending", at |-> 0]
  /\ paid[b1].status # "refunding"

NoAccounts == Known = {} /\ \A w \in Workers : job[w] = Idle
NoReports == Filed = {} /\ removed = {} /\ turn.pc = "none"
NoFigures == figures.pc = "none" /\ \A b \in Orders : placed[b] = Absent
NoInbox == \A n \in NoticeIds : notice[n] = NoNotice

\* Bound: one part at a time.
Bound ==
  \/ NoReports /\ NoFigures /\ NoInbox
  \/ NoAccounts /\ NoFigures /\ NoInbox /\ (Kinds \/ Desks \/ Grows \/ Turns)
  \/ NoAccounts /\ NoReports /\ NoInbox /\ (OnlyBookings \/ OnlyPayments)
  \/ NoAccounts /\ NoReports /\ NoFigures

BoundedSpec == Init /\ [][Next /\ Bound']_vars
=============================================================================
