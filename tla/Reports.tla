------------------------------- MODULE Reports -------------------------------
(***************************************************************************)
(* Reports to the moderators (admin.service.ts, reports.controller.ts):    *)
(* createReport, resolveReport, and listReports as an admin who turns the  *)
(* pages of the list meets it.                                             *)
(*                                                                         *)
(* A resolution reads the report and writes it in a later statement, by    *)
(* id; without a note of its own it writes the one that it read, and an    *)
(* empty note is a note of its own.  A page of the list is two queries,    *)
(* one that counts and one that reads by offset, latest first.  Ids stand  *)
(* for the times of creation.                                              *)
(***************************************************************************)
EXTENDS Integers, FiniteSets

CONSTANTS Admins,         \* each with one request at a time
          ReportIds,      \* a range of Nat; ids are given out in order
          Users, Profiles, Bookings, ReviewIds, Messages,
          OwnerOf,        \* the user of each mate's profile
          BookedBy,       \* [renter, mate] of each booking
          ReviewOf,       \* [renter, mate] of each review
          SentIn,         \* the booking of each message
          Notes,          \* with text, trimmed
          PageSize

ASSUME ReportsAssumption ==
  /\ ReportIds \subseteq Nat
  /\ PageSize \in Nat \ {0}
  /\ OwnerOf \in [Profiles -> Users]
  /\ BookedBy \in [Bookings -> [renter : Users, mate : Profiles]]
  /\ ReviewOf \in [ReviewIds -> [renter : Users, mate : Profiles]]
  /\ SentIn \in [Messages -> Bookings]

VARIABLES report,         \* the Report table
          removed,        \* reviews that are gone
          desk,           \* what every admin is writing
          turn            \* an admin who turns the pages of the list

reportVars == <<report, removed, desk, turn>>

NoReport == [state |-> "none"]
NoNote == "no note"
Blank == "blank note"   \* a note of nothing but spaces is trimmed and let through
Given == Notes \cup {Blank, NoNote}
Outcomes == {"reviewed", "dismissed", "actioned"}
All == "all"

Target == [type : {"user"}, id : Users] \cup [type : {"mate"}, id : Profiles]
  \cup [type : {"booking"}, id : Bookings] \cup [type : {"review"}, id : ReviewIds]
  \cup [type : {"message"}, id : Messages]

Filed == {id \in ReportIds : report[id] # NoReport}
NextReport == CHOOSE id \in ReportIds \ Filed : \A other \in ReportIds \ Filed : id <= other

ReportsInit ==
  /\ report = [id \in ReportIds |-> NoReport]
  /\ removed = {}
  /\ desk = [a \in Admins |-> [pc |-> "idle"]]
  /\ turn = [pc |-> "none"]

Listed(filter) == {id \in Filed : filter \in {All, report[id].status}}

\* What the page in hand was counted for, and what the pages before it showed, is no
\* longer the list: a report has left it, or has come to it between two queries.
Disturbed(id, status) ==
  LET was == id \in Listed(turn.filter)
      is == turn.filter \in {All, status} IN
  turn' = IF turn.pc \in {"count", "page"} /\ ((was /\ ~is) \/ (~was /\ is /\ turn.pc = "page"))
            THEN [turn EXCEPT !.steady = FALSE] ELSE turn

(***************************************************************************)
(* createReport                                                            *)
(***************************************************************************)

TakesPart(u, pair) == u = pair.renter \/ u = OwnerOf[pair.mate]

\* validateReportTarget: not oneself, and only what one takes part in.
MayReport(u, target) ==
  CASE target.type = "user"    -> target.id # u
    [] target.type = "mate"    -> OwnerOf[target.id] # u
    [] target.type = "booking" -> TakesPart(u, BookedBy[target.id])
    [] target.type = "review"  -> target.id \notin removed /\ TakesPart(u, ReviewOf[target.id])
    [] target.type = "message" -> TakesPart(u, BookedBy[SentIn[target.id]])

\* Nothing that the checks read but a review can go away, and that it is gone is
\* not looked at again.
CreateReport(u, target) ==
  /\ Filed # ReportIds
  /\ MayReport(u, target)
  /\ report' = [report EXCEPT ![NextReport] =
                  [by |-> u, target |-> target, status |-> "open", note |-> NoNote]]
  /\ Disturbed(NextReport, "open")
  /\ UNCHANGED <<removed, desk>>

\* ReviewsService.remove
RemoveReview(id) ==
  /\ removed' = removed \cup {id}
  /\ UNCHANGED <<report, desk, turn>>

(***************************************************************************)
(* resolveReport                                                           *)
(***************************************************************************)

\* Mutant of ResolveRead: the note that the report has is not kept.
ResolveReadDrops(a, id, status, note) ==
  /\ desk[a].pc = "idle"
  /\ id \in Filed
  /\ desk' = [desk EXCEPT ![a] = [pc |-> "resolve", id |-> id, status |-> status,
                                  note |-> note, given |-> note, fresh |-> TRUE]]
  /\ UNCHANGED <<report, removed, turn>>

\* given and fresh are history: what the request had for a note, and whether nobody has
\* resolved the report since it was read.
ResolveRead(a, id, status, note) ==
  /\ desk[a].pc = "idle"
  /\ id \in Filed
  /\ desk' = [desk EXCEPT ![a] = [pc |-> "resolve", id |-> id, status |-> status,
                                  note |-> IF note = NoNote THEN report[id].note ELSE note,
                                  given |-> note, fresh |-> TRUE]]
  /\ UNCHANGED <<report, removed, turn>>

\* A report that is resolved may be resolved again (REPORT-10).
ResolveWrite(a) ==
  /\ desk[a].pc = "resolve"
  /\ LET r == desk[a] IN
       /\ report' = [report EXCEPT ![r.id] = [@ EXCEPT !.status = r.status, !.note = r.note]]
       /\ desk' = [b \in Admins |->
                     IF b = a THEN [pc |-> "idle"]
                     ELSE IF desk[b].pc = "resolve" /\ desk[b].id = r.id
                       THEN [desk[b] EXCEPT !.fresh = FALSE] ELSE desk[b]]
       /\ Disturbed(r.id, r.status)
  /\ UNCHANGED removed

ResolveFail(a) ==
  /\ desk[a].pc = "resolve"
  /\ desk' = [desk EXCEPT ![a] = [pc |-> "idle"]]
  /\ UNCHANGED <<report, removed, turn>>

(***************************************************************************)
(* listReports                                                             *)
(***************************************************************************)

Offset(page) == (page - 1) * PageSize
\* Latest first: a report comes after those that were filed later.
Ahead(id, rows) == {other \in rows : other > id}
PageOf(rows, page) ==
  {id \in rows : Cardinality(Ahead(id, rows)) \in Offset(page)..Offset(page) + PageSize - 1}

\* due is history: what the admin ought to see; steady: nothing left the list since
\* it was opened, and nothing came between the two queries of a page.
TurnOpen(filter) ==
  /\ turn.pc \in {"none", "done"}
  /\ turn' = [pc |-> "count", filter |-> filter, page |-> 1, pages |-> 0, seen |-> {},
              due |-> Listed(filter), steady |-> TRUE]
  /\ UNCHANGED <<report, removed, desk>>

TurnCount ==
  /\ turn.pc = "count"
  /\ LET total == Cardinality(Listed(turn.filter)) IN
       turn' = [turn EXCEPT !.pc = "page", !.pages = (total + PageSize - 1) \div PageSize]
  /\ UNCHANGED <<report, removed, desk>>

\* Mutant of TurnPage: the last page is not asked for.
TurnPageShort ==
  /\ turn.pc = "page"
  /\ turn' = [turn EXCEPT !.pc = IF turn.page < turn.pages - 1 THEN "count" ELSE "done",
                          !.page = IF turn.page < turn.pages - 1 THEN @ + 1 ELSE @,
                          !.seen = @ \cup PageOf(Listed(turn.filter), turn.page)]
  /\ UNCHANGED <<report, removed, desk>>

TurnPage ==
  /\ turn.pc = "page"
  /\ turn' = [turn EXCEPT !.pc = IF turn.page < turn.pages THEN "count" ELSE "done",
                          !.page = IF turn.page < turn.pages THEN @ + 1 ELSE @,
                          !.seen = @ \cup PageOf(Listed(turn.filter), turn.page)]
  /\ UNCHANGED <<report, removed, desk>>

ReportsNext ==
  \/ \E u \in Users, target \in Target : CreateReport(u, target)
  \/ \E id \in ReviewIds \ removed : RemoveReview(id)
  \/ \E a \in Admins :
       \/ \E id \in ReportIds, status \in Outcomes, note \in Given :
            ResolveRead(a, id, status, note)
       \/ ResolveWrite(a) \/ ResolveFail(a)
  \/ \E filter \in Outcomes \cup {"open", All} : TurnOpen(filter)
  \/ TurnCount \/ TurnPage

(***************************************************************************)
(* Properties                                                              *)
(***************************************************************************)

\* A moderator's note changes only by a resolution that has a note of its own, which it
\* then is (a blank one erases it), or by one without a note that had read the report
\* before another resolution wrote it (REPORT-10).
NoteLostNeedsRace ==
  [][\A id \in Filed : report'[id].note # report[id].note =>
       \E a \in Admins :
         /\ desk[a].pc = "resolve" /\ desk[a].id = id /\ desk'[a].pc = "idle"
         /\ IF desk[a].given = NoNote THEN ~desk[a].fresh
            ELSE report'[id].note = desk[a].given]_reportVars

\* An admin who turns all pages sees every report that was on the list at the start,
\* however many new ones push it from page to page: what is missed was missed because
\* a report left the list, or came between the two queries of one page (REPORT-07).
TurnsMissNothing == turn.pc = "done" /\ turn.steady => turn.due \subseteq turn.seen
=============================================================================
