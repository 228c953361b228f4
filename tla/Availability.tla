---------------------------- MODULE Availability ----------------------------
(***************************************************************************)
(* The weekly schedule of one mate (mate-availability.service.ts).         *)
(*                                                                         *)
(* create and update look for an overlap in one query and write in         *)
(* another, in no transaction.  replace deletes what its DELETE statement  *)
(* sees and inserts the new windows in one transaction; until it commits   *)
(* the rows it has deleted are locked, and rows inserted behind its        *)
(* snapshot stay.  What keeps the table in order is the unique key over    *)
(* day, start and end alone.                                               *)
(***************************************************************************)
EXTENDS Integers, Functions

CONSTANTS RowIds,    \* ids of rows; the sequence never gives one out twice
          Windows,   \* the [day, start, end] that requests ask for
          Forms,     \* sets of fields that a request to update a window gives
          Workers    \* requests that can be in flight at the same time

Fields == {"day", "start", "end"}

ASSUME WindowsAssumption ==
  /\ Windows \subseteq [day : Nat, start : Nat, end : Nat]
  /\ Forms \subseteq (SUBSET Fields) \ {{}}

VARIABLES active,   \* Mate.isActive
          row,      \* the MateAvailability table of the mate
          job,      \* what every worker is doing
          stale     \* history: rows written on the ground of an outdated read

vars == <<active, row, job, stale>>

Unused == [state |-> "unused"]
Deleted == [state |-> "deleted"]
Idle == [pc |-> "idle"]

\* "fresh" as long as no window was added since the request read the table.
InsertJob == [pc : {"insert"}, window : Windows, fresh : BOOLEAN]
LookJob == [pc : {"look"}, id : RowIds, window : Windows, given : Forms, fresh : BOOLEAN]
\* current: nor between its two reads.
UpdateJob == [pc : {"update"}, id : RowIds, window : Windows, given : Forms,
              current : BOOLEAN, fresh : BOOLEAN]
RemoveJob == [pc : {"remove"}, id : RowIds]
ReplaceJob == [pc : {"delete", "replace"}, windows : SUBSET Windows,
               rows : SUBSET RowIds, fresh : BOOLEAN]

Job == {Idle} \cup InsertJob \cup LookJob \cup UpdateJob \cup RemoveJob \cup ReplaceJob

Stored(id) == row[id] \in Windows
Meets(a, b) == a.day = b.day /\ a.start < b.end /\ a.end > b.start

Init ==
  /\ active = TRUE
  /\ row = [id \in RowIds |-> Unused]
  /\ job = [w \in Workers |-> Idle]
  /\ stale = {}

At(w, pc) == job[w].pc = pc
Begin(w, j) == job' = [job EXCEPT ![w] = j]
Leave(w) == Begin(w, Idle)

\* A window was added: everyone who has read the table read it before.
Outdated(j) == IF j.pc \in {"insert", "look", "update", "delete", "replace"}
               THEN [j EXCEPT !.fresh = FALSE] ELSE j
LeaveAdding(w) == job' = [v \in Workers |-> IF v = w THEN Idle ELSE Outdated(job[v])]
Mark(w, ids) == stale' = IF job[w].fresh THEN stale \ ids ELSE stale \cup ids

\* Rows that others have deleted in a replace and not committed.
LockedFor(w) == UNION {job[v].rows : v \in {u \in Workers \ {w} : At(u, "replace")}}
\* Nobody else holds a row that has one of these values of the unique key.
KeyFree(w, windows) == \A id \in LockedFor(w) : row[id] \notin windows
\* The unique key refuses a window that another row has.
Taken(windows, except) == \E id \in RowIds \ except : row[id] \in windows

(***************************************************************************)
(* create, update, remove                                                  *)
(***************************************************************************)

\* Mutant of NoOverlap: a window inside the new one is not found.
NoOverlapInside(window, except) ==
  \A id \in RowIds \ except : Stored(id) =>
    ~(Meets(row[id], window) /\ row[id].end >= window.end)

NoOverlap(window, except) ==
  \A id \in RowIds \ except : Stored(id) => ~Meets(row[id], window)

CreateCheck(w, window) ==
  /\ job[w] = Idle
  /\ active
  /\ window.start < window.end
  /\ NoOverlap(window, {})
  /\ Begin(w, [pc |-> "insert", window |-> window, fresh |-> TRUE])
  /\ UNCHANGED <<active, row, stale>>

CreateInsert(w, id) ==
  /\ At(w, "insert")
  /\ KeyFree(w, {job[w].window})
  /\ \/ /\ ~Taken({job[w].window}, {})
        /\ row[id] = Unused
        /\ row' = [row EXCEPT ![id] = job[w].window]
        /\ Mark(w, {id})
        /\ LeaveAdding(w)
     \/ /\ Taken({job[w].window}, {})
        /\ Leave(w)
        /\ UNCHANGED <<row, stale>>
  /\ UNCHANGED active

\* Mutant of Merged: what is not given is not taken from the row.
MergedWith(given, window, old) == window

\* dayOfWeek, startTime and endTime: what is not given is as in the row.
Merged(given, window, old) ==
  [day   |-> IF "day" \in given THEN window.day ELSE old.day,
   start |-> IF "start" \in given THEN window.start ELSE old.start,
   end   |-> IF "end" \in given THEN window.end ELSE old.end]

\* Windows is also the bound on what a row can become.
UpdateRead(w, id, given, window) ==
  /\ job[w] = Idle
  /\ active
  /\ Stored(id)
  /\ LET merged == Merged(given, window, row[id]) IN
       /\ merged \in Windows
       /\ merged.start < merged.end
       /\ Begin(w, [pc |-> "look", id |-> id, window |-> merged, given |-> given, fresh |-> TRUE])
  /\ UNCHANGED <<active, row, stale>>

UpdateCheck(w) ==
  /\ At(w, "look")
  /\ LET j == job[w] IN
       IF NoOverlap(j.window, {j.id})
         THEN Begin(w, [pc |-> "update", id |-> j.id, window |-> j.window, given |-> j.given,
                        current |-> j.fresh, fresh |-> TRUE])
         ELSE Leave(w)
  /\ UNCHANGED <<active, row, stale>>

\* By id: a row that a replace is deleting is waited for, and not found then.
UpdateWrite(w) ==
  /\ At(w, "update")
  /\ LET id == job[w].id IN
       /\ id \notin LockedFor(w)
       /\ KeyFree(w, {job[w].window})
       /\ \/ /\ Stored(id) /\ ~Taken({job[w].window}, {id})
             /\ row' = [row EXCEPT ![id] = job[w].window]
             /\ Mark(w, {id})
             /\ LeaveAdding(w)
          \/ /\ ~Stored(id) \/ Taken({job[w].window}, {id})
             /\ Leave(w)
             /\ UNCHANGED <<row, stale>>
  /\ UNCHANGED active

RemoveCheck(w, id) ==
  /\ job[w] = Idle
  /\ active
  /\ Stored(id)
  /\ Begin(w, [pc |-> "remove", id |-> id])
  /\ UNCHANGED <<active, row, stale>>

RemoveDelete(w) ==
  /\ At(w, "remove")
  /\ job[w].id \notin LockedFor(w)
  /\ row' = [row EXCEPT ![job[w].id] = Deleted]
  /\ stale' = stale \ {job[w].id}
  /\ Leave(w)
  /\ UNCHANGED active

(***************************************************************************)
(* replace                                                                 *)
(***************************************************************************)

\* validateSchedule: the windows that are asked for do not overlap.
ValidSchedule(windows) ==
  /\ \A x \in windows : x.start < x.end
  /\ \A x, y \in windows : x # y => ~Meets(x, y)

\* The snapshot of the DELETE.
ReplaceStart(w, windows) ==
  /\ job[w] = Idle
  /\ ValidSchedule(windows)
  /\ active
  /\ Begin(w, [pc |-> "delete", windows |-> windows,
               rows |-> {id \in RowIds : Stored(id)}, fresh |-> TRUE])
  /\ UNCHANGED <<active, row, stale>>

\* Rows that another replace holds are waited for, and gone if it commits.
ReplaceDelete(w) ==
  /\ At(w, "delete")
  /\ job[w].rows \cap LockedFor(w) = {}
  /\ Begin(w, [job[w] EXCEPT !.pc = "replace", !.rows = {id \in @ : Stored(id)}])
  /\ UNCHANGED <<active, row, stale>>

\* Mutant of ReplaceCommit: the rows are inserted and none is deleted.
ReplaceCommitKeeps(w, ids) ==
  /\ At(w, "replace")
  /\ LET j == job[w] IN
       /\ KeyFree(w, j.windows)
       /\ ~Taken(j.windows, {})
       /\ ids \subseteq {id \in RowIds : row[id] = Unused}
       /\ \E place \in Bijection(ids, j.windows) :
            row' = [id \in RowIds |-> IF id \in ids THEN place[id] ELSE row[id]]
       /\ Mark(w, ids)
  /\ LeaveAdding(w)
  /\ UNCHANGED active

\* The inserts and the commit.  A window that a row behind the snapshot has
\* already rolls everything back.
ReplaceCommit(w, ids) ==
  /\ At(w, "replace")
  /\ LET j == job[w] IN
       /\ KeyFree(w, j.windows)
       /\ \/ /\ ~Taken(j.windows, j.rows)
             /\ ids \subseteq {id \in RowIds : row[id] = Unused}
             /\ \E place \in Bijection(ids, j.windows) :
                  row' = [id \in RowIds |-> IF id \in ids THEN place[id]
                                            ELSE IF id \in j.rows THEN Deleted
                                            ELSE row[id]]
             /\ stale' = (stale \ j.rows) \cup (IF j.fresh THEN {} ELSE ids)
             /\ LeaveAdding(w)
          \/ /\ Taken(j.windows, j.rows)
             /\ Leave(w)
             /\ UNCHANGED <<row, stale>>
  /\ UNCHANGED active

\* A request dies, or the database picks it as the victim of a deadlock of two
\* replaces: a transaction is rolled back, a single statement has not run.
Fail(w) ==
  /\ job[w] # Idle
  /\ Leave(w)
  /\ UNCHANGED <<active, row, stale>>

\* The mate deactivates the profile; requests past their check go on.
Deactivate ==
  /\ active
  /\ active' = FALSE
  /\ UNCHANGED <<row, job, stale>>

\* An admin activates the account, and with it the profile.
Activate ==
  /\ ~active
  /\ active' = TRUE
  /\ UNCHANGED <<row, job, stale>>

Step(w) ==
  \/ \E id \in RowIds : CreateInsert(w, id)
  \/ UpdateCheck(w)
  \/ UpdateWrite(w)
  \/ RemoveDelete(w)
  \/ ReplaceDelete(w)
  \/ \E ids \in SUBSET RowIds : ReplaceCommit(w, ids)

Call(w) ==
  \/ \E x \in Windows : CreateCheck(w, x)
  \/ \E id \in RowIds, given \in Forms, x \in Windows : UpdateRead(w, id, given, x)
  \/ \E id \in RowIds : RemoveCheck(w, id)
  \/ \E windows \in SUBSET Windows : ReplaceStart(w, windows)

Next == (\E w \in Workers : Call(w) \/ Step(w) \/ Fail(w)) \/ Deactivate \/ Activate

Spec == Init /\ [][Next]_vars

(***************************************************************************)
(* Properties                                                              *)
(***************************************************************************)

\* The types of the table and the jobs; a stale row is in the table, and so is a
\* row that a replace has deleted, which no other replace deletes.
TypeOK ==
  /\ active \in BOOLEAN
  /\ row \in [RowIds -> Windows \cup {Unused, Deleted}]
  /\ job \in [Workers -> Job]
  /\ stale \subseteq {id \in RowIds : Stored(id)}
  /\ \A w \in Workers : At(w, "replace") =>
       \A id \in job[w].rows : Stored(id) /\ id \notin LockedFor(w)

\* Two windows of a day overlap only if one of them was written by a request
\* whose check was overtaken by another write (AVAIL-03, AVAIL-14).
OverlapNeedsRace ==
  \A x, y \in RowIds : x # y /\ Stored(x) /\ Stored(y) /\ Meets(row[x], row[y])
                         => x \in stale \/ y \in stale

\* An update changes a field that it was not given only if another request wrote
\* between its read of the row and its write: no other change is lost (AVAIL-14).
LostUpdateNeedsRace ==
  [][\A w \in Workers :
       At(w, "update") /\ job[w].fresh /\ job[w].current /\ job'[w] = Idle /\ row' # row
         => \A f \in Fields \ job[w].given : row'[job[w].id][f] = row[job[w].id][f]]_vars

\* A replace that nobody overtook leaves its windows and nothing else.
Schedule == {row[id] : id \in {i \in RowIds : Stored(i)}}
ReplaceIsWhole ==
  [][\A w \in Workers :
       At(w, "replace") /\ job[w].fresh /\ job'[w] = Idle /\ row' # row
         => Schedule' = job[w].windows]_vars
===============================================================================
