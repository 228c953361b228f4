-------------------------- MODULE AvailabilityProofs --------------------------
(***************************************************************************)
(* Theorems about Availability, for every set of rows, windows and         *)
(* requests in flight.                                                     *)
(***************************************************************************)
EXTENDS Availability, TLAPS

\* What a create or an update has checked holds until a window is added.
CheckHolds ==
  \A w \in Workers :
    /\ At(w, "insert") /\ job[w].fresh => NoOverlap(job[w].window, {})
    /\ At(w, "update") /\ job[w].fresh => NoOverlap(job[w].window, {job[w].id})

\* Until a window is added, the rows of a replace are all there are.
ReplaceSeesAll ==
  \A w \in Workers : At(w, "delete") \/ At(w, "replace") =>
    /\ ValidSchedule(job[w].windows)
    /\ job[w].fresh => \A id \in RowIds : Stored(id) => id \in job[w].rows

\* Until a window is added, an update has the fields that it was not given from the row.
FilledFromRow ==
  \A w \in Workers :
    /\ \/ At(w, "look") /\ job[w].fresh
       \/ At(w, "update") /\ job[w].fresh /\ job[w].current
    /\ Stored(job[w].id)
    => \A f \in Fields \ job[w].given : job[w].window[f] = row[job[w].id][f]

\* The inductive invariant.
AvailabilityInv ==
  TypeOK /\ OverlapNeedsRace /\ CheckHolds /\ ReplaceSeesAll /\ FilledFromRow

\* An unused id and a deleted row are no windows.
LEMMA WindowsAreRows ==
  Unused \notin Windows /\ Deleted \notin Windows /\ Unused # Deleted
BY WindowsAssumption DEF Unused, Deleted

\* What a request at a program point is doing.
LEMMA JobAt ==
  ASSUME TypeOK, NEW w \in Workers
  PROVE  /\ At(w, "insert") => job[w] \in InsertJob
         /\ At(w, "look") => job[w] \in LookJob
         /\ At(w, "update") => job[w] \in UpdateJob
         /\ At(w, "remove") => job[w] \in RemoveJob
         /\ At(w, "delete") \/ At(w, "replace") => job[w] \in ReplaceJob
BY DEF TypeOK, At, Job, Idle, InsertJob, LookJob, UpdateJob, RemoveJob, ReplaceJob

LEMMA IdleIsJob == Idle \in Job /\ Idle.pc = "idle"
BY DEF Idle, Job

\* The rows that others have locked, without the union.
LEMMA Locks ==
  ASSUME NEW w \in Workers, NEW id
  PROVE  id \in LockedFor(w) <=>
           \E v \in Workers \ {w} : At(v, "replace") /\ id \in job[v].rows
BY DEF LockedFor

\* A request that has become outdated is where it was, and is not fresh.
LEMMA OutdatedJob ==
  ASSUME NEW j \in Job
  PROVE  /\ Outdated(j) \in Job
         /\ Outdated(j).pc = j.pc
         /\ j.pc \in {"insert", "look", "update", "delete", "replace"} => ~Outdated(j).fresh
         /\ j.pc \in {"delete", "replace"} =>
              Outdated(j).rows = j.rows /\ Outdated(j).windows = j.windows
<1>1. CASE j = Idle
  BY <1>1, IdleIsJob DEF Outdated, Idle
<1>2. CASE j \in InsertJob
  BY <1>2 DEF Outdated, Job, InsertJob
<1>3. CASE j \in LookJob
  BY <1>3 DEF Outdated, Job, LookJob
<1>4. CASE j \in UpdateJob
  BY <1>4 DEF Outdated, Job, UpdateJob
<1>5. CASE j \in RemoveJob
  BY <1>5 DEF Outdated, Job, RemoveJob
<1>6. CASE j \in ReplaceJob
  BY <1>6 DEF Outdated, Job, ReplaceJob
<1>7. QED
  BY <1>1, <1>2, <1>3, <1>4, <1>5, <1>6 DEF Job

LEMMA InvInit == Init => AvailabilityInv
<1> SUFFICES ASSUME Init PROVE AvailabilityInv
  OBVIOUS
<1> USE WindowsAreRows, IdleIsJob DEF Init
<1>1. TypeOK
  BY DEF TypeOK, Stored, At, Idle
<1>2. QED
  BY <1>1 DEF AvailabilityInv, OverlapNeedsRace, CheckHolds, ReplaceSeesAll, FilledFromRow,
       Stored, At, Idle

\* A step of one request that leaves the table alone.
LEMMA CalmStep ==
  ASSUME AvailabilityInv, NEW w \in Workers, NEW j \in Job,
         Begin(w, j), UNCHANGED <<row, stale>>, active' \in BOOLEAN,
         j.pc = "replace" => \A id \in j.rows : Stored(id) /\ id \notin LockedFor(w),
         j.pc = "insert" /\ j.fresh => NoOverlap(j.window, {}),
         j.pc = "update" /\ j.fresh => NoOverlap(j.window, {j.id}),
         j.pc \in {"delete", "replace"} =>
           /\ ValidSchedule(j.windows)
           /\ j.fresh => \A id \in RowIds : Stored(id) => id \in j.rows,
         /\ j.pc \in {"look", "update"} /\ j.fresh
         /\ j.pc = "update" => j.current
         /\ Stored(j.id)
         => \A f \in Fields \ j.given : j.window[f] = row[j.id][f]
  PROVE  AvailabilityInv'
<1>1. job' = [job EXCEPT ![w] = j] /\ job' \in [Workers -> Job]
  BY DEF Begin, AvailabilityInv, TypeOK
<1>2. \A v \in Workers : v # w => job'[v] = job[v]
  BY <1>1 DEF AvailabilityInv, TypeOK
<1>3. job'[w] = j
  BY <1>1 DEF AvailabilityInv, TypeOK
<1>4. \A id : Stored(id)' <=> Stored(id)
  BY DEF Stored
<1>5. ASSUME NEW v \in Workers, At(v, "replace")', NEW id \in job'[v].rows
      PROVE  Stored(id)' /\ (id \notin LockedFor(v))'
  <2>1. Stored(id) /\ \A u \in Workers \ {v} : job'[u].pc = "replace" => id \notin job'[u].rows
    <3>1. CASE v = w
      <4>1. Stored(id) /\ \A u \in Workers \ {w} : job[u].pc = "replace" => id \notin job[u].rows
        BY <1>3, <1>5, <3>1, Locks DEF At
      <4>2. QED
        BY <4>1, <3>1, <1>2
    <3>2. CASE v # w
      <4>1. Stored(id) /\ \A u \in Workers \ {v} : job[u].pc = "replace" => id \notin job[u].rows
        BY <1>2, <1>5, <3>2, Locks DEF At, AvailabilityInv, TypeOK
      <4>2. j.pc = "replace" => id \notin j.rows
        BY <1>2, <1>5, <3>2, Locks DEF At
      <4>3. QED
        BY <4>1, <4>2, <1>2, <1>3
    <3>3. QED
      BY <3>1, <3>2
  <2>2. QED
    BY <2>1, <1>4 DEF LockedFor, At
<1>6. TypeOK'
  BY <1>1, <1>4, <1>5 DEF AvailabilityInv, TypeOK
<1>7. OverlapNeedsRace'
  BY DEF AvailabilityInv, OverlapNeedsRace, Stored
<1>8. CheckHolds'
  BY <1>2, <1>3 DEF AvailabilityInv, CheckHolds, At, NoOverlap, Stored
<1>9. ReplaceSeesAll'
  BY <1>2, <1>3 DEF AvailabilityInv, ReplaceSeesAll, At, Stored
<1>10. FilledFromRow'
  BY <1>2, <1>3 DEF AvailabilityInv, FilledFromRow, At, Stored
<1>11. QED
  BY <1>6, <1>7, <1>8, <1>9, <1>10 DEF AvailabilityInv

\* A step that has written the rows ids and deleted others: everyone else is outdated.
LEMMA AddingStep ==
  ASSUME AvailabilityInv, NEW w \in Workers, NEW ids \in SUBSET RowIds,
         LeaveAdding(w), UNCHANGED active,
         row' \in [RowIds -> Windows \cup {Unused, Deleted}],
         \A id \in RowIds \ ids : Stored(id)' => row'[id] = row[id],
         \A id \in stale' : id \in RowIds /\ Stored(id)',
         \A id \in RowIds \ ids : Stored(id)' /\ id \in stale => id \in stale',
         \A v \in Workers \ {w} : At(v, "replace") => \A id \in job[v].rows : Stored(id)',
         \A id \in ids \ stale' : \A x \in RowIds \ {id} :
           Stored(id)' /\ Stored(x)' => ~Meets(row'[id], row'[x])
  PROVE  AvailabilityInv'
<1>1. job' = [v \in Workers |-> IF v = w THEN Idle ELSE Outdated(job[v])]
  BY DEF LeaveAdding
<1>2. job' \in [Workers -> Job]
  BY <1>1, OutdatedJob, IdleIsJob DEF AvailabilityInv, TypeOK
<1>3. \A v \in Workers : v # w => job'[v] = Outdated(job[v]) /\ job[v] \in Job
  BY <1>1 DEF AvailabilityInv, TypeOK
<1>4. job'[w] = Idle
  BY <1>1
<1>5. ASSUME NEW v \in Workers, At(v, "replace")', NEW id \in job'[v].rows
      PROVE  Stored(id)' /\ (id \notin LockedFor(v))'
  <2>1. v # w /\ job[v].pc = "replace" /\ id \in job[v].rows
    BY <1>3, <1>4, <1>5, OutdatedJob, IdleIsJob DEF At
  <2>2. id \notin LockedFor(v)
    BY <2>1 DEF AvailabilityInv, TypeOK, At
  <2>3. \A u \in Workers \ {v} : job[u].pc = "replace" => id \notin job[u].rows
    BY <2>2, Locks DEF At
  <2>4. \A u \in Workers \ {v} : job'[u].pc = "replace" => id \notin job'[u].rows
    BY <2>3, <1>3, <1>4, OutdatedJob, IdleIsJob
  <2>5. Stored(id)'
    BY <2>1 DEF At
  <2>6. QED
    BY <2>4, <2>5 DEF LockedFor, At
<1>6. TypeOK'
  BY <1>2, <1>5 DEF AvailabilityInv, TypeOK
<1>7. OverlapNeedsRace'
  <2> SUFFICES ASSUME NEW x \in RowIds, NEW y \in RowIds, x # y, Stored(x)', Stored(y)',
                      Meets(row'[x], row'[y]), x \notin stale', y \notin stale'
               PROVE  FALSE
    BY DEF OverlapNeedsRace
  <2>1. Meets(row'[y], row'[x])
    BY DEF Meets
  <2>2. x \notin ids /\ y \notin ids
    BY <2>1
  <2>3. row'[x] = row[x] /\ row'[y] = row[y]
    BY <2>2
  <2>4. Stored(x) /\ Stored(y) /\ x \notin stale /\ y \notin stale
    BY <2>2, <2>3 DEF Stored
  <2>5. QED
    BY <2>3, <2>4 DEF AvailabilityInv, OverlapNeedsRace
<1>8. \A v \in Workers : job'[v].pc \in {"insert", "look", "update", "delete", "replace"} =>
        ~job'[v].fresh
  BY <1>3, <1>4, OutdatedJob, IdleIsJob
<1>9. CheckHolds' /\ FilledFromRow'
  BY <1>8 DEF CheckHolds, FilledFromRow, At
<1>10. ASSUME NEW v \in Workers, At(v, "delete")' \/ At(v, "replace")'
       PROVE  ValidSchedule(job'[v].windows)
  <2>1. v # w /\ job[v].pc \in {"delete", "replace"} /\ job'[v].windows = job[v].windows
    BY <1>3, <1>4, <1>10, OutdatedJob, IdleIsJob DEF At
  <2>2. QED
    BY <2>1 DEF AvailabilityInv, ReplaceSeesAll, At
<1>11. ReplaceSeesAll'
  BY <1>8, <1>10 DEF ReplaceSeesAll, At
<1>12. QED
  BY <1>6, <1>7, <1>9, <1>11 DEF AvailabilityInv

LEMMA CreateInsertInv ==
  ASSUME AvailabilityInv, NEW w \in Workers, NEW id \in RowIds, CreateInsert(w, id)
  PROVE  AvailabilityInv'
<1>1. job[w] \in InsertJob
  BY JobAt DEF CreateInsert, AvailabilityInv
<1>2. CASE Taken({job[w].window}, {})
  BY <1>2, IdleIsJob, CalmStep DEF CreateInsert, Leave, AvailabilityInv, TypeOK
<1>3. CASE ~Taken({job[w].window}, {})
  <2>1. /\ row[id] = Unused /\ row' = [row EXCEPT ![id] = job[w].window]
        /\ Mark(w, {id}) /\ LeaveAdding(w) /\ UNCHANGED active
    BY <1>3 DEF CreateInsert
  <2>2. job[w].window \in Windows
    BY <1>1 DEF InsertJob
  <2>3. row' \in [RowIds -> Windows \cup {Unused, Deleted}] /\ row'[id] = job[w].window
    BY <2>1, <2>2 DEF AvailabilityInv, TypeOK
  <2>4. \A x \in RowIds \ {id} : row'[x] = row[x]
    BY <2>1 DEF AvailabilityInv, TypeOK
  <2>5. ~Stored(id) /\ id \notin stale
    BY <2>1, WindowsAreRows DEF Stored, AvailabilityInv, TypeOK
  <2>6. \A x \in stale' : x \in RowIds /\ Stored(x)'
    BY <2>1, <2>2, <2>3, <2>4 DEF Mark, Stored, AvailabilityInv, TypeOK
  <2>7. \A x \in RowIds \ {id} : x \in stale => x \in stale'
    BY <2>1 DEF Mark
  <2>8. \A v \in Workers \ {w} : At(v, "replace") => \A x \in job[v].rows : Stored(x)'
    <3> SUFFICES ASSUME NEW v \in Workers \ {w}, At(v, "replace"), NEW x \in job[v].rows
                 PROVE  Stored(x)'
      OBVIOUS
    <3>1. Stored(x) /\ x \in RowIds
      BY JobAt DEF AvailabilityInv, TypeOK, ReplaceJob
    <3>2. QED
      BY <3>1, <2>4, <2>5 DEF Stored
  <2>9. ASSUME id \notin stale', NEW x \in RowIds \ {id}, Stored(x)'
        PROVE  ~Meets(row'[id], row'[x])
    <3>1. job[w].fresh /\ At(w, "insert")
      BY <2>1, <2>9 DEF Mark, CreateInsert
    <3>2. NoOverlap(job[w].window, {}) /\ Stored(x) /\ row'[x] = row[x]
      BY <3>1, <2>4, <2>9 DEF AvailabilityInv, CheckHolds, Stored
    <3>3. ~Meets(row[x], job[w].window)
      BY <3>2 DEF NoOverlap
    <3>4. QED
      BY <3>2, <3>3, <2>3 DEF Meets
  <2>10. QED
    BY <2>1, <2>3, <2>4, <2>6, <2>7, <2>8, <2>9, AddingStep
<1>4. QED
  BY <1>2, <1>3

LEMMA UpdateWriteInv ==
  ASSUME AvailabilityInv, NEW w \in Workers, UpdateWrite(w)
  PROVE  AvailabilityInv'
<1> DEFINE id == job[w].id
           window == job[w].window
<1>1. job[w] \in UpdateJob /\ id \in RowIds /\ window \in Windows
  BY JobAt DEF UpdateWrite, AvailabilityInv, UpdateJob
<1>2. CASE ~Stored(id) \/ Taken({window}, {id})
  BY <1>2, IdleIsJob, CalmStep DEF UpdateWrite, Leave, AvailabilityInv, TypeOK
<1>3. CASE Stored(id) /\ ~Taken({window}, {id})
  <2>1. /\ row' = [row EXCEPT ![id] = window]
        /\ Mark(w, {id}) /\ LeaveAdding(w) /\ UNCHANGED active
    BY <1>3 DEF UpdateWrite
  <2>3. row' \in [RowIds -> Windows \cup {Unused, Deleted}] /\ row'[id] = window
    BY <1>1, <2>1 DEF AvailabilityInv, TypeOK
  <2>4. \A x \in RowIds \ {id} : row'[x] = row[x]
    BY <2>1 DEF AvailabilityInv, TypeOK
  <2>6. \A x \in stale' : x \in RowIds /\ Stored(x)'
    BY <1>1, <2>1, <2>3, <2>4 DEF Mark, Stored, AvailabilityInv, TypeOK
  <2>7. \A x \in RowIds \ {id} : x \in stale => x \in stale'
    BY <2>1 DEF Mark
  <2>8. \A v \in Workers \ {w} : At(v, "replace") => \A x \in job[v].rows : Stored(x)'
    <3> SUFFICES ASSUME NEW v \in Workers \ {w}, At(v, "replace"), NEW x \in job[v].rows
                 PROVE  Stored(x)'
      OBVIOUS
    <3>1. Stored(x) /\ x \in RowIds
      BY JobAt DEF AvailabilityInv, TypeOK, ReplaceJob
    <3>2. QED
      BY <1>1, <3>1, <2>3, <2>4 DEF Stored
  <2>9. ASSUME id \notin stale', NEW x \in RowIds \ {id}, Stored(x)'
        PROVE  ~Meets(row'[id], row'[x])
    <3>1. job[w].fresh /\ At(w, "update")
      BY <2>1, <2>9 DEF Mark, UpdateWrite
    <3>2. NoOverlap(window, {id}) /\ Stored(x) /\ row'[x] = row[x]
      BY <3>1, <2>4, <2>9 DEF AvailabilityInv, CheckHolds, Stored
    <3>3. ~Meets(row[x], window)
      BY <3>2 DEF NoOverlap
    <3>4. QED
      BY <3>2, <3>3, <2>3 DEF Meets
  <2>10. {id} \in SUBSET RowIds
    BY <1>1
  <2>11. QED
    BY <2>1, <2>3, <2>4, <2>6, <2>7, <2>8, <2>9, <2>10, AddingStep
<1>4. QED
  BY <1>2, <1>3

LEMMA RemoveDeleteInv ==
  ASSUME AvailabilityInv, NEW w \in Workers, RemoveDelete(w)
  PROVE  AvailabilityInv'
<1> DEFINE id == job[w].id
<1>1. id \in RowIds
  BY JobAt DEF RemoveDelete, AvailabilityInv, RemoveJob
<1>2. job' = [job EXCEPT ![w] = Idle] /\ id \notin LockedFor(w)
  BY DEF RemoveDelete, Leave, Begin
<1>3. /\ row' = [row EXCEPT ![id] = Deleted] /\ stale' = stale \ {id}
      /\ row' \in [RowIds -> Windows \cup {Unused, Deleted}] /\ row'[id] = Deleted
      /\ \A x \in RowIds \ {id} : row'[x] = row[x]
  BY <1>1 DEF RemoveDelete, AvailabilityInv, TypeOK
<1>4. /\ job' \in [Workers -> Job] /\ job'[w] = Idle
      /\ \A v \in Workers : v # w => job'[v] = job[v]
  BY <1>2, IdleIsJob DEF AvailabilityInv, TypeOK
<1>5. row'[id] \notin Windows /\ \A x \in RowIds \ {id} : row'[x] \in Windows <=> Stored(x)
  BY <1>3, WindowsAreRows DEF Stored
<1>6. ASSUME NEW v \in Workers, At(v, "replace")', NEW x \in job'[v].rows
      PROVE  row'[x] \in Windows /\ (x \notin LockedFor(v))'
  <2>1. v # w /\ job[v].pc = "replace" /\ x \in job[v].rows
    BY <1>4, <1>6, IdleIsJob DEF At
  <2>2. x \in RowIds /\ Stored(x) /\ \A u \in Workers \ {v} : job[u].pc = "replace" => x \notin job[u].rows
    BY <2>1, Locks, JobAt DEF At, AvailabilityInv, TypeOK, ReplaceJob
  <2>3. x # id
    BY <1>2, <2>1, Locks DEF At
  <2>4. \A u \in Workers \ {v} : job'[u].pc = "replace" => x \notin job'[u].rows
    BY <1>4, <2>2, IdleIsJob
  <2>5. QED
    BY <2>2, <2>3, <2>4, <1>5 DEF LockedFor, At
<1>7. TypeOK'
  <2>1. stale' \subseteq {x \in RowIds : row'[x] \in Windows}
    BY <1>3, <1>5 DEF AvailabilityInv, TypeOK
  <2>2. QED
    BY <2>1, <1>3, <1>4, <1>6 DEF TypeOK, AvailabilityInv, RemoveDelete, Stored
<1>8. OverlapNeedsRace'
  <2> SUFFICES ASSUME NEW x \in RowIds, NEW y \in RowIds, x # y,
                      row'[x] \in Windows, row'[y] \in Windows, Meets(row'[x], row'[y])
               PROVE  x \in stale' \/ y \in stale'
    BY DEF OverlapNeedsRace, Stored
  <2>1. x # id /\ y # id /\ Stored(x) /\ Stored(y) /\ row'[x] = row[x] /\ row'[y] = row[y]
    BY <1>3, <1>5
  <2>2. x \in stale \/ y \in stale
    BY <2>1 DEF AvailabilityInv, OverlapNeedsRace
  <2>3. QED
    BY <2>1, <2>2, <1>3
<1>9. CheckHolds'
  <2>1. ASSUME NEW window, NEW except, NoOverlap(window, except)
        PROVE  \A x \in RowIds \ except : row'[x] \in Windows => ~Meets(row'[x], window)
    BY <1>3, <1>5, <2>1 DEF NoOverlap
  <2>2. ASSUME NEW v \in Workers, v # w
        PROVE  /\ job'[v].pc = "insert" /\ job'[v].fresh => NoOverlap(job'[v].window, {})
               /\ job'[v].pc = "update" /\ job'[v].fresh => NoOverlap(job'[v].window, {job'[v].id})
    BY <1>4, <2>2 DEF AvailabilityInv, CheckHolds, At
  <2>3. QED
    BY <1>4, <2>1, <2>2, IdleIsJob DEF CheckHolds, At, NoOverlap, Stored
<1>10. ReplaceSeesAll'
  <2>1. \A x \in RowIds : row'[x] \in Windows => Stored(x)
    BY <1>5
  <2>2. QED
    BY <1>4, <2>1, IdleIsJob DEF AvailabilityInv, ReplaceSeesAll, At, Stored
<1>11. FilledFromRow'
  <2> SUFFICES ASSUME NEW v \in Workers,
                      \/ At(v, "look")' /\ job'[v].fresh
                      \/ At(v, "update")' /\ job'[v].fresh /\ job'[v].current,
                      row'[job'[v].id] \in Windows,
                      NEW f \in Fields \ job'[v].given
               PROVE  job'[v].window[f] = row'[job'[v].id][f]
    BY DEF FilledFromRow, Stored
  <2>1. v # w /\ job'[v] = job[v] /\ job[v].pc \in {"look", "update"}
    BY <1>4, IdleIsJob DEF At
  <2>2. job[v].id \in RowIds
    BY <2>1, JobAt DEF At, AvailabilityInv, LookJob, UpdateJob
  <2>3. Stored(job[v].id) /\ row'[job[v].id] = row[job[v].id]
    BY <1>3, <1>5, <2>1, <2>2
  <2>4. QED
    BY <2>1, <2>3 DEF AvailabilityInv, FilledFromRow, At
<1>12. QED
  BY <1>7, <1>8, <1>9, <1>10, <1>11 DEF AvailabilityInv

\* What a replace that is not refused leaves in the table.
LEMMA CommittedRows ==
  ASSUME AvailabilityInv, NEW w \in Workers, NEW ids \in SUBSET RowIds,
         ReplaceCommit(w, ids), ~Taken(job[w].windows, job[w].rows)
  PROVE  /\ row' \in [RowIds -> Windows \cup {Unused, Deleted}]
         /\ \A id \in ids : row'[id] \in job[w].windows /\ row'[id] \in Windows
         /\ \A x \in job[w].windows : \E id \in ids : row'[id] = x
         /\ \A x, y \in ids : x # y => row'[x] # row'[y]
         /\ \A id \in RowIds \ ids : row'[id] \in Windows =>
              id \notin job[w].rows /\ Stored(id) /\ row'[id] = row[id]
         /\ \A id \in RowIds \ job[w].rows : Stored(id) => id \notin ids /\ row'[id] \in Windows
<1>1. At(w, "replace") /\ ids \subseteq {id \in RowIds : row[id] = Unused}
  BY DEF ReplaceCommit
<1>2. PICK place \in Bijection(ids, job[w].windows) :
        row' = [id \in RowIds |-> IF id \in ids THEN place[id]
                                  ELSE IF id \in job[w].rows THEN Deleted ELSE row[id]]
  BY DEF ReplaceCommit
<1>3. job[w].windows \subseteq Windows /\ job[w].rows \subseteq RowIds
  BY <1>1, JobAt DEF AvailabilityInv, ReplaceJob
<1>4. /\ place \in [ids -> job[w].windows]
      /\ \A x, y \in ids : place[x] = place[y] => x = y
      /\ \A x \in job[w].windows : \E id \in ids : place[id] = x
  BY DEF Bijection, Injection, Surjection, IsInjective
<1>5. row \in [RowIds -> Windows \cup {Unused, Deleted}]
  BY DEF AvailabilityInv, TypeOK
<1>6. QED
  BY <1>1, <1>2, <1>3, <1>4, <1>5, WindowsAreRows DEF Stored

LEMMA ReplaceCommitInv ==
  ASSUME AvailabilityInv, NEW w \in Workers, NEW ids \in SUBSET RowIds, ReplaceCommit(w, ids)
  PROVE  AvailabilityInv'
<1>1. CASE Taken(job[w].windows, job[w].rows)
  BY <1>1, IdleIsJob, CalmStep DEF ReplaceCommit, Leave, AvailabilityInv, TypeOK
<1>2. CASE ~Taken(job[w].windows, job[w].rows)
  <2>1. /\ At(w, "replace") /\ ids \subseteq {id \in RowIds : row[id] = Unused}
        /\ stale' = (stale \ job[w].rows) \cup (IF job[w].fresh THEN {} ELSE ids)
        /\ LeaveAdding(w) /\ UNCHANGED active
    BY <1>2 DEF ReplaceCommit
  <2>3. /\ row' \in [RowIds -> Windows \cup {Unused, Deleted}]
        /\ \A id \in ids : row'[id] \in job[w].windows /\ row'[id] \in Windows
        /\ \A x, y \in ids : x # y => row'[x] # row'[y]
        /\ \A id \in RowIds \ ids : row'[id] \in Windows =>
             id \notin job[w].rows /\ Stored(id) /\ row'[id] = row[id]
        /\ \A id \in RowIds \ job[w].rows : Stored(id) => id \notin ids /\ row'[id] \in Windows
    BY <1>2, CommittedRows
  <2>4. \A x \in stale' : x \in RowIds /\ row'[x] \in Windows
    BY <2>1, <2>3 DEF AvailabilityInv, TypeOK
  <2>5. \A x \in RowIds \ ids : row'[x] \in Windows /\ x \in stale => x \in stale'
    BY <2>1, <2>3
  <2>6. ASSUME NEW v \in Workers \ {w}, At(v, "replace"), NEW x \in job[v].rows
        PROVE  row'[x] \in Windows
    <3>1. Stored(x) /\ x \in RowIds
      BY <2>6, JobAt DEF AvailabilityInv, TypeOK, ReplaceJob
    <3>2. x \notin job[w].rows
      BY <2>1, <2>6, Locks DEF AvailabilityInv, TypeOK
    <3>3. QED
      BY <3>1, <3>2, <2>3
  <2>7. ASSUME NEW id \in ids \ stale', NEW x \in RowIds \ {id}, row'[x] \in Windows
        PROVE  ~Meets(row'[id], row'[x])
    <3>1. job[w].fresh
      BY <2>1, <2>7
    <3>2. ValidSchedule(job[w].windows) /\ \A y \in RowIds : Stored(y) => y \in job[w].rows
      BY <2>1, <3>1 DEF AvailabilityInv, ReplaceSeesAll
    <3>3. x \in ids
      BY <2>3, <2>7, <3>2
    <3>4. row'[id] \in job[w].windows /\ row'[x] \in job[w].windows /\ row'[id] # row'[x]
      BY <2>3, <2>7, <3>3
    <3>5. QED
      BY <3>2, <3>4 DEF ValidSchedule
  <2>8. QED
    BY <2>1, <2>3, <2>4, <2>5, <2>6, <2>7, AddingStep DEF Stored
<1>3. QED
  BY <1>1, <1>2

\* The reads, the failures and what a replace deletes before it commits.
LEMMA CallInv ==
  ASSUME AvailabilityInv, NEW w \in Workers, Call(w)
  PROVE  AvailabilityInv'
<1>1. ASSUME NEW window \in Windows, CreateCheck(w, window)
      PROVE  AvailabilityInv'
  <2> DEFINE j == [pc |-> "insert", window |-> window, fresh |-> TRUE]
  <2>1. j \in Job
    BY DEF Job, InsertJob
  <2>2. QED
    BY <1>1, <2>1, CalmStep DEF CreateCheck, AvailabilityInv, TypeOK
<1>2. ASSUME NEW id \in RowIds, NEW given \in Forms, NEW window \in Windows,
             UpdateRead(w, id, given, window)
      PROVE  AvailabilityInv'
  <2> DEFINE merged == Merged(given, window, row[id])
             j == [pc |-> "look", id |-> id, window |-> merged, given |-> given, fresh |-> TRUE]
  <2>1. merged \in Windows
    BY <1>2 DEF UpdateRead
  <2>2. j \in Job
    BY <2>1 DEF Job, LookJob
  <2>3. \A f \in Fields \ given : merged[f] = row[id][f]
    BY DEF Fields, Merged
  <2>4. QED
    BY <1>2, <2>2, <2>3, CalmStep DEF UpdateRead, AvailabilityInv, TypeOK
<1>3. ASSUME NEW id \in RowIds, RemoveCheck(w, id)
      PROVE  AvailabilityInv'
  <2> DEFINE j == [pc |-> "remove", id |-> id]
  <2>1. j \in Job
    BY DEF Job, RemoveJob
  <2>2. QED
    BY <1>3, <2>1, CalmStep DEF RemoveCheck, AvailabilityInv, TypeOK
<1>4. ASSUME NEW windows \in SUBSET Windows, ReplaceStart(w, windows)
      PROVE  AvailabilityInv'
  <2> DEFINE j == [pc |-> "delete", windows |-> windows,
                   rows |-> {id \in RowIds : Stored(id)}, fresh |-> TRUE]
  <2>1. j \in Job
    BY DEF Job, ReplaceJob
  <2>2. QED
    BY <1>4, <2>1, CalmStep DEF ReplaceStart, AvailabilityInv, TypeOK
<1>5. QED
  BY <1>1, <1>2, <1>3, <1>4 DEF Call

LEMMA UpdateCheckInv ==
  ASSUME AvailabilityInv, NEW w \in Workers, UpdateCheck(w)
  PROVE  AvailabilityInv'
<1> DEFINE j == [pc |-> "update", id |-> job[w].id, window |-> job[w].window,
                 given |-> job[w].given, current |-> job[w].fresh, fresh |-> TRUE]
<1>1. job[w] \in LookJob
  BY JobAt DEF UpdateCheck, AvailabilityInv
<1>2. CASE NoOverlap(job[w].window, {job[w].id})
  <2>1. j \in Job
    BY <1>1 DEF Job, LookJob, UpdateJob
  <2>2. Begin(w, j) /\ UNCHANGED <<active, row, stale>>
    BY <1>2 DEF UpdateCheck
  <2>3. j.current /\ Stored(j.id) => \A f \in Fields \ j.given : j.window[f] = row[j.id][f]
    BY DEF UpdateCheck, AvailabilityInv, FilledFromRow
  <2>4. QED
    BY <1>2, <2>1, <2>2, <2>3, CalmStep DEF AvailabilityInv, TypeOK
<1>3. CASE ~NoOverlap(job[w].window, {job[w].id})
  BY <1>3, IdleIsJob, CalmStep DEF UpdateCheck, Leave, AvailabilityInv, TypeOK
<1>4. QED
  BY <1>2, <1>3

LEMMA ReplaceDeleteInv ==
  ASSUME AvailabilityInv, NEW w \in Workers, ReplaceDelete(w)
  PROVE  AvailabilityInv'
<1> DEFINE j == [job[w] EXCEPT !.pc = "replace", !.rows = {id \in @ : Stored(id)}]
<1>1. job[w] \in ReplaceJob
  BY JobAt DEF ReplaceDelete, AvailabilityInv
<1>2. /\ j.pc = "replace" /\ j.windows = job[w].windows /\ j.fresh = job[w].fresh
      /\ j.rows = {id \in job[w].rows : Stored(id)} /\ j \in Job
  BY <1>1 DEF Job, ReplaceJob
<1>3. Begin(w, j) /\ UNCHANGED <<active, row, stale>> /\ job[w].rows \cap LockedFor(w) = {}
  BY DEF ReplaceDelete
<1>4. /\ ValidSchedule(job[w].windows)
      /\ job[w].fresh => \A id \in RowIds : Stored(id) => id \in job[w].rows
  BY DEF ReplaceDelete, AvailabilityInv, ReplaceSeesAll
<1> HIDE DEF j
<1>5. QED
  BY <1>2, <1>3, <1>4, CalmStep DEF AvailabilityInv, TypeOK

\* Deactivation and activation: of the profile the invariant knows the type alone.
LEMMA ActiveInv ==
  ASSUME AvailabilityInv, active' \in BOOLEAN, UNCHANGED <<row, job, stale>>
  PROVE  AvailabilityInv'
BY DEF AvailabilityInv, TypeOK, OverlapNeedsRace, CheckHolds, ReplaceSeesAll, FilledFromRow,
     Stored, At, NoOverlap, LockedFor

LEMMA InvNext == AvailabilityInv /\ [Next]_vars => AvailabilityInv'
<1> SUFFICES ASSUME AvailabilityInv, [Next]_vars PROVE AvailabilityInv'
  OBVIOUS
<1>1. ASSUME NEW w \in Workers, Call(w)
      PROVE  AvailabilityInv'
  BY <1>1, CallInv
<1>2. ASSUME NEW w \in Workers, Step(w)
      PROVE  AvailabilityInv'
  BY <1>2, CreateInsertInv, UpdateCheckInv, UpdateWriteInv, RemoveDeleteInv, ReplaceDeleteInv,
     ReplaceCommitInv DEF Step
<1>3. ASSUME NEW w \in Workers, Fail(w)
      PROVE  AvailabilityInv'
  BY <1>3, IdleIsJob, CalmStep DEF Fail, Leave, AvailabilityInv, TypeOK
<1>4. ASSUME Deactivate \/ Activate
      PROVE  AvailabilityInv'
  BY <1>4, ActiveInv DEF Deactivate, Activate
<1>5. ASSUME UNCHANGED vars
      PROVE  AvailabilityInv'
  BY <1>5, ActiveInv DEF vars, AvailabilityInv, TypeOK
<1>6. QED
  BY <1>1, <1>2, <1>3, <1>4, <1>5 DEF Next

\* The invariant of every behaviour, from which the theorems below follow.
THEOREM InvariantTheorem == Spec => []AvailabilityInv
<1>1. QED
  BY InvInit, InvNext, PTL DEF Spec

\* The types of the table and of the requests (MateAvailabilityService): in
\* particular, no two replaces that have not committed have deleted the same row.
THEOREM TypeCorrect == Spec => []TypeOK
<1>1. AvailabilityInv => TypeOK
  BY DEF AvailabilityInv
<1>2. QED
  BY <1>1, InvariantTheorem, PTL

\* Windows overlap only after a request whose check another write overtook
\* (ensureNoOverlap, MateAvailabilityService.replace).
THEOREM OverlapTheorem == Spec => []OverlapNeedsRace
<1>1. AvailabilityInv => OverlapNeedsRace
  BY DEF AvailabilityInv
<1>2. QED
  BY <1>1, InvariantTheorem, PTL

\* A step of one request leaves every other one where it is.
LEMMA OthersStay ==
  ASSUME AvailabilityInv, NEW w \in Workers, NEW v \in Workers \ {w},
         Call(v) \/ Step(v) \/ Fail(v)
  PROVE  job'[w].pc = job[w].pc
<1>1. job \in [Workers -> Job]
  BY DEF AvailabilityInv, TypeOK
<1>2. ASSUME NEW j, Begin(v, j)
      PROVE  job'[w].pc = job[w].pc
  BY <1>1, <1>2 DEF Begin
<1>3. ASSUME LeaveAdding(v)
      PROVE  job'[w].pc = job[w].pc
  BY <1>1, <1>3, OutdatedJob DEF LeaveAdding
<1>4. CASE Call(v)
  BY <1>2, <1>4 DEF Call, CreateCheck, UpdateRead, RemoveCheck, ReplaceStart
<1>5. CASE Step(v)
  BY <1>2, <1>3, <1>5
     DEF Step, CreateInsert, UpdateCheck, UpdateWrite, RemoveDelete, ReplaceDelete,
         ReplaceCommit, Leave
<1>6. CASE Fail(v)
  BY <1>2, <1>6 DEF Fail, Leave
<1>7. QED
  BY <1>4, <1>5, <1>6

\* Who leaves and has changed the table is the one who wrote.
LEMMA WriterLeaves ==
  ASSUME AvailabilityInv, [Next]_vars, NEW w \in Workers,
         At(w, "update") \/ At(w, "replace"), job'[w] = Idle, row' # row
  PROVE  \/ At(w, "update") /\ UpdateWrite(w)
         \/ At(w, "replace") /\ \E ids \in SUBSET RowIds : ReplaceCommit(w, ids)
<1>1. PICK v \in Workers : Call(v) \/ Step(v) \/ Fail(v)
  BY DEF Next, Deactivate, Activate, vars
<1>2. v = w
  BY <1>1, OthersStay, IdleIsJob DEF At
<1>3. ~Call(w) /\ ~Fail(w)
  BY DEF Call, Fail, CreateCheck, UpdateRead, RemoveCheck, ReplaceStart
<1>4. Step(w)
  BY <1>1, <1>2, <1>3
<1>5. QED
  BY <1>4 DEF Step, CreateInsert, UpdateCheck, UpdateWrite, RemoveDelete, ReplaceDelete,
                ReplaceCommit, At

\* A change of another request is lost in a partial update only if it was made
\* between the reads and the write (MateAvailabilityService.update).
THEOREM LostUpdateTheorem == Spec => LostUpdateNeedsRace
<1>1. ASSUME AvailabilityInv, [Next]_vars, NEW w \in Workers, At(w, "update"), job[w].fresh,
             job[w].current, job'[w] = Idle, row' # row, NEW f \in Fields \ job[w].given
      PROVE  row'[job[w].id][f] = row[job[w].id][f]
  <2>1. UpdateWrite(w)
    BY <1>1, WriterLeaves DEF At
  <2>2. job[w].id \in RowIds
    BY <1>1, JobAt DEF AvailabilityInv, UpdateJob
  <2>3. Stored(job[w].id) /\ row' = [row EXCEPT ![job[w].id] = job[w].window]
    BY <1>1, <2>1 DEF UpdateWrite
  <2>4. row'[job[w].id] = job[w].window
    BY <1>1, <2>2, <2>3 DEF AvailabilityInv, TypeOK
  <2>5. job[w].window[f] = row[job[w].id][f]
    BY <1>1, <2>3 DEF AvailabilityInv, FilledFromRow
  <2>6. QED
    BY <2>4, <2>5
<1>2. AvailabilityInv /\ [Next]_vars =>
        [\A w \in Workers :
           At(w, "update") /\ job[w].fresh /\ job[w].current /\ job'[w] = Idle /\ row' # row
             => \A f \in Fields \ job[w].given : row'[job[w].id][f] = row[job[w].id][f]]_vars
  BY <1>1
<1>3. QED
  BY <1>2, InvariantTheorem, PTL DEF Spec, LostUpdateNeedsRace

\* A replace that nobody overtook leaves its schedule and nothing else
\* (MateAvailabilityService.replace).
THEOREM ReplaceTheorem == Spec => ReplaceIsWhole
<1>1. ASSUME AvailabilityInv, [Next]_vars, NEW w \in Workers, At(w, "replace"), job[w].fresh,
             job'[w] = Idle, row' # row
      PROVE  Schedule' = job[w].windows
  <2>1. PICK ids \in SUBSET RowIds : ReplaceCommit(w, ids)
    BY <1>1, WriterLeaves DEF At
  <2>2. ~Taken(job[w].windows, job[w].rows)
    BY <1>1, <2>1 DEF ReplaceCommit
  <2>3. /\ \A id \in ids : row'[id] \in job[w].windows /\ row'[id] \in Windows
        /\ \A x \in job[w].windows : \E id \in ids : row'[id] = x
        /\ \A id \in RowIds \ ids : row'[id] \in Windows => id \notin job[w].rows /\ Stored(id)
    BY <1>1, <2>1, <2>2, CommittedRows
  <2>4. \A id \in RowIds : Stored(id) => id \in job[w].rows
    BY <1>1 DEF AvailabilityInv, ReplaceSeesAll
  <2>5. {row'[id] : id \in {i \in RowIds : row'[i] \in Windows}} = job[w].windows
    BY <2>3, <2>4
  <2>6. QED
    BY <2>5 DEF Schedule, Stored
<1>2. AvailabilityInv /\ [Next]_vars =>
        [\A w \in Workers :
           At(w, "replace") /\ job[w].fresh /\ job'[w] = Idle /\ row' # row
             => Schedule' = job[w].windows]_vars
  BY <1>1
<1>3. QED
  BY <1>2, InvariantTheorem, PTL DEF Spec, ReplaceIsWhole
===============================================================================
