---------------------------- MODULE BookingsProofs ----------------------------
(***************************************************************************)
(* Theorems about Bookings, for every set of requests, mates, slots and    *)
(* bookings and every clock bound.                                         *)
(***************************************************************************)
EXTENDS Bookings, TLAPS

\* A create that is under way carries its mate and slot.
LEMMA CreateCallType ==
  ASSUME TypeOK, NEW r \in CreateRequests,
         create[r].pc \in {"checked", "locked", "clear"}
  PROVE  /\ create[r] \in CreateCall
         /\ create[r].mate \in Mates
         /\ create[r].slot \in Slots
<1>1. create[r] \notin Answers
  BY DEF Answers, Answer
<1>2. create[r] # New
  BY DEF New
<1>3. create[r] \in CreateCall
  BY <1>1, <1>2 DEF TypeOK
<1> QED BY <1>3 DEF CreateCall

\* A decision that is under way carries its operation, actor and booking.
LEMMA DecisionCallType ==
  ASSUME TypeOK, NEW r \in DecisionRequests, decision[r].pc = "checked"
  PROVE  /\ decision[r] \in DecisionCall
         /\ decision[r].op \in Decisions
         /\ decision[r].by \in Actors
         /\ decision[r].booking \in BookingIds
         /\ decision[r].at \in 0 .. MaxTime
<1>1. decision[r] # New
  BY DEF New
<1>2. decision[r] \in DecisionCall
  BY <1>1 DEF TypeOK
<1> QED BY <1>2 DEF DecisionCall

\* A row that is not NoRow has a status, a mate and a slot.
LEMMA RowType ==
  ASSUME TypeOK, NEW b \in BookingIds, row[b] # NoRow
  PROVE  /\ row[b] \in Row
         /\ row[b].status \in BookingStatus
         /\ row[b].mate \in Mates
         /\ row[b].slot \in Slots
<1>1. row[b] \in Row
  BY DEF TypeOK
<1> QED BY <1>1 DEF Row, Calendar!Row, BookingStatus

-------------------------------------------------------------------------------

LEMMA TypeInit == Init => TypeOK
BY TimingAssumption DEF Init, TypeOK

LEMMA TypeNext == TypeOK /\ [Next]_vars => TypeOK'
<1> SUFFICES ASSUME TypeOK, [Next]_vars PROVE TypeOK'
  OBVIOUS
<1>1. ASSUME NEW r \in CreateRequests, NEW m \in Mates, NEW s \in Slots, Check(r, m, s)
      PROVE  TypeOK'
  <2>1. PICK open \in BOOLEAN : create' = [create EXCEPT ![r] =
          IF Bookable(s, open) THEN [pc |-> "checked", mate |-> m, slot |-> s]
                               ELSE Answer("refused")]
    BY <1>1 DEF Check
  <2>2. create' \in [CreateRequests -> CreateCall \cup Answers \cup {New}]
    BY <2>1 DEF TypeOK, CreateCall, Answers
  <2> QED BY <1>1, <2>2 DEF Check, TypeOK
<1>2. ASSUME NEW r \in CreateRequests, Lock(r)
      PROVE  TypeOK'
  <2>1. create[r] \in CreateCall /\ create[r].mate \in Mates
    BY <1>2, CreateCallType DEF Lock
  <2>2. [create[r] EXCEPT !.pc = "locked"] \in CreateCall
    BY <2>1 DEF CreateCall
  <2> QED BY <1>2, <2>1, <2>2 DEF Lock, TypeOK
<1>3. ASSUME NEW r \in CreateRequests, FindOverlap(r)
      PROVE  TypeOK'
  <2>1. create[r] \in CreateCall /\ create[r].mate \in Mates
    BY <1>3, CreateCallType DEF FindOverlap
  <2>2. [create[r] EXCEPT !.pc = "clear"] \in CreateCall /\ Answer("refused") \in Answers
    BY <2>1 DEF CreateCall, Answers
  <2>3. create' \in [CreateRequests -> CreateCall \cup Answers \cup {New}]
    BY <1>3, <2>2 DEF FindOverlap, TypeOK
  <2>4. mateLock' \in [Mates -> CreateRequests \cup {Free}]
    BY <1>3, <2>1 DEF FindOverlap, TypeOK, Unlock
  <2> QED BY <1>3, <2>3, <2>4 DEF FindOverlap, TypeOK
<1>4. ASSUME NEW r \in CreateRequests, NEW b \in BookingIds, Insert(r, b)
      PROVE  TypeOK'
  <2>1. create[r].mate \in Mates /\ create[r].slot \in Slots
    BY <1>4, CreateCallType DEF Insert
  <2>2. [status |-> "pending", mate |-> create[r].mate, slot |-> create[r].slot] \in Row
    BY <2>1 DEF Row, Calendar!Row, Calendar!BookingStatus
  <2>3. Answer("done") \in Answers
    BY DEF Answers
  <2>4. notices' \subseteq Notice
    BY <1>4 DEF Insert, TypeOK, Notice, NoticeType
  <2>5. row' \in [BookingIds -> Row \cup {NoRow}]
    BY <1>4, <2>2 DEF Insert, TypeOK
  <2>6. mateLock' \in [Mates -> CreateRequests \cup {Free}]
    BY <1>4, <2>1 DEF Insert, TypeOK, Unlock
  <2>7. create' \in [CreateRequests -> CreateCall \cup Answers \cup {New}]
    BY <1>4, <2>3 DEF Insert, TypeOK
  <2> QED BY <1>4, <2>4, <2>5, <2>6, <2>7 DEF Insert, TypeOK
<1>5. ASSUME NEW r \in CreateRequests, CreateFails(r)
      PROVE  TypeOK'
  <2>1. create[r].mate \in Mates
    BY <1>5, CreateCallType DEF CreateFails
  <2>2. Answer("failed") \in Answers
    BY DEF Answers
  <2>3. mateLock' \in [Mates -> CreateRequests \cup {Free}]
    BY <1>5, <2>1 DEF CreateFails, TypeOK, Unlock
  <2> QED BY <1>5, <2>2, <2>3 DEF CreateFails, TypeOK
<1>6. ASSUME NEW r \in DecisionRequests, NEW b \in BookingIds,
             NEW op \in Decisions, NEW by \in Actors, Read(r, b, op, by)
      PROVE  TypeOK'
  <2>1. [pc |-> "checked", op |-> op, by |-> by, booking |-> b, at |-> now] \in DecisionCall
    BY DEF DecisionCall, TypeOK
  <2>2. decision' \in [DecisionRequests -> DecisionCall \cup {New}]
    BY <1>6, <2>1 DEF Read, TypeOK
  <2> QED BY <1>6, <2>2 DEF Read, TypeOK
<1>7. ASSUME NEW r \in DecisionRequests, Write(r)
      PROVE  TypeOK'
  <2> DEFINE op == decision[r].op
             b  == decision[r].booking
  <2>1. op \in Decisions /\ b \in BookingIds /\ decision[r].by \in Actors
    BY <1>7, DecisionCallType DEF Write
  <2>2. Target[op] \in BookingStatus /\ TypeOf[op] \in NoticeType
    BY <2>1 DEF Decisions, Target, TypeOf, BookingStatus, Calendar!BookingStatus, NoticeType
  <2>3. row' \in [BookingIds -> Row \cup {NoRow}]
    <3>1. [row[b] EXCEPT !.status = Target[op]] \in Row \cup {NoRow}
      <4>1. row[b] \in Row
        BY <1>7, <2>1, RowType DEF Write
      <4> QED BY <4>1, <2>2 DEF Row, Calendar!Row, BookingStatus
    <3> QED BY <1>7, <3>1 DEF Write, TypeOK
  <2>4. notices' \subseteq Notice
    BY <1>7, <2>1, <2>2 DEF Write, TypeOK, Notice, Told
  <2>5. revived' \subseteq BookingIds
    BY <1>7, <2>1 DEF Write, TypeOK
  <2> QED BY <1>7, <2>3, <2>4, <2>5 DEF Write, TypeOK
<1>8. ASSUME NEW r \in DecisionRequests, DecisionFails(r)
      PROVE  TypeOK'
  BY <1>8 DEF DecisionFails, TypeOK
<1>9. CASE Tick
  BY <1>9, TimingAssumption DEF Tick, TypeOK
<1>10. CASE UNCHANGED vars
  BY <1>10 DEF vars, TypeOK
<1> QED
  BY <1>1, <1>2, <1>3, <1>4, <1>5, <1>6, <1>7, <1>8, <1>9, <1>10
  DEF Next, CreateStep, DecisionStep

\* The table, the calls and the notifications keep their types.
THEOREM TypeCorrect == Spec => []TypeOK
BY TypeInit, TypeNext, PTL DEF Spec

-------------------------------------------------------------------------------
(***************************************************************************)
(* Double booking.  The inductive invariant: a create that is past its     *)
(* lock holds the lock, and while it is past its query every row that      *)
(* takes the time it asked for was revived.                                *)
(***************************************************************************)
HoldsLock ==
  \A r \in CreateRequests :
    create[r].pc \in {"locked", "clear"} => mateLock[create[r].mate] = r

ClearIsClear ==
  \A r \in CreateRequests : create[r].pc = "clear" =>
    \A b \in BookingIds :
      Occupies(b, create[r].mate, create[r].slot) => b \in revived

CalendarInv == TypeOK /\ HoldsLock /\ ClearIsClear /\ DoubleBookingNeedsRevival

LEMMA CalendarInvInit == Init => CalendarInv
<1> SUFFICES ASSUME Init PROVE CalendarInv
  OBVIOUS
<1>1. TypeOK
  BY TypeInit
<1>2. HoldsLock /\ ClearIsClear
  BY DEF Init, HoldsLock, ClearIsClear, New
<1>3. DoubleBookingNeedsRevival
  BY DEF Init, DoubleBookingNeedsRevival, DoubleBooked, NoRow, Calendar!NoRow,
         Calendar!Blocking
<1> QED BY <1>1, <1>2, <1>3 DEF CalendarInv

\* A step that leaves the table alone and adds no create past its query.
LEMMA ClearKept ==
  ASSUME ClearIsClear, row' = row, revived \subseteq revived',
         \A r \in CreateRequests : create'[r].pc = "clear" => create'[r] = create[r]
  PROVE  ClearIsClear'
BY DEF ClearIsClear, Occupies, Calendar!Occupies

LEMMA DoubleKept ==
  ASSUME DoubleBookingNeedsRevival, row' = row, revived \subseteq revived'
  PROVE  DoubleBookingNeedsRevival'
BY DEF DoubleBookingNeedsRevival, DoubleBooked, Occupies, Calendar!Occupies

\* A write moves no booking, and makes one block time only by reviving it.
LEMMA WriteBlocks ==
  ASSUME TypeOK, NEW r \in DecisionRequests, Write(r),
         NEW b \in BookingIds, row'[b].status \in Calendar!Blocking
  PROVE  /\ row'[b].mate = row[b].mate
         /\ row'[b].slot = row[b].slot
         /\ row[b].status \in Calendar!Blocking \/ b \in revived'
<1> DEFINE op == decision[r].op
           d  == decision[r].booking
<1>1. op \in Decisions /\ d \in BookingIds
  BY DecisionCallType DEF Write
<1>2. CASE b # d
  BY <1>1, <1>2 DEF Write, TypeOK
<1>3. CASE b = d
  <2>1. row[d] \in Row /\ row[d].status \in BookingStatus
    BY <1>1, RowType DEF Write
  <2>2. row'[d] = [row[d] EXCEPT !.status = Target[op]]
    BY <1>1 DEF Write, TypeOK
  <2>3. row'[d].mate = row[d].mate /\ row'[d].slot = row[d].slot
        /\ row'[d].status = Target[op]
    BY <2>1, <2>2 DEF Row, Calendar!Row
  <2>4. op = "accept"
    BY <1>1, <1>3, <2>3 DEF Target, Decisions, Calendar!Blocking
  <2>5. CASE Revives(d, op)
    BY <2>5, <2>3, <1>3 DEF Write
  <2>6. CASE ~Revives(d, op)
    <3>1. row[d].status \in Calendar!Blocking
      BY <2>6, <2>4, <2>1 DEF Revives, BookingStatus, Calendar!BookingStatus, Calendar!Blocking
    <3> QED BY <3>1, <2>3, <1>3
  <2> QED BY <2>5, <2>6
<1> QED BY <1>2, <1>3

LEMMA CalendarInvNext == CalendarInv /\ [Next]_vars => CalendarInv'
<1> SUFFICES ASSUME CalendarInv, [Next]_vars PROVE CalendarInv'
  OBVIOUS
<1> USE DEF CalendarInv
<1>t. TypeOK'
  BY TypeNext
<1>1. ASSUME NEW r \in CreateRequests, NEW m \in Mates, NEW s \in Slots, Check(r, m, s)
      PROVE  CalendarInv'
  <2>1. create' = [create EXCEPT ![r] = create'[r]] /\ create'[r].pc \notin {"locked", "clear"}
    BY <1>1 DEF Check, TypeOK, Answer
  <2>2. HoldsLock'
    BY <1>1, <2>1 DEF HoldsLock, TypeOK, Check
  <2>3. ClearIsClear' /\ DoubleBookingNeedsRevival'
    BY <1>1, <2>1, ClearKept, DoubleKept DEF Check, TypeOK
  <2> QED BY <1>t, <2>2, <2>3
<1>2. ASSUME NEW r \in CreateRequests, Lock(r)
      PROVE  CalendarInv'
  <2>1. create[r] \in CreateCall /\ create[r].mate \in Mates
    BY <1>2, CreateCallType DEF Lock
  <2>2. create'[r].pc = "locked" /\ create'[r].mate = create[r].mate
    BY <1>2, <2>1 DEF Lock, TypeOK, CreateCall
  <2>3. HoldsLock'
    <3> SUFFICES ASSUME NEW q \in CreateRequests, create'[q].pc \in {"locked", "clear"}
                 PROVE  mateLock'[create'[q].mate] = q
      BY DEF HoldsLock
    <3>1. CASE q = r
      BY <1>2, <2>1, <2>2, <3>1 DEF Lock, TypeOK
    <3>2. CASE q # r
      <4>1. create'[q] = create[q]
        BY <1>2, <3>2 DEF Lock, TypeOK
      <4>2. mateLock[create[q].mate] = q
        BY <4>1 DEF HoldsLock
      <4>3. create[q].mate # create[r].mate
        BY <4>2, <1>2, FreeAssumption DEF Lock, Free
      <4> QED BY <1>2, <4>1, <4>2, <4>3, <2>1 DEF Lock, TypeOK
    <3> QED BY <3>1, <3>2
  <2>4. ClearIsClear' /\ DoubleBookingNeedsRevival'
    BY <1>2, <2>2, ClearKept, DoubleKept DEF Lock, TypeOK
  <2> QED BY <1>t, <2>3, <2>4
<1>3. ASSUME NEW r \in CreateRequests, FindOverlap(r)
      PROVE  CalendarInv'
  <2>1. create[r] \in CreateCall /\ create[r].mate \in Mates /\ create[r].slot \in Slots
    BY <1>3, CreateCallType DEF FindOverlap
  <2>2. mateLock[create[r].mate] = r
    BY <1>3 DEF HoldsLock, FindOverlap
  <2>3. CASE \E b \in BookingIds : Occupies(b, create[r].mate, create[r].slot)
    <3>1. create' = [create EXCEPT ![r] = Answer("refused")]
          /\ mateLock' = Unlock(create[r].mate)
      BY <1>3, <2>3 DEF FindOverlap
    <3>2. Answer("refused").pc \notin {"locked", "clear"}
      BY DEF Answer
    <3>3. HoldsLock'
      BY <3>1, <3>2, <2>1, <2>2 DEF HoldsLock, TypeOK, Unlock
    <3>4. ClearIsClear' /\ DoubleBookingNeedsRevival'
      BY <1>3, <3>1, <3>2, ClearKept, DoubleKept DEF FindOverlap, TypeOK
    <3> QED BY <1>t, <3>3, <3>4
  <2>4. CASE ~\E b \in BookingIds : Occupies(b, create[r].mate, create[r].slot)
    <3>1. create' = [create EXCEPT ![r].pc = "clear"] /\ mateLock' = mateLock
      BY <1>3, <2>4 DEF FindOverlap
    <3>2. create'[r].mate = create[r].mate /\ create'[r].slot = create[r].slot
      BY <3>1, <2>1 DEF TypeOK, CreateCall
    <3>3. HoldsLock'
      BY <3>1, <3>2, <2>2 DEF HoldsLock, TypeOK
    <3>4. ClearIsClear'
      <4> SUFFICES ASSUME NEW q \in CreateRequests, create'[q].pc = "clear",
                          NEW b \in BookingIds,
                          Occupies(b, create[q].mate, create[q].slot)
                   PROVE  b \in revived
        BY <1>3, <3>1, <3>2 DEF ClearIsClear, FindOverlap, TypeOK, Occupies, Calendar!Occupies
      <4>1. q # r
        BY <2>4
      <4>2. create'[q] = create[q]
        BY <3>1, <4>1 DEF TypeOK
      <4> QED BY <4>2 DEF ClearIsClear
    <3>5. DoubleBookingNeedsRevival'
      BY <1>3, DoubleKept DEF FindOverlap
    <3> QED BY <1>t, <3>3, <3>4, <3>5
  <2> QED BY <2>3, <2>4
<1>4. ASSUME NEW r \in CreateRequests, NEW d \in BookingIds, Insert(r, d)
      PROVE  CalendarInv'
  <2> DEFINE m == create[r].mate
             s == create[r].slot
  <2>1. create[r] \in CreateCall /\ m \in Mates /\ s \in Slots
    BY <1>4, CreateCallType DEF Insert
  <2>2. mateLock[m] = r
    BY <1>4 DEF HoldsLock, Insert
  <2>3. row'[d] = [status |-> "pending", mate |-> m, slot |-> s]
        /\ \A b \in BookingIds : b # d => row'[b] = row[b]
    BY <1>4 DEF Insert, TypeOK
  <2>4. create'[r].pc = "done" /\ \A q \in CreateRequests : q # r => create'[q] = create[q]
    BY <1>4 DEF Insert, TypeOK, Answer
  <2>5. HoldsLock'
    BY <1>4, <2>1, <2>2, <2>4 DEF HoldsLock, TypeOK, Unlock, Insert
  \* The lock keeps every other create of this mate before its query.
  <2>6. ASSUME NEW q \in CreateRequests, q # r, create[q].pc = "clear"
        PROVE  create[q].mate # m
    BY <2>6, <2>2 DEF HoldsLock
  <2>7. ClearIsClear'
    <3> SUFFICES ASSUME NEW q \in CreateRequests, create'[q].pc = "clear",
                        NEW b \in BookingIds,
                        Occupies(b, create[q].mate, create[q].slot)'
                 PROVE  b \in revived
      BY <1>4 DEF ClearIsClear, Insert
    <3>1. q # r
      BY <2>4
    <3>2. create'[q] = create[q] /\ create[q].mate # m
      BY <3>1, <2>4, <2>6
    <3>3. b # d
      BY <3>2, <2>3 DEF Occupies, Calendar!Occupies
    <3>4. Occupies(b, create[q].mate, create[q].slot)
      BY <3>2, <3>3, <2>3 DEF Occupies, Calendar!Occupies
    <3> QED BY <3>2, <3>4 DEF ClearIsClear
  <2>8. DoubleBookingNeedsRevival'
    <3> SUFFICES ASSUME NEW b \in BookingIds, NEW c \in BookingIds, DoubleBooked(b, c)'
                 PROVE  b \in revived \/ c \in revived
      BY <1>4 DEF DoubleBookingNeedsRevival, Insert
    <3>1. CASE b # d /\ c # d
      BY <3>1, <2>3 DEF DoubleBookingNeedsRevival, DoubleBooked, Occupies, Calendar!Occupies
    <3>2. CASE c = d
      <4>1. b # d
        BY <3>2 DEF DoubleBooked
      <4>2. Occupies(b, m, s)
        BY <3>2, <4>1, <2>3 DEF DoubleBooked, Occupies, Calendar!Occupies
      <4> QED BY <4>2, <1>4 DEF ClearIsClear, Insert
    <3>3. CASE b = d
      <4>1. c # d
        BY <3>3 DEF DoubleBooked
      <4>2. row[c].status \in Calendar!Blocking /\ row[c].mate = m
            /\ Calendar!Overlaps(s, row[c].slot)
        BY <3>3, <4>1, <2>3 DEF DoubleBooked, Occupies, Calendar!Occupies
      <4>3. row[c] # NoRow
        BY <4>2 DEF NoRow, Calendar!NoRow, Calendar!Blocking
      <4>4. row[c].slot \in Slots
        BY <4>3, RowType
      <4>5. Calendar!Overlaps(row[c].slot, s)
        BY <4>2, <4>4, <2>1, TimingAssumption DEF Calendar!Overlaps
      <4>6. Occupies(c, m, s)
        BY <4>2, <4>5 DEF Occupies, Calendar!Occupies
      <4> QED BY <4>6, <1>4 DEF ClearIsClear, Insert
    <3> QED BY <3>1, <3>2, <3>3
  <2> QED BY <1>t, <2>5, <2>7, <2>8
<1>5. ASSUME NEW r \in CreateRequests, CreateFails(r)
      PROVE  CalendarInv'
  <2>1. create[r].mate \in Mates
    BY <1>5, CreateCallType DEF CreateFails
  <2>2. create'[r].pc = "failed" /\ \A q \in CreateRequests : q # r => create'[q] = create[q]
    BY <1>5 DEF CreateFails, TypeOK, Answer
  <2>3. HoldsLock'
    <3> SUFFICES ASSUME NEW q \in CreateRequests, create'[q].pc \in {"locked", "clear"}
                 PROVE  mateLock'[create'[q].mate] = q
      BY DEF HoldsLock
    <3>1. q # r /\ create'[q] = create[q] /\ mateLock[create[q].mate] = q
      BY <2>2 DEF HoldsLock
    <3>2. CASE create[r].pc = "checked"
      BY <3>1, <3>2, <1>5 DEF CreateFails
    <3>3. CASE create[r].pc # "checked"
      <4>1. mateLock[create[r].mate] = r
        BY <3>3, <1>5 DEF CreateFails, HoldsLock
      <4>2. create[q].mate # create[r].mate
        BY <4>1, <3>1
      <4> QED BY <3>1, <3>3, <4>2, <1>5, <2>1 DEF CreateFails, Unlock, TypeOK
    <3> QED BY <3>2, <3>3
  <2>4. ClearIsClear' /\ DoubleBookingNeedsRevival'
    BY <1>5, <2>2, ClearKept, DoubleKept DEF CreateFails
  <2> QED BY <1>t, <2>3, <2>4
<1>6. ASSUME NEW r \in DecisionRequests, Write(r)
      PROVE  CalendarInv'
  <2>1. UNCHANGED <<mateLock, create>> /\ revived \subseteq revived'
    BY <1>6 DEF Write
  <2>2. HoldsLock'
    BY <2>1 DEF HoldsLock
  <2>3. ClearIsClear'
    <3> SUFFICES ASSUME NEW q \in CreateRequests, create[q].pc = "clear",
                        NEW b \in BookingIds,
                        Occupies(b, create[q].mate, create[q].slot)'
                 PROVE  b \in revived'
      BY <2>1 DEF ClearIsClear
    <3>1. row'[b].status \in Calendar!Blocking
      BY DEF Occupies, Calendar!Occupies
    <3>2. Occupies(b, create[q].mate, create[q].slot) \/ b \in revived'
      BY <1>6, <2>1, <3>1, WriteBlocks DEF Occupies, Calendar!Occupies
    <3> QED BY <3>2, <2>1 DEF ClearIsClear
  <2>4. DoubleBookingNeedsRevival'
    <3> SUFFICES ASSUME NEW b \in BookingIds, NEW c \in BookingIds, DoubleBooked(b, c)',
                        b \notin revived', c \notin revived'
                 PROVE  FALSE
      BY DEF DoubleBookingNeedsRevival
    <3>1. row'[b].status \in Calendar!Blocking /\ row'[c].status \in Calendar!Blocking
      BY DEF DoubleBooked, Occupies, Calendar!Occupies
    <3>2. DoubleBooked(b, c)
      BY <1>6, <3>1, WriteBlocks DEF DoubleBooked, Occupies, Calendar!Occupies
    <3> QED BY <3>2, <2>1 DEF DoubleBookingNeedsRevival
  <2> QED BY <1>t, <2>2, <2>3, <2>4
<1>7. CASE UNCHANGED <<row, mateLock, create, revived>>
  <2>1. HoldsLock'
    BY <1>7 DEF HoldsLock
  <2>2. ClearIsClear' /\ DoubleBookingNeedsRevival'
    BY <1>7, ClearKept, DoubleKept
  <2> QED BY <1>t, <2>1, <2>2
<1> QED
  BY <1>1, <1>2, <1>3, <1>4, <1>5, <1>6, <1>7
  DEF Next, CreateStep, DecisionStep, Read, DecisionFails, Tick, vars

\* Two active bookings of one mate overlap only when a stale accept revived one.
THEOREM DoubleBookingTheorem == Spec => []DoubleBookingNeedsRevival
<1>1. Spec => []CalendarInv
  BY CalendarInvInit, CalendarInvNext, PTL DEF Spec
<1>2. CalendarInv => DoubleBookingNeedsRevival
  BY DEF CalendarInv
<1> QED BY <1>1, <1>2, PTL

-------------------------------------------------------------------------------
(***************************************************************************)
(* The clock keeps cancel and complete apart.  The inductive invariant     *)
(* says how a decision in flight relates to the clock and to its row.      *)
(***************************************************************************)
LongEnough ==
  /\ \A b \in BookingIds : row[b] # NoRow =>
       row[b].slot.end - row[b].slot.start >= MinDuration
  /\ \A r \in CreateRequests : create[r].pc \in {"checked", "locked", "clear"} =>
       create[r].slot.end - create[r].slot.start >= MinDuration

\* What is known of a decision in flight, whatever has happened since its read.
InFlight(r) ==
  LET d == decision[r]
      b == d.booking
  IN  /\ row[b] # NoRow
      /\ d.at <= now /\ now <= d.at + MaxLatency
      /\ d.op = "cancel" => d.at < row[b].slot.start
      /\ d.op = "complete" => now > row[b].slot.end /\ row[b].status # "pending"

Timely == \A r \in DecisionRequests : decision[r].pc = "checked" => InFlight(r)

CompletedIsOver ==
  \A b \in BookingIds : row[b].status = "completed" => now > row[b].slot.end

TimeInv == TypeOK /\ LongEnough /\ Timely /\ CompletedIsOver

LEMMA TimeInvImpliesSpared == TimeInv => CancelSparesCompleted
<1> SUFFICES ASSUME TimeInv, NEW r \in DecisionRequests, decision[r].pc = "checked",
                    decision[r].op = "cancel",
                    row[decision[r].booking].status = "completed"
             PROVE  FALSE
  BY DEF CancelSparesCompleted
<1> DEFINE b == decision[r].booking
<1>1. b \in BookingIds /\ decision[r].at \in 0 .. MaxTime
  BY DecisionCallType DEF TimeInv
<1>2. row[b] # NoRow /\ row[b].slot \in Slots
  BY <1>1, RowType DEF TimeInv, Timely, InFlight
<1>3. now <= decision[r].at + MaxLatency /\ decision[r].at < row[b].slot.start
  BY DEF TimeInv, Timely, InFlight
<1>4. row[b].slot.end - row[b].slot.start >= MinDuration /\ now > row[b].slot.end
  BY <1>1, <1>2 DEF TimeInv, LongEnough, CompletedIsOver
<1>5. row[b].slot.start \in Int /\ row[b].slot.end \in Int /\ now \in Int
  BY <1>2, TimingAssumption DEF TimeInv, TypeOK
<1> QED BY <1>1, <1>3, <1>4, <1>5, TimingAssumption

LEMMA TimeInvInit == Init => TimeInv
<1> SUFFICES ASSUME Init PROVE TimeInv
  OBVIOUS
<1>1. LongEnough
  BY DEF Init, LongEnough, New
<1>2. Timely
  BY DEF Init, Timely, New
<1>3. CompletedIsOver
  BY DEF Init, CompletedIsOver, NoRow, Calendar!NoRow
<1> QED BY <1>1, <1>2, <1>3, TypeInit DEF TimeInv

\* A row that a write changes keeps its slot, and was not NoRow.
LEMMA WriteKeepsSlot ==
  ASSUME TypeOK, NEW r \in DecisionRequests, Write(r), NEW b \in BookingIds
  PROVE  /\ row'[b].slot = row[b].slot
         /\ row'[b] = NoRow <=> row[b] = NoRow
         /\ b # decision[r].booking => row'[b] = row[b]
         /\ b = decision[r].booking => row'[b].status = Target[decision[r].op]
<1>1. decision[r].booking \in BookingIds
  BY DecisionCallType DEF Write
<1>2. CASE b # decision[r].booking
  BY <1>1, <1>2 DEF Write, TypeOK
<1>3. CASE b = decision[r].booking
  <2>1. row[b] \in Row
    BY <1>3, RowType DEF Write
  <2>2. row'[b] = [row[b] EXCEPT !.status = Target[decision[r].op]]
    BY <1>3 DEF Write, TypeOK
  <2>3. row'[b].slot = row[b].slot /\ row'[b].status = Target[decision[r].op]
    BY <2>1, <2>2 DEF Row, Calendar!Row
  <2>4. row'[b].mate = row[b].mate /\ DOMAIN row'[b] = {"status", "mate", "slot"}
    BY <2>1, <2>2 DEF Row, Calendar!Row
  <2>5. row'[b] # NoRow
    BY <2>4 DEF NoRow, Calendar!NoRow
  <2> QED BY <1>3, <2>3, <2>5 DEF Write
<1> QED BY <1>2, <1>3

LEMMA TimeInvNext == TimeInv /\ [Next]_vars => TimeInv'
<1> SUFFICES ASSUME TimeInv, [Next]_vars PROVE TimeInv'
  OBVIOUS
<1> USE DEF TimeInv
<1>t. TypeOK'
  BY TypeNext
<1>n. now \in Int /\ MaxLatency \in Nat
  BY TimingAssumption DEF TypeOK
<1>1. ASSUME NEW r \in CreateRequests, NEW m \in Mates, NEW s \in Slots, Check(r, m, s)
      PROVE  TimeInv'
  <2>1. PICK open \in BOOLEAN : create' = [create EXCEPT ![r] =
          IF Bookable(s, open) THEN [pc |-> "checked", mate |-> m, slot |-> s]
                               ELSE Answer("refused")]
    BY <1>1 DEF Check
  <2>2. \A q \in CreateRequests : q # r => create'[q] = create[q]
    BY <2>1 DEF TypeOK
  <2>3. create'[r].pc = "checked" => create'[r].slot = s /\ s.end - s.start >= MinDuration
    BY <2>1, TimingAssumption DEF TypeOK, Bookable, Answer
  <2>4. create'[r].pc \notin {"locked", "clear"}
    BY <2>1 DEF TypeOK, Answer
  <2>5. LongEnough'
    BY <1>1, <2>2, <2>3, <2>4 DEF LongEnough, Check
  <2>6. Timely' /\ CompletedIsOver'
    BY <1>1 DEF Timely, InFlight, CompletedIsOver, Check
  <2> QED BY <1>t, <2>5, <2>6
<1>2. ASSUME NEW r \in CreateRequests,
             create[r].pc \in {"checked", "locked", "clear"},
             \A q \in CreateRequests : q # r => create'[q] = create[q],
             create'[r].pc \in {"checked", "locked", "clear"} =>
               create'[r].slot = create[r].slot,
             UNCHANGED <<row, decision, now>>
      PROVE  TimeInv'
  <2>1. LongEnough'
    BY <1>2 DEF LongEnough
  <2>2. Timely' /\ CompletedIsOver'
    BY <1>2 DEF Timely, InFlight, CompletedIsOver
  <2> QED BY <1>t, <2>1, <2>2
<1>3. ASSUME NEW r \in CreateRequests, Lock(r) \/ FindOverlap(r) \/ CreateFails(r)
      PROVE  TimeInv'
  <2>1. create[r] \in CreateCall
    BY <1>3, CreateCallType DEF Lock, FindOverlap, CreateFails
  <2>2. create'[r].pc \in {"checked", "locked", "clear"} => create'[r].slot = create[r].slot
    BY <1>3, <2>1 DEF Lock, FindOverlap, CreateFails, TypeOK, Answer, CreateCall
  <2>3. \A q \in CreateRequests : q # r => create'[q] = create[q]
    BY <1>3 DEF Lock, FindOverlap, CreateFails, TypeOK
  <2> QED BY <1>2, <1>3, <2>2, <2>3 DEF Lock, FindOverlap, CreateFails
<1>4. ASSUME NEW r \in CreateRequests, NEW d \in BookingIds, Insert(r, d)
      PROVE  TimeInv'
  <2>1. create[r].slot \in Slots
        /\ create[r].slot.end - create[r].slot.start >= MinDuration
    BY <1>4, CreateCallType DEF Insert, LongEnough
  <2>2. row'[d].slot = create[r].slot /\ row'[d].status = "pending"
        /\ \A b \in BookingIds : b # d => row'[b] = row[b]
    BY <1>4 DEF Insert, TypeOK
  <2>3. \A q \in CreateRequests : create'[q].pc \in {"checked", "locked", "clear"} =>
          create'[q] = create[q]
    BY <1>4 DEF Insert, TypeOK, Answer
  <2>4. LongEnough'
    BY <2>1, <2>2, <2>3 DEF LongEnough
  <2>5. \A q \in DecisionRequests : decision[q].pc = "checked" =>
          decision[q].booking # d /\ row'[decision[q].booking] = row[decision[q].booking]
    BY <1>4, <2>2, DecisionCallType DEF Insert, Timely, InFlight
  <2>6. Timely'
    BY <1>4, <2>5, <1>t DEF Timely, InFlight, Insert, TypeOK
  <2>7. CompletedIsOver'
    BY <1>4, <2>2 DEF CompletedIsOver, Insert
  <2> QED BY <1>t, <2>4, <2>6, <2>7
<1>5. ASSUME NEW r \in DecisionRequests, NEW b \in BookingIds,
             NEW op \in Decisions, NEW by \in Actors, Read(r, b, op, by)
      PROVE  TimeInv'
  <2>1. LongEnough' /\ CompletedIsOver'
    BY <1>5 DEF LongEnough, CompletedIsOver, Read
  <2>2. \A q \in DecisionRequests : q # r => decision'[q] = decision[q]
    BY <1>5 DEF Read, TypeOK
  <2>3. decision'[r].pc = "checked" => InFlight(r)'
    <3> SUFFICES ASSUME decision'[r].pc = "checked" PROVE InFlight(r)'
      OBVIOUS
    <3>1. Admits(b, op, by)
      BY <1>5 DEF Read
    <3>2. decision'[r] = [pc |-> "checked", op |-> op, by |-> by, booking |-> b, at |-> now]
      BY <1>5, <3>1 DEF Read, TypeOK
    <3>3. op = "complete" => row[b].status = "confirmed"
      BY <3>1 DEF Admits, Source
    <3> QED BY <1>5, <3>1, <3>2, <3>3, <1>n DEF InFlight, Admits, InTime, Read
  <2>4. Timely'
    BY <1>5, <2>2, <2>3 DEF Timely, InFlight, Read
  <2> QED BY <1>t, <2>1, <2>4
<1>6. ASSUME NEW r \in DecisionRequests, Write(r)
      PROVE  TimeInv'
  <2> DEFINE d == decision[r].booking
  <2>1. d \in BookingIds /\ decision[r].op \in Decisions
    BY <1>6, DecisionCallType DEF Write
  <2>2. LongEnough'
    BY <1>6, WriteKeepsSlot DEF LongEnough, Write
  <2>3. \A q \in DecisionRequests : decision'[q].pc = "checked" =>
          decision[q].pc = "checked" /\ decision'[q] = decision[q]
    BY <1>6 DEF Write, TypeOK, New
  <2>4. Timely'
    <3> SUFFICES ASSUME NEW q \in DecisionRequests, decision'[q].pc = "checked"
                 PROVE  InFlight(q)'
      BY DEF Timely
    <3>1. InFlight(q) /\ decision'[q] = decision[q] /\ decision[q].booking \in BookingIds
      BY <2>3, DecisionCallType DEF Timely
    <3>2. Target[decision[r].op] # "pending"
      BY <2>1 DEF Target, Decisions
    <3> DEFINE e == decision[q].booking
    <3>3. row'[e].slot = row[e].slot /\ row'[e] # NoRow /\ now' = now
      BY <1>6, <3>1, WriteKeepsSlot DEF InFlight, Write
    <3>4. row'[e].status = row[e].status \/ row'[e].status # "pending"
      BY <1>6, <3>1, <3>2, WriteKeepsSlot
    <3> QED BY <3>1, <3>3, <3>4 DEF InFlight
  <2>5. CompletedIsOver'
    <3> SUFFICES ASSUME NEW b \in BookingIds, row'[b].status = "completed"
                 PROVE  now > row[b].slot.end
      BY <1>6, WriteKeepsSlot DEF CompletedIsOver, Write
    <3>1. CASE b = d
      <4>1. decision[r].op = "complete"
        BY <1>6, <3>1, <2>1, WriteKeepsSlot DEF Target, Decisions
      <4> QED BY <1>6, <3>1, <4>1 DEF Timely, InFlight, Write
    <3>2. CASE b # d
      BY <1>6, <3>2, WriteKeepsSlot DEF CompletedIsOver
    <3> QED BY <3>1, <3>2
  <2> QED BY <1>t, <2>2, <2>4, <2>5
<1>7. ASSUME NEW r \in DecisionRequests, DecisionFails(r)
      PROVE  TimeInv'
  <2>1. \A q \in DecisionRequests : decision'[q].pc = "checked" => decision'[q] = decision[q]
    BY <1>7 DEF DecisionFails, TypeOK, New
  <2> QED BY <1>7, <1>t, <2>1
          DEF LongEnough, Timely, InFlight, CompletedIsOver, DecisionFails
<1>8. CASE Tick
  <2>1. now' = now + 1
    BY <1>8 DEF Tick
  <2>2. Timely'
    <3> SUFFICES ASSUME NEW q \in DecisionRequests, decision[q].pc = "checked"
                 PROVE  InFlight(q)'
      BY <1>8 DEF Timely, Tick
    <3>1. InFlight(q) /\ decision[q].at \in Int /\ now < decision[q].at + MaxLatency
      BY <1>8, DecisionCallType DEF Timely, Tick
    <3>2. row[decision[q].booking].slot \in Slots
      BY <3>1, DecisionCallType, RowType DEF InFlight
    <3> QED BY <1>8, <1>n, <2>1, <3>1, <3>2, TimingAssumption DEF InFlight, Tick
  <2>3. CompletedIsOver'
    <3> SUFFICES ASSUME NEW b \in BookingIds, row[b].status = "completed"
                 PROVE  now + 1 > row[b].slot.end
      BY <1>8, <2>1 DEF CompletedIsOver, Tick
    <3>1. row[b].slot \in Slots
      BY RowType DEF NoRow, Calendar!NoRow
    <3> QED BY <3>1, <1>n, TimingAssumption DEF CompletedIsOver
  <2> QED BY <1>8, <1>t, <2>2, <2>3 DEF LongEnough, Tick
<1>9. CASE UNCHANGED vars
  BY <1>9, <1>t DEF vars, LongEnough, Timely, InFlight, CompletedIsOver
<1> QED
  BY <1>1, <1>3, <1>4, <1>5, <1>6, <1>7, <1>8, <1>9
  DEF Next, CreateStep, DecisionStep

\* No cancel in flight ever finds its booking completed.
THEOREM CancelSparesCompletedTheorem == Spec => []CancelSparesCompleted
BY TimeInvInit, TimeInvNext, TimeInvImpliesSpared, PTL DEF Spec

-------------------------------------------------------------------------------
(***************************************************************************)
(* Bookings implements BookingCalendar: every step is a Book, a Decide, an *)
(* Override or leaves the calendar alone.                                  *)
(***************************************************************************)
LEMMA WriteImplements ==
  ASSUME TimeInv, NEW r \in DecisionRequests, Write(r)
  PROVE  [Calendar!CalendarNext]_(Calendar!calendarVars)
<1> DEFINE op == decision[r].op
           b  == decision[r].booking
<1> USE DEF TimeInv
<1>1. op \in Decisions /\ b \in BookingIds
  BY DecisionCallType DEF Write
<1>2. row[b] # NoRow /\ row[b] \in Row /\ row[b].status \in BookingStatus
  BY <1>1, RowType DEF Write
<1>3. row' = [row EXCEPT ![b].status = Target[op]]
      /\ revived' = IF Revives(b, op) THEN revived \cup {b} ELSE revived
  BY DEF Write
<1>4. Target[op] \in BookingStatus
  BY <1>1 DEF Target, Decisions, BookingStatus, Calendar!BookingStatus
<1>5. CASE row[b].status = Target[op]
  <2>1. [row[b] EXCEPT !.status = Target[op]] = row[b]
    BY <1>2, <1>5 DEF Row, Calendar!Row
  <2>2. row' = row
    BY <1>1, <1>3, <2>1 DEF TypeOK
  <2>3. ~Revives(b, op)
    BY <1>5 DEF Revives, Target
  <2> QED BY <1>3, <2>2, <2>3 DEF Calendar!calendarVars
<1>6. CASE <<row[b].status, Target[op]>> \in Calendar!Lifecycle
  <2>1. ~Revives(b, op)
    BY <1>6 DEF Revives, Target, Calendar!Lifecycle
  <2>2. Calendar!Decide(b, Target[op])
    BY <1>2, <1>3, <1>6, <2>1 DEF Calendar!Decide, NoRow
  <2> QED BY <1>1, <1>4, <2>2 DEF Calendar!CalendarNext, BookingStatus
<1>7. CASE <<row[b].status, Target[op]>> \in Calendar!Overrides
  <2>1. Revives(b, op) <=> Target[op] = "confirmed"
    BY <1>1, <1>7 DEF Revives, Target, Decisions, Calendar!Overrides
  <2>2. Calendar!Override(b, Target[op])
    BY <1>2, <1>3, <1>7, <2>1 DEF Calendar!Override, NoRow
  <2> QED BY <1>1, <1>4, <2>2 DEF Calendar!CalendarNext, BookingStatus
<1>8. op = "cancel" => row[b].status # "completed"
  BY TimeInvImpliesSpared DEF CancelSparesCompleted, Write
<1>9. op = "complete" => row[b].status # "pending"
  BY DEF Write, Timely, InFlight
<1> QED
  BY <1>1, <1>2, <1>5, <1>6, <1>7, <1>8, <1>9
  DEF Decisions, Target, BookingStatus, Calendar!BookingStatus,
      Calendar!Lifecycle, Calendar!Overrides

\* The concurrent component implements the atomic calendar.
THEOREM CalendarRefinement == Spec => ImplementsCalendar
<1>1. Init => Calendar!CalendarInit
  BY DEF Init, Calendar!CalendarInit, NoRow
<1>2. CalendarInv /\ TimeInv /\ [Next]_vars => [Calendar!CalendarNext]_(Calendar!calendarVars)
  <2> SUFFICES ASSUME CalendarInv, TimeInv, [Next]_vars
               PROVE  [Calendar!CalendarNext]_(Calendar!calendarVars)
    OBVIOUS
  <2>1. ASSUME NEW r \in CreateRequests, NEW b \in BookingIds, Insert(r, b)
        PROVE  Calendar!CalendarNext
    <3>1. create[r].mate \in Mates /\ create[r].slot \in Slots
      BY <2>1, CreateCallType DEF Insert, TimeInv
    <3>2. Calendar!Book(b, create[r].mate, create[r].slot)
      BY <2>1 DEF Insert, Calendar!Book, CalendarInv, ClearIsClear, Occupies, NoRow
    <3> QED BY <3>1, <3>2 DEF Calendar!CalendarNext
  <2>2. ASSUME NEW r \in DecisionRequests, Write(r)
        PROVE  [Calendar!CalendarNext]_(Calendar!calendarVars)
    BY <2>2, WriteImplements
  <2>3. CASE UNCHANGED <<row, revived>>
    BY <2>3 DEF Calendar!calendarVars
  <2> QED
    BY <2>1, <2>2, <2>3
    DEF Next, CreateStep, DecisionStep, Check, Lock, FindOverlap, CreateFails,
        Read, DecisionFails, Tick, vars
<1> QED
  BY <1>1, <1>2, CalendarInvInit, CalendarInvNext, TimeInvInit, TimeInvNext, PTL
  DEF Spec, ImplementsCalendar, Calendar!CalendarSpec

-------------------------------------------------------------------------------

\* A settled booking that no decision in flight is about is settled for good.
THEOREM SettledTheorem == Spec => SettledIsStable
<1> DEFINE Settled(b) == row[b].status \in {"cancelled", "completed"} /\ Quiet(b)
           Stays(b) == row'[b] = row[b] /\ Quiet(b)'
<1>1. TypeOK /\ [Next]_vars => [\A b \in BookingIds : Settled(b) => Stays(b)]_vars
  <2> SUFFICES ASSUME TypeOK, Next, NEW b \in BookingIds, Settled(b) PROVE Stays(b)
    OBVIOUS
  <2>1. ASSUME NEW r \in CreateRequests, NEW d \in BookingIds, Insert(r, d)
        PROVE  Stays(b)
    <3>1. b # d
      BY <2>1 DEF Insert, NoRow, Calendar!NoRow
    <3> QED BY <2>1, <3>1 DEF Insert, TypeOK, Quiet
  <2>2. ASSUME NEW r \in DecisionRequests, NEW c \in BookingIds,
               NEW op \in Decisions, NEW by \in Actors, Read(r, c, op, by)
        PROVE  Stays(b)
    <3>1. c = b => ~Admits(c, op, by)
      BY DEF Admits, Source, Decisions
    <3>2. decision'[r].pc = "checked" => decision'[r].booking = c /\ c # b
      BY <2>2, <3>1 DEF Read, TypeOK
    <3>3. \A q \in DecisionRequests : q # r => decision'[q] = decision[q]
      BY <2>2 DEF Read, TypeOK
    <3> QED BY <2>2, <3>2, <3>3 DEF Read, Quiet
  <2>3. ASSUME NEW r \in DecisionRequests, Write(r)
        PROVE  Stays(b)
    <3>1. decision[r].booking # b
      BY <2>3 DEF Write, Quiet
    <3>2. row'[b] = row[b]
      BY <2>3, <3>1, WriteKeepsSlot
    <3>3. \A q \in DecisionRequests : decision'[q].pc = "checked" => decision'[q] = decision[q]
      BY <2>3 DEF Write, TypeOK, New
    <3> QED BY <3>2, <3>3 DEF Quiet
  <2>4. ASSUME NEW r \in DecisionRequests, DecisionFails(r)
        PROVE  Stays(b)
    <3>1. \A q \in DecisionRequests : decision'[q].pc = "checked" => decision'[q] = decision[q]
      BY <2>4 DEF DecisionFails, TypeOK, New
    <3> QED BY <2>4, <3>1 DEF DecisionFails, Quiet
  <2>5. CASE UNCHANGED <<row, decision>>
    BY <2>5 DEF Quiet
  <2> QED
    BY <2>1, <2>2, <2>3, <2>4, <2>5
    DEF Next, CreateStep, DecisionStep, Check, Lock, FindOverlap, CreateFails, Tick
<1> QED BY <1>1, TypeInit, TypeNext, PTL DEF Spec, SettledIsStable
===============================================================================
