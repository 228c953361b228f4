---------------------------- MODULE PaymentsProofs ----------------------------
(***************************************************************************)
(* Theorems about Payments, for every set of bookings and workers and any  *)
(* number of declined attempts and failed requests.                        *)
(***************************************************************************)
EXTENDS Payments, TLAPS

\* A worker at a program point is serving a well-formed job.
LEMMA JobType ==
  ASSUME TypeOK, NEW w \in Workers, worker[w].pc # "idle"
  PROVE  /\ worker[w] \in Job
         /\ Its(w) \in BookingIds
         /\ worker[w].mark \in Mark
         /\ worker[w].seen \in PaymentStatus
         /\ worker[w].op \in Op
         /\ worker[w].event \in Event \cup {NoEvent}
<1>1. worker[w] # Idle
  BY DEF Idle
<1>2. worker[w] \in Job
  BY <1>1 DEF TypeOK
<1> QED BY <1>2 DEF Job, JobRecord, Its

LEMMA GotoType ==
  ASSUME TypeOK, NEW w \in Workers, worker[w].pc # "idle", NEW pc \in Pc, Goto(w, pc),
         pc = "record" => worker[w].op = "webhook", worker[w].pc # "decide", pc # "decide"
  PROVE  /\ worker' \in [Workers -> Job \cup {Idle}]
         /\ worker'[w].pc = pc
         /\ \A f \in {"op", "booking", "event", "mark", "seen"} : worker'[w][f] = worker[w][f]
         /\ \A v \in Workers : v # w => worker'[v] = worker[v]
<1>1. worker[w] \in Job
  BY JobType
<1>2. [worker[w] EXCEPT !.pc = pc] \in Job
  BY <1>1 DEF Job, JobRecord
<1>3. worker'[w] = [worker[w] EXCEPT !.pc = pc]
  BY DEF Goto, TypeOK
<1> QED BY <1>1, <1>2, <1>3 DEF Goto, TypeOK, Job, JobRecord

LEMMA SeeType ==
  ASSUME TypeOK, NEW w \in Workers, worker[w].pc # "idle", NEW pc \in Pc, See(w, pc),
         pc # "record", worker[w].pc # "decide", pc # "decide"
  PROVE  /\ worker' \in [Workers -> Job \cup {Idle}]
         /\ worker'[w].pc = pc
         /\ worker'[w].seen = payment[Its(w)]
         /\ \A f \in {"op", "booking", "event", "mark"} : worker'[w][f] = worker[w][f]
         /\ \A v \in Workers : v # w => worker'[v] = worker[v]
<1>1. worker[w] \in Job /\ Its(w) \in BookingIds
  BY JobType
<1>2. payment[Its(w)] \in PaymentStatus
  BY <1>1 DEF TypeOK
<1>3. worker'[w] = [worker[w] EXCEPT !.pc = pc, !.seen = payment[Its(w)]]
  BY DEF See, TypeOK, Its
<1>4. worker'[w] \in Job
  BY <1>1, <1>2, <1>3 DEF Job, JobRecord
<1> QED BY <1>1, <1>3, <1>4 DEF See, TypeOK, Job, JobRecord

LEMMA FinishType ==
  ASSUME TypeOK, NEW w \in Workers, Finish(w)
  PROVE  /\ worker' \in [Workers -> Job \cup {Idle}]
         /\ worker'[w] = Idle
         /\ \A v \in Workers : v # w => worker'[v] = worker[v]
BY DEF Finish, TypeOK

LEMMA StartType ==
  ASSUME TypeOK, NEW w \in Workers, NEW pc \in Pc, NEW op \in Op, NEW b \in BookingIds,
         NEW e \in Event \cup {NoEvent}, NEW k \in Mark, Start(w, pc, op, b, e, k),
         pc \notin {"record", "decide"}, op = "webhook" => e \in Event, op \notin Decision
  PROVE  /\ worker' \in [Workers -> Job \cup {Idle}]
         /\ worker'[w] = [pc |-> pc, op |-> op, booking |-> b, event |-> e,
                          mark |-> k, seen |-> "none"]
         /\ \A v \in Workers : v # w => worker'[v] = worker[v]
BY DEF Start, TypeOK, Job, JobRecord, PaymentStatus

LEMMA StartDecisionType ==
  ASSUME TypeOK, NEW w \in Workers, NEW op \in Decision, NEW b \in BookingIds,
         Start(w, "decide", op, b, NoEvent, "paid")
  PROVE  worker' \in [Workers -> Job \cup {Idle}]
<1>1. op \in Op /\ op # "webhook" /\ "decide" \in Pc /\ "paid" \in Mark
  BY DEF Decision, Op, Pc, Mark
<1> QED BY <1>1 DEF Start, TypeOK, Job, JobRecord, PaymentStatus

LEMMA TypeInit == Init => TypeOK
BY BoundsAssumption DEF Init, TypeOK, BookingStatus, PaymentStatus

LEMMA TypeNext == TypeOK /\ [Next]_vars => TypeOK'
<1> SUFFICES ASSUME TypeOK, [Next]_vars PROVE TypeOK'
  OBVIOUS
<1> USE DEF At, history
<1>1. ASSUME NEW w \in Workers, NEW b \in BookingIds,
             StartPay(w, b) \/ StartStatus(w, b) \/ StartRefund(w, b) \/ StartCancel(w, b)
      PROVE  TypeOK'
  <2>1. worker' \in [Workers -> Job \cup {Idle}]
    <3>1. {"pay", "status", "refund", "cancel"} \subseteq Op \ Decision /\ "paid" \in Mark
      BY DEF Op, Mark, Decision
    <3>2. {"pay-read", "retrieve", "refund-read", "cancel-begin"} \subseteq Pc
      BY DEF Pc
    <3>3. CASE StartPay(w, b)
      BY <3>1, <3>2, <3>3, StartType DEF StartPay
    <3>4. CASE StartStatus(w, b)
      BY <3>1, <3>2, <3>4, StartType DEF StartStatus
    <3>5. CASE StartRefund(w, b)
      BY <3>1, <3>2, <3>5, StartType DEF StartRefund
    <3>6. CASE StartCancel(w, b)
      BY <3>1, <3>2, <3>6, StartType DEF StartCancel
    <3> QED BY <1>1, <3>3, <3>4, <3>5, <3>6
  <2>2. crossed' \subseteq BookingIds
    BY <1>1 DEF TypeOK, StartPay, StartStatus, StartRefund, StartCancel, Start
  <2> QED BY <1>1, <2>1, <2>2
          DEF TypeOK, StartPay, StartStatus, StartRefund, StartCancel, database, stripe
<1>2. ASSUME NEW w \in Workers, NEW e \in Event, Deliver(w, e)
      PROVE  TypeOK'
  <2>1. e.booking \in BookingIds /\ e.mark \in Mark
    BY DEF Event
  <2>2. worker' \in [Workers -> Job \cup {Idle}]
    <3>1. "webhook" \in Op \ Decision /\ "mark-read" \in Pc
      BY DEF Op, Decision, Pc
    <3> QED BY <1>2, <2>1, <3>1, StartType DEF Deliver
  <2>3. crossed' \subseteq BookingIds
    BY <1>2, <2>1 DEF TypeOK, Deliver, Start
  <2> QED BY <1>2, <2>2, <2>3 DEF TypeOK, Deliver, database, stripe
<1>3. ASSUME NEW w \in Workers, PayRead(w)
      PROVE  TypeOK'
  <2>1. worker' \in [Workers -> Job \cup {Idle}]
    BY <1>3, SeeType, FinishType DEF PayRead, Pc
  <2>2. Its(w) \in BookingIds
    BY <1>3, JobType DEF PayRead
  <2> QED BY <1>3, <2>1, <2>2 DEF TypeOK, PayRead, database, stripe
<1>4. ASSUME NEW w \in Workers, PayIntent(w)
      PROVE  TypeOK'
  <2>1. worker' \in [Workers -> Job \cup {Idle}]
    BY <1>4, GotoType DEF PayIntent, Pc
  <2>2. Its(w) \in BookingIds
    BY <1>4, JobType DEF PayIntent
  <2>3. IntentsAfterCreate(Its(w)) \in Nat
    BY <2>2 DEF TypeOK, IntentsAfterCreate
  <2> QED BY <1>4, <2>1, <2>2, <2>3 DEF TypeOK, PayIntent, database
<1>5. ASSUME NEW w \in Workers, PayWrite(w)
      PROVE  TypeOK'
  <2>1. worker' \in [Workers -> Job \cup {Idle}]
    BY <1>5, FinishType DEF PayWrite
  <2>2. Its(w) \in BookingIds
    BY <1>5, JobType DEF PayWrite
  <2>3. payment' \in [BookingIds -> PaymentStatus] /\ secret' \in [BookingIds -> BOOLEAN]
    BY <1>5, <2>2 DEF TypeOK, PayWrite, PaymentStatus
  <2> QED BY <1>5, <2>1, <2>3 DEF TypeOK, PayWrite, stripe
<1>6. ASSUME NEW w \in Workers, Retrieve(w)
      PROVE  TypeOK'
  <2>1. worker' \in [Workers -> Job \cup {Idle}]
    BY <1>6, GotoType, FinishType DEF Retrieve, Pc
  <2> QED BY <1>6, <2>1 DEF TypeOK, Retrieve, database, stripe
<1>7. ASSUME NEW w \in Workers, MarkRead(w)
      PROVE  TypeOK'
  <2>1. worker' \in [Workers -> Job \cup {Idle}]
    BY <1>7, GotoType, SeeType, FinishType DEF MarkRead, AfterMark, Pc
  <2> QED BY <1>7, <2>1 DEF TypeOK, MarkRead, database, stripe
<1>8. ASSUME NEW w \in Workers, MarkWrite(w)
      PROVE  TypeOK'
  <2>1. worker' \in [Workers -> Job \cup {Idle}]
    BY <1>8, GotoType, FinishType DEF MarkWrite, AfterMark, Pc
  <2>2. Its(w) \in BookingIds /\ worker[w].mark \in Mark
    BY <1>8, JobType DEF MarkWrite
  <2>3. payment' \in [BookingIds -> PaymentStatus]
    BY <1>8, <2>2 DEF TypeOK, MarkWrite, Mark, PaymentStatus
  <2>4. told' \in [BookingIds -> [Mark -> Nat]]
    BY <1>8, <2>2 DEF TypeOK, MarkWrite
  <2>5. late' \subseteq BookingIds
    BY <1>8, <2>2 DEF TypeOK, MarkWrite
  <2> QED BY <1>8, <2>1, <2>3, <2>4, <2>5 DEF TypeOK, MarkWrite, stripe
<1>9. ASSUME NEW w \in Workers, Record(w)
      PROVE  TypeOK'
  <2>1. worker' \in [Workers -> Job \cup {Idle}]
    BY <1>9, FinishType DEF Record
  <2>2. worker[w].event \in Event
    BY <1>9, JobType DEF Record, Job
  <2> QED BY <1>9, <2>1, <2>2 DEF TypeOK, Record, stripe
<1>10. ASSUME NEW w \in Workers, CancelBegin(w)
       PROVE  TypeOK'
  <2>1. worker' \in [Workers -> Job \cup {Idle}]
    BY <1>10, GotoType DEF CancelBegin, Pc
  <2>2. Its(w) \in BookingIds
    BY <1>10, JobType DEF CancelBegin
  <2> QED BY <1>10, <2>1, <2>2 DEF TypeOK, CancelBegin, database, stripe
<1>11. ASSUME NEW w \in Workers, RefundRead(w)
       PROVE  TypeOK'
  <2>1. worker' \in [Workers -> Job \cup {Idle}]
    BY <1>11, SeeType, FinishType DEF RefundRead, Pc
  <2> QED BY <1>11, <2>1 DEF TypeOK, RefundRead, database, stripe
<1>12. ASSUME NEW w \in Workers, RefundStripe(w)
       PROVE  TypeOK'
  <2>1. worker' \in [Workers -> Job \cup {Idle}]
    BY <1>12, GotoType DEF RefundStripe, Pc
  <2>2. Its(w) \in BookingIds
    BY <1>12, JobType DEF RefundStripe
  <2>3. RefundsAfterCreate(Its(w)) \in Nat
    BY <2>2 DEF TypeOK, RefundsAfterCreate
  <2> QED BY <1>12, <2>1, <2>2, <2>3 DEF TypeOK, RefundStripe, database
<1>13. ASSUME NEW w \in Workers, RefundWrite(w)
       PROVE  TypeOK'
  <2>1. worker' \in [Workers -> Job \cup {Idle}]
    BY <1>13, FinishType DEF RefundWrite
  <2>2. payment' \in [BookingIds -> PaymentStatus]
    BY <1>13 DEF TypeOK, RefundWrite, PaymentStatus
  <2> QED BY <1>13, <2>1, <2>2 DEF TypeOK, RefundWrite, stripe
<1>14. ASSUME NEW w \in Workers, CancelCommit(w)
       PROVE  TypeOK'
  <2>1. worker' \in [Workers -> Job \cup {Idle}]
    BY <1>14, FinishType DEF CancelCommit
  <2>2. payment' \in [BookingIds -> PaymentStatus] /\ booking' \in [BookingIds -> BookingStatus]
    BY <1>14 DEF TypeOK, CancelCommit, PaymentStatus, BookingStatus
  <2> QED BY <1>14, <2>1, <2>2 DEF TypeOK, CancelCommit, stripe
<1>15. ASSUME NEW w \in Workers, Fail(w)
       PROVE  TypeOK'
  <2>1. worker' \in [Workers -> Job \cup {Idle}]
    BY <1>15, FinishType DEF Fail
  <2>2. failures' \in 0 .. MaxFailures
    BY <1>15, BoundsAssumption DEF TypeOK, Fail
  <2> QED BY <1>15, <2>1, <2>2 DEF TypeOK, Fail, database, stripe
<1>16. ASSUME NEW w \in Workers, NEW b \in BookingIds, NEW op \in Decision,
              StartDecision(w, b, op)
       PROVE  TypeOK'
  <2>1. worker' \in [Workers -> Job \cup {Idle}]
    BY <1>16, StartDecisionType DEF StartDecision
  <2>2. crossed' = crossed
    BY <1>16 DEF StartDecision, Start
  <2> QED BY <1>16, <2>1, <2>2 DEF TypeOK, StartDecision, database, stripe
<1>21. ASSUME NEW w \in Workers, Decide(w)
       PROVE  TypeOK'
  <2>1. worker' \in [Workers -> Job \cup {Idle}]
    BY <1>21, FinishType DEF Decide
  <2>2. Its(w) \in BookingIds /\ worker[w].op \in Decision
    BY <1>21, JobType DEF Decide, Job
  <2>3. Target[worker[w].op] \in BookingStatus
    BY <2>2 DEF Decision, Target, BookingStatus
  <2>4. booking' \in [BookingIds -> BookingStatus] /\ overtaken' \subseteq BookingIds
    BY <1>21, <2>2, <2>3 DEF Decide, TypeOK
  <2> QED BY <1>21, <2>1, <2>4 DEF TypeOK, Decide, stripe
<1>17. ASSUME NEW b \in BookingIds, CustomerPays(b)
       PROVE  TypeOK'
  <2>1. [mark |-> "paid", booking |-> b, n |-> 1] \in Event
    BY BoundsAssumption DEF Event, Mark
  <2> QED BY <1>17, <2>1 DEF TypeOK, CustomerPays, database
<1>18. ASSUME NEW b \in BookingIds, BankDeclines(b)
       PROVE  TypeOK'
  <2>1. \A n \in 1 .. MaxDeclines : [mark |-> "failed", booking |-> b, n |-> n] \in Event
    BY BoundsAssumption DEF Event, Mark
  <2>2. emitted' \subseteq Event
    BY <1>18, <2>1 DEF BankDeclines, TypeOK
  <2> QED BY <1>18, <2>2 DEF TypeOK, BankDeclines, database
<1>19. ASSUME NEW b \in BookingIds, RefundSettles(b)
       PROVE  TypeOK'
  <2>1. [mark |-> "refunded", booking |-> b, n |-> 1] \in Event
    BY BoundsAssumption DEF Event, Mark
  <2> QED BY <1>19, <2>1 DEF TypeOK, RefundSettles, database
<1>20. CASE UNCHANGED vars
  BY <1>20 DEF TypeOK, vars, database, stripe
<1> QED
  BY <1>1, <1>2, <1>3, <1>4, <1>5, <1>6, <1>7, <1>8, <1>9, <1>10, <1>11, <1>12,
     <1>13, <1>14, <1>15, <1>16, <1>17, <1>18, <1>19, <1>20, <1>21
  DEF Next, Request, Continue, Environment

\* Types of the rows, the jobs and the bounded counters.
THEOREM TypeCorrect == Spec => []TypeOK
BY TypeInit, TypeNext, PTL DEF Spec

-------------------------------------------------------------------------------
(***************************************************************************)
(* Money.  The inductive invariant relates the Payment row of a booking,   *)
(* what Stripe did, the events it produced and what each worker, having    *)
(* read some of this earlier, is about to do.                              *)
(***************************************************************************)
AccountOK(b) ==
  /\ intents[b] \in {0, 1} /\ refunds[b] \in {0, 1}
  /\ payment[b] # "none" => intents[b] = 1
  /\ secret[b] \/ charged[b] => payment[b] # "none"
  /\ refunds[b] = 1 => charged[b]
  /\ payment[b] \in {"paid", "refunding", "refunded"} => charged[b]
  /\ payment[b] \in {"refunding", "refunded"} => refunds[b] = 1
  /\ booking[b] = "pending" => payment[b] = "none"

EventOK(e) ==
  /\ payment[e.booking] # "none"
  /\ e.mark = "paid" => charged[e.booking]
  /\ e.mark = "refunded" => refunds[e.booking] = 1

WorkerOK(w) ==
  LET j == worker[w]
      b == worker[w].booking
  IN  /\ j.pc \in {"pay-read", "pay-intent", "pay-write"} => booking[b] # "pending"
      /\ j.pc = "pay-write" => intents[b] = 1
      /\ j.pc = "retrieve" => j.mark = "paid"
      /\ j.pc \in {"mark-read", "mark-write"} =>
           /\ j.mark = "paid" => charged[b]
           /\ j.mark = "refunded" => refunds[b] = 1
      /\ j.pc = "mark-write" => payment[b] # "none"
      /\ j.pc = "refund-stripe" => charged[b] /\ j.seen = "paid"
      /\ j.pc = "refund-write" => refunds[b] = 1
      /\ j.pc = "cancel-commit" /\ j.seen = "paid" => refunds[b] = 1

\* A success that a cancel does not refund is remembered as late, a decline over
\* a booking that was accepted meanwhile as overtaken.
StrandedOK(b) ==
  booking[b] = "cancelled" \/ CancelPast(b) =>
    (payment[b] = "paid" /\ refunds[b] = 0 => b \in late \cup overtaken)

MoneyInv ==
  /\ TypeOK
  /\ \A b \in BookingIds : AccountOK(b) /\ StrandedOK(b)
  /\ \A e \in emitted : EventOK(e)
  /\ \A w \in Workers : WorkerOK(w)

\* What is gained is never lost.
Grows ==
  \A b \in BookingIds :
    /\ charged[b] => charged'[b]
    /\ intents[b] = 1 => intents'[b] = 1
    /\ refunds[b] = 1 => refunds'[b] = 1
    /\ payment[b] # "none" => payment'[b] # "none"
    /\ booking[b] # "pending" => booking'[b] # "pending"

LEMMA MoneyInit == Init => MoneyInv
<1> SUFFICES ASSUME Init PROVE MoneyInv
  OBVIOUS
<1>1. \A b \in BookingIds : AccountOK(b) /\ StrandedOK(b)
  BY DEF Init, AccountOK, StrandedOK
<1>2. \A w \in Workers : WorkerOK(w)
  BY DEF Init, WorkerOK, Idle
<1>3. \A e \in emitted : EventOK(e)
  BY DEF Init
<1> QED BY <1>1, <1>2, <1>3, TypeInit DEF MoneyInv

\* What a worker knows stays true while others act.
LEMMA WorkerKept ==
  ASSUME TypeOK, Grows, NEW v \in Workers, WorkerOK(v), worker'[v] = worker[v]
  PROVE  WorkerOK(v)'
<1>1. CASE worker[v].pc = "idle"
  BY <1>1 DEF WorkerOK
<1>2. CASE worker[v].pc # "idle"
  <2>1. worker[v].booking \in BookingIds
    BY <1>2, JobType DEF Its
  <2> QED BY <2>1 DEF WorkerOK, Grows
<1> QED BY <1>1, <1>2

\* It is enough to look at the worker that moves and at the accounts.
LEMMA Frame ==
  ASSUME MoneyInv, TypeOK', Grows, NEW w \in Workers,
         \A v \in Workers : v # w => worker'[v] = worker[v],
         WorkerOK(w)', emitted' = emitted,
         \A b \in BookingIds : AccountOK(b)' /\ StrandedOK(b)'
  PROVE  MoneyInv'
<1>1. \A v \in Workers : WorkerOK(v)'
  BY WorkerKept DEF MoneyInv
<1>2. \A e \in emitted' : EventOK(e)'
  <2> SUFFICES ASSUME NEW e \in emitted PROVE EventOK(e)'
    OBVIOUS
  <2>1. e.booking \in BookingIds
    BY DEF MoneyInv, TypeOK, Event
  <2> QED BY <2>1 DEF MoneyInv, EventOK, Grows
<1> QED BY <1>1, <1>2 DEF MoneyInv

\* A step that changes neither the rows nor Stripe.
LEMMA QuietStep ==
  ASSUME MoneyInv, TypeOK', NEW w \in Workers,
         \A v \in Workers : v # w => worker'[v] = worker[v],
         WorkerOK(w)',
         UNCHANGED <<booking, payment, intents, charged, refunds, emitted, late, overtaken>>,
         \A b \in BookingIds : secret'[b] => secret[b] \/ payment[b] # "none",
         worker'[w].pc = "cancel-commit" /\ worker'[w].seen # "paid" =>
           payment[worker'[w].booking] # "paid"
  PROVE  MoneyInv'
<1>1. Grows
  BY DEF Grows
<1>2. ASSUME NEW b \in BookingIds PROVE AccountOK(b)' /\ StrandedOK(b)'
  <2>1. AccountOK(b)'
    BY DEF MoneyInv, AccountOK
  <2>2. CancelPast(b)' => CancelPast(b) \/ payment[b] # "paid"
    BY DEF CancelPast, At, Its
  <2>3. StrandedOK(b)'
    BY <2>2 DEF MoneyInv, StrandedOK
  <2> QED BY <2>1, <2>3
<1> QED BY <1>1, <1>2, Frame

\* After a step that ends its request nothing is left to know of the worker.
LEMMA DoneIsOK ==
  ASSUME NEW w \in Workers, worker'[w] = Idle
  PROVE  WorkerOK(w)'
BY DEF WorkerOK, Idle

\* Only the worker that moves can newly be past its look at the payment.
LEMMA PastKept ==
  ASSUME NEW w \in Workers, NEW b \in BookingIds,
         \A v \in Workers : v # w => worker'[v] = worker[v],
         worker'[w].pc # "cancel-commit" \/ worker'[w].seen = "paid"
  PROVE  CancelPast(b)' => CancelPast(b)
BY DEF CancelPast, At, Its

\* A step of the environment moves no worker.
LEMMA EnvironmentFrame ==
  ASSUME MoneyInv, TypeOK', Grows, worker' = worker,
         UNCHANGED <<late, overtaken>>,
         \A b \in BookingIds : AccountOK(b)' /\ StrandedOK(b)',
         \A e \in emitted' : e \in emitted \/ EventOK(e)'
  PROVE  MoneyInv'
<1>1. \A v \in Workers : WorkerOK(v)'
  BY WorkerKept DEF MoneyInv
<1>2. ASSUME NEW e \in emitted PROVE EventOK(e)'
  <2>1. e.booking \in BookingIds
    BY DEF MoneyInv, TypeOK, Event
  <2> QED BY <2>1 DEF MoneyInv, EventOK, Grows
<1>3. \A e \in emitted' : EventOK(e)'
  BY <1>2
<1> QED BY <1>1, <1>3 DEF MoneyInv

LEMMA MoneyNext == MoneyInv /\ [Next]_vars => MoneyInv'
<1> SUFFICES ASSUME MoneyInv, [Next]_vars PROVE MoneyInv'
  OBVIOUS
<1> USE DEF history
<1>t. TypeOK /\ TypeOK'
  BY TypeNext DEF MoneyInv
<1>1. ASSUME NEW w \in Workers, NEW b \in BookingIds,
             StartPay(w, b) \/ StartStatus(w, b) \/ StartRefund(w, b) \/ StartCancel(w, b)
      PROVE  MoneyInv'
  <2> DEFINE Asked(pc, op) == [pc |-> pc, op |-> op, booking |-> b, event |-> NoEvent,
                               mark |-> "paid", seen |-> "none"]
  <2>1. /\ \/ worker'[w] = Asked("pay-read", "pay") /\ booking[b] # "pending"
           \/ worker'[w] = Asked("retrieve", "status")
           \/ worker'[w] = Asked("refund-read", "refund")
           \/ worker'[w] = Asked("cancel-begin", "cancel")
        /\ \A v \in Workers : v # w => worker'[v] = worker[v]
    <3>1. CASE StartPay(w, b)
      BY <1>t, <3>1 DEF TypeOK, StartPay, Start
    <3>2. CASE StartStatus(w, b)
      BY <1>t, <3>2 DEF TypeOK, StartStatus, Start
    <3>3. CASE StartRefund(w, b)
      BY <1>t, <3>3 DEF TypeOK, StartRefund, Start
    <3>4. CASE StartCancel(w, b)
      BY <1>t, <3>4 DEF TypeOK, StartCancel, Start
    <3> QED BY <1>1, <3>1, <3>2, <3>3, <3>4
  <2>2. UNCHANGED <<booking, payment, intents, charged, refunds, emitted, late, overtaken, secret>>
    BY <1>1 DEF StartPay, StartStatus, StartRefund, StartCancel, database, stripe
  <2>3. WorkerOK(w)'
    BY <2>1, <2>2 DEF WorkerOK
  <2> QED BY <1>t, <2>1, <2>2, <2>3, QuietStep
<1>2. ASSUME NEW w \in Workers, NEW e \in Event, Deliver(w, e)
      PROVE  MoneyInv'
  <2>1. worker'[w] = [pc |-> "mark-read", op |-> "webhook", booking |-> e.booking,
                      event |-> e, mark |-> e.mark, seen |-> "none"]
        /\ \A v \in Workers : v # w => worker'[v] = worker[v]
    BY <1>2, <1>t DEF TypeOK, Deliver, Start
  <2>2. UNCHANGED <<booking, payment, intents, charged, refunds, emitted, late, overtaken, secret>>
    BY <1>2 DEF Deliver, database, stripe
  <2>3. EventOK(e)
    BY <1>2 DEF MoneyInv, Deliver
  <2>4. WorkerOK(w)'
    BY <2>1, <2>2, <2>3 DEF WorkerOK, EventOK
  <2> QED BY <1>t, <2>1, <2>2, <2>4, QuietStep
<1>3. ASSUME NEW w \in Workers, PayRead(w)
      PROVE  MoneyInv'
  <2>1. Its(w) \in BookingIds /\ worker[w].pc \notin {"idle", "decide"}
    BY <1>3, <1>t, JobType DEF PayRead, At
  <2>2. UNCHANGED <<booking, payment, intents, charged, refunds, emitted, late, overtaken>>
    BY <1>3 DEF PayRead, database, stripe
  <2>3. \A b \in BookingIds : secret'[b] => secret[b] \/ payment[b] # "none"
    BY <1>3, <1>t, <2>1 DEF PayRead, TypeOK
  <2>4. CASE Finish(w)
    BY <1>t, <2>2, <2>3, <2>4, FinishType, DoneIsOK, QuietStep DEF Idle
  <2>5. CASE See(w, "pay-intent")
    <3>1. worker'[w].pc = "pay-intent" /\ worker'[w].booking = worker[w].booking
          /\ \A v \in Workers : v # w => worker'[v] = worker[v]
      BY <1>t, <2>1, <2>5, SeeType DEF Pc
    <3>2. WorkerOK(w)'
      BY <1>3, <2>2, <3>1 DEF MoneyInv, WorkerOK, PayRead, At
    <3> QED BY <1>t, <2>2, <2>3, <3>1, <3>2, QuietStep
  <2> QED BY <1>3, <2>4, <2>5 DEF PayRead
<1>4. ASSUME NEW w \in Workers, PayIntent(w)
      PROVE  MoneyInv'
  <2>1. Its(w) \in BookingIds /\ worker[w].pc \notin {"idle", "decide"}
    BY <1>4, <1>t, JobType DEF PayIntent, At
  <2>2. worker'[w].pc = "pay-write" /\ worker'[w].booking = worker[w].booking
        /\ \A v \in Workers : v # w => worker'[v] = worker[v]
    BY <1>4, <1>t, <2>1, GotoType DEF PayIntent, Pc
  <2>3. UNCHANGED <<booking, payment, charged, refunds, emitted, late, overtaken, secret>>
    BY <1>4 DEF PayIntent, database
  <2>4. \A b \in BookingIds : intents'[b] = IF b = Its(w) THEN 1 ELSE intents[b]
    BY <1>4, <1>t, <2>1 DEF PayIntent, TypeOK, IntentsAfterCreate, MoneyInv, AccountOK
  <2>5. Grows
    BY <2>3, <2>4 DEF Grows
  <2>6. WorkerOK(w)'
    BY <1>4, <2>1, <2>2, <2>3, <2>4 DEF MoneyInv, WorkerOK, PayIntent, At, Its
  <2>7. ASSUME NEW b \in BookingIds PROVE AccountOK(b)' /\ StrandedOK(b)'
    <3>1. AccountOK(b)'
      BY <2>3, <2>4 DEF MoneyInv, AccountOK
    <3>2. StrandedOK(b)'
      BY <2>2, <2>3, PastKept DEF MoneyInv, StrandedOK
    <3> QED BY <3>1, <3>2
  <2> QED BY <1>t, <2>2, <2>3, <2>5, <2>6, <2>7, Frame
<1>5. ASSUME NEW w \in Workers, PayWrite(w)
      PROVE  MoneyInv'
  <2>1. Its(w) \in BookingIds /\ worker[w].pc \notin {"idle", "decide"}
    BY <1>5, <1>t, JobType DEF PayWrite, At
  <2>2. worker'[w] = Idle /\ \A v \in Workers : v # w => worker'[v] = worker[v]
    BY <1>5, <1>t, FinishType DEF PayWrite
  <2>3. UNCHANGED <<booking, intents, charged, refunds, emitted, late, overtaken>>
    BY <1>5 DEF PayWrite, stripe
  <2>4. \A b \in BookingIds : b # Its(w) => payment'[b] = payment[b] /\ secret'[b] = secret[b]
    BY <1>5, <1>t, <2>1 DEF PayWrite, TypeOK
  <2>5. payment'[Its(w)] \in {payment[Its(w)], "pending"} /\ payment'[Its(w)] # "none"
    BY <1>5, <1>t, <2>1 DEF PayWrite, TypeOK
  <2>6. Grows
    BY <2>3, <2>4, <2>5 DEF Grows
  <2>7. intents[Its(w)] = 1 /\ booking[Its(w)] # "pending"
    BY <1>5 DEF MoneyInv, WorkerOK, PayWrite, At, Its
  <2>8. ASSUME NEW b \in BookingIds PROVE AccountOK(b)' /\ StrandedOK(b)'
    <3>1. CASE b = Its(w)
      <4>1. AccountOK(b)'
        BY <3>1, <2>3, <2>5, <2>7 DEF MoneyInv, AccountOK
      <4>2. StrandedOK(b)'
        BY <3>1, <2>2, <2>3, <2>5, PastKept DEF MoneyInv, StrandedOK, Idle
      <4> QED BY <4>1, <4>2
    <3>2. CASE b # Its(w)
      <4>1. AccountOK(b)'
        BY <3>2, <2>3, <2>4 DEF MoneyInv, AccountOK
      <4>2. StrandedOK(b)'
        BY <3>2, <2>2, <2>3, <2>4, PastKept DEF MoneyInv, StrandedOK, Idle
      <4> QED BY <4>1, <4>2
    <3> QED BY <3>1, <3>2
  <2> QED BY <1>t, <2>2, <2>3, <2>6, <2>8, DoneIsOK, Frame
<1>6. ASSUME NEW w \in Workers, Retrieve(w)
      PROVE  MoneyInv'
  <2>1. worker[w].pc \notin {"idle", "decide"}
    BY <1>6 DEF Retrieve, At
  <2>2. UNCHANGED <<booking, payment, intents, charged, refunds, emitted, late, overtaken, secret>>
    BY <1>6 DEF Retrieve, database, stripe
  <2>3. CASE Finish(w)
    BY <1>t, <2>2, <2>3, FinishType, DoneIsOK, QuietStep DEF Idle
  <2>4. CASE charged[Its(w)] /\ Goto(w, "mark-read")
    <3>1. worker'[w].pc = "mark-read" /\ worker'[w].booking = worker[w].booking
          /\ worker'[w].mark = worker[w].mark
          /\ \A v \in Workers : v # w => worker'[v] = worker[v]
      BY <1>t, <2>1, <2>4, GotoType DEF Pc
    <3>2. worker[w].mark = "paid"
      BY <1>6 DEF MoneyInv, WorkerOK, Retrieve, At
    <3>3. WorkerOK(w)'
      BY <2>2, <2>4, <3>1, <3>2 DEF WorkerOK, Its
    <3> QED BY <1>t, <2>2, <3>1, <3>3, QuietStep
  <2> QED BY <1>6, <2>3, <2>4 DEF Retrieve
<1>7. ASSUME NEW w \in Workers, MarkRead(w)
      PROVE  MoneyInv'
  <2>1. /\ worker[w].pc = "mark-read" /\ Its(w) \in BookingIds /\ worker[w].mark \in Mark
        /\ worker[w].pc # "idle"
    BY <1>7, <1>t, JobType DEF MarkRead, At
  <2>2. UNCHANGED <<booking, payment, intents, charged, refunds, emitted, late, overtaken, secret>>
    BY <1>7 DEF MarkRead, database, stripe
  <2>3. CASE AfterMark(w)
    <3>1. worker'[w].pc \in {"record", "idle"} /\ \A v \in Workers : v # w => worker'[v] = worker[v]
      BY <1>t, <2>1, <2>3, GotoType, FinishType DEF AfterMark, Pc, Idle
    <3>2. WorkerOK(w)'
      BY <3>1 DEF WorkerOK
    <3> QED BY <1>t, <2>2, <3>1, <3>2, QuietStep
  <2>4. CASE payment[Its(w)] \notin Skips[worker[w].mark] /\ See(w, "mark-write")
    <3>1. /\ worker'[w].pc = "mark-write" /\ worker'[w].booking = worker[w].booking
          /\ worker'[w].mark = worker[w].mark
          /\ \A v \in Workers : v # w => worker'[v] = worker[v]
      BY <1>t, <2>1, <2>4, SeeType DEF Pc
    <3>2. payment[Its(w)] # "none"
      BY <2>1, <2>4 DEF Skips, Mark
    <3>3. WorkerOK(w)'
      BY <2>1, <2>2, <3>1, <3>2 DEF MoneyInv, WorkerOK, Its
    <3> QED BY <1>t, <2>2, <3>1, <3>3, QuietStep
  <2> QED BY <1>7, <2>3, <2>4 DEF MarkRead
<1>8. ASSUME NEW w \in Workers, MarkWrite(w)
      PROVE  MoneyInv'
  <2>1. /\ worker[w].pc = "mark-write" /\ Its(w) \in BookingIds /\ worker[w].mark \in Mark
        /\ worker[w].pc # "idle"
    BY <1>8, <1>t, JobType DEF MarkWrite, At
  <2>2. worker'[w].pc \in {"record", "idle"} /\ \A v \in Workers : v # w => worker'[v] = worker[v]
    BY <1>8, <1>t, <2>1, GotoType, FinishType DEF MarkWrite, AfterMark, Pc, Idle
  <2>3. UNCHANGED <<booking, intents, charged, refunds, emitted, overtaken, secret>>
    BY <1>8 DEF MarkWrite, stripe
  <2>4. /\ \A b \in BookingIds : b # Its(w) => payment'[b] = payment[b]
        /\ payment'[Its(w)] = worker[w].mark
    BY <1>8, <1>t, <2>1 DEF MarkWrite, TypeOK
  <2>5. /\ late \subseteq late'
        /\ worker[w].mark = "paid" /\ (booking[Its(w)] = "cancelled" \/ CancelPast(Its(w)))
             => Its(w) \in late'
    BY <1>8 DEF MarkWrite
  <2>6. /\ worker[w].mark = "paid" => charged[Its(w)]
        /\ worker[w].mark = "refunded" => refunds[Its(w)] = 1
        /\ payment[Its(w)] # "none"
    BY <2>1 DEF MoneyInv, WorkerOK, Its
  <2>7. Grows
    BY <2>1, <2>3, <2>4 DEF Grows, Mark
  <2>8. WorkerOK(w)'
    BY <2>2 DEF WorkerOK
  <2>9. ASSUME NEW b \in BookingIds PROVE AccountOK(b)' /\ StrandedOK(b)'
    <3>1. CASE b = Its(w)
      <4>1. AccountOK(b)'
        BY <3>1, <2>1, <2>3, <2>4, <2>6 DEF MoneyInv, AccountOK, Mark
      <4>2. StrandedOK(b)'
        BY <3>1, <2>2, <2>3, <2>4, <2>5, PastKept DEF StrandedOK
      <4> QED BY <4>1, <4>2
    <3>2. CASE b # Its(w)
      <4>1. AccountOK(b)'
        BY <3>2, <2>3, <2>4 DEF MoneyInv, AccountOK
      <4>2. StrandedOK(b)'
        BY <3>2, <2>2, <2>3, <2>4, <2>5, PastKept DEF MoneyInv, StrandedOK
      <4> QED BY <4>1, <4>2
    <3> QED BY <3>1, <3>2
  <2> QED BY <1>t, <2>2, <2>3, <2>7, <2>8, <2>9, Frame
<1>9. ASSUME NEW w \in Workers, Record(w) \/ Fail(w)
      PROVE  MoneyInv'
  <2>1. UNCHANGED <<booking, payment, intents, charged, refunds, emitted, late, overtaken, secret>>
    BY <1>9 DEF Record, Fail, database, stripe
  <2>2. worker'[w] = Idle /\ \A v \in Workers : v # w => worker'[v] = worker[v]
    BY <1>9, <1>t, FinishType DEF Record, Fail
  <2> QED BY <1>t, <2>1, <2>2, DoneIsOK, QuietStep DEF Idle
<1>10. ASSUME NEW w \in Workers, CancelBegin(w)
       PROVE  MoneyInv'
  <2>1. UNCHANGED <<booking, payment, intents, charged, refunds, emitted, late, overtaken, secret>>
    BY <1>10 DEF CancelBegin, database, stripe
  <2>2. worker'[w].pc = "refund-read" /\ \A v \in Workers : v # w => worker'[v] = worker[v]
    BY <1>10, <1>t, GotoType DEF CancelBegin, At, Pc
  <2>3. WorkerOK(w)'
    BY <2>2 DEF WorkerOK
  <2> QED BY <1>t, <2>1, <2>2, <2>3, QuietStep
<1>11. ASSUME NEW w \in Workers, RefundRead(w)
       PROVE  MoneyInv'
  <2>1. worker[w].pc \notin {"idle", "decide"} /\ Its(w) \in BookingIds
    BY <1>11, <1>t, JobType DEF RefundRead, At
  <2>2. UNCHANGED <<booking, payment, intents, charged, refunds, emitted, late, overtaken, secret>>
    BY <1>11 DEF RefundRead, database, stripe
  <2>3. CASE Finish(w)
    BY <1>t, <2>2, <2>3, FinishType, DoneIsOK, QuietStep DEF Idle
  <2>4. CASE payment[Its(w)] = "paid" /\ See(w, "refund-stripe")
    <3>1. /\ worker'[w].pc = "refund-stripe" /\ worker'[w].booking = worker[w].booking
          /\ worker'[w].seen = "paid"
          /\ \A v \in Workers : v # w => worker'[v] = worker[v]
      BY <1>t, <2>1, <2>4, SeeType DEF Pc
    <3>2. charged[Its(w)]
      BY <2>1, <2>4 DEF MoneyInv, AccountOK
    <3>3. WorkerOK(w)'
      BY <2>2, <3>1, <3>2 DEF WorkerOK, Its
    <3> QED BY <1>t, <2>2, <3>1, <3>3, QuietStep
  <2>5. CASE payment[Its(w)] # "paid" /\ See(w, "cancel-commit")
    <3>1. /\ worker'[w].pc = "cancel-commit" /\ worker'[w].booking = worker[w].booking
          /\ worker'[w].seen = payment[Its(w)]
          /\ \A v \in Workers : v # w => worker'[v] = worker[v]
      BY <1>t, <2>1, <2>5, SeeType DEF Pc
    <3>2. WorkerOK(w)'
      BY <2>5, <3>1 DEF WorkerOK
    <3> QED BY <1>t, <2>2, <2>5, <3>1, <3>2, QuietStep DEF Its
  <2> QED BY <1>11, <2>3, <2>4, <2>5 DEF RefundRead
<1>12. ASSUME NEW w \in Workers, RefundStripe(w)
       PROVE  MoneyInv'
  <2>1. worker[w].pc = "refund-stripe" /\ worker[w].pc # "idle" /\ Its(w) \in BookingIds
        /\ charged[Its(w)] /\ worker[w].seen = "paid"
    BY <1>12, <1>t, JobType DEF RefundStripe, At, MoneyInv, WorkerOK
  <2>2. /\ worker'[w].pc \in {"cancel-commit", "refund-write"}
        /\ worker'[w].booking = worker[w].booking /\ worker'[w].seen = "paid"
        /\ \A v \in Workers : v # w => worker'[v] = worker[v]
    BY <1>12, <1>t, <2>1, GotoType DEF RefundStripe, Pc
  <2>3. UNCHANGED <<booking, payment, intents, charged, emitted, late, overtaken, secret>>
    BY <1>12 DEF RefundStripe, database
  <2>4. \A b \in BookingIds : refunds'[b] = IF b = Its(w) THEN 1 ELSE refunds[b]
    BY <1>12, <1>t, <2>1 DEF RefundStripe, TypeOK, RefundsAfterCreate, MoneyInv, AccountOK
  <2>5. Grows
    BY <2>3, <2>4 DEF Grows
  <2>6. WorkerOK(w)'
    BY <2>1, <2>2, <2>4 DEF WorkerOK, Its
  <2>7. ASSUME NEW b \in BookingIds PROVE AccountOK(b)' /\ StrandedOK(b)'
    <3>1. AccountOK(b)'
      BY <2>1, <2>3, <2>4 DEF MoneyInv, AccountOK
    <3>2. StrandedOK(b)'
      BY <2>2, <2>3, <2>4, PastKept DEF MoneyInv, StrandedOK
    <3> QED BY <3>1, <3>2
  <2> QED BY <1>t, <2>2, <2>3, <2>5, <2>6, <2>7, Frame
<1>13. ASSUME NEW w \in Workers, RefundWrite(w)
       PROVE  MoneyInv'
  <2>1. worker[w].pc = "refund-write" /\ Its(w) \in BookingIds
    BY <1>13, <1>t, JobType DEF RefundWrite, At
  <2>2. worker'[w] = Idle /\ \A v \in Workers : v # w => worker'[v] = worker[v]
    BY <1>13, <1>t, FinishType DEF RefundWrite
  <2>3. UNCHANGED <<booking, intents, charged, refunds, emitted, late, overtaken, secret>>
    BY <1>13 DEF RefundWrite, stripe
  <2>4. \A b \in BookingIds : payment'[b] = IF b = Its(w) THEN "refunding" ELSE payment[b]
    BY <1>13, <1>t, <2>1 DEF RefundWrite, TypeOK
  <2>5. refunds[Its(w)] = 1
    BY <2>1 DEF MoneyInv, WorkerOK, Its
  <2>6. Grows
    BY <2>3, <2>4 DEF Grows
  <2>7. ASSUME NEW b \in BookingIds PROVE AccountOK(b)' /\ StrandedOK(b)'
    <3>1. AccountOK(b)'
      BY <2>3, <2>4, <2>5 DEF MoneyInv, AccountOK
    <3>2. StrandedOK(b)'
      BY <2>2, <2>3, <2>4, PastKept DEF MoneyInv, StrandedOK, Idle
    <3> QED BY <3>1, <3>2
  <2> QED BY <1>t, <2>2, <2>3, <2>6, <2>7, DoneIsOK, Frame
<1>14. ASSUME NEW w \in Workers, CancelCommit(w)
       PROVE  MoneyInv'
  <2>1. worker[w].pc = "cancel-commit" /\ Its(w) \in BookingIds
    BY <1>14, <1>t, JobType DEF CancelCommit, At
  <2>2. worker'[w] = Idle /\ \A v \in Workers : v # w => worker'[v] = worker[v]
    BY <1>14, <1>t, FinishType DEF CancelCommit
  <2>3. UNCHANGED <<intents, charged, refunds, emitted, late, overtaken, secret>>
    BY <1>14 DEF CancelCommit, stripe
  <2>4. /\ \A b \in BookingIds : booking'[b] = IF b = Its(w) THEN "cancelled" ELSE booking[b]
        /\ \A b \in BookingIds : payment'[b] = IF b = Its(w) /\ worker[w].seen = "paid"
                                                THEN "refunding" ELSE payment[b]
    BY <1>14, <1>t, <2>1 DEF CancelCommit, TypeOK
  <2>5. worker[w].seen = "paid" => refunds[Its(w)] = 1
    BY <2>1 DEF MoneyInv, WorkerOK, Its
  <2>6. worker[w].seen # "paid" => CancelPast(Its(w))
    BY <2>1 DEF CancelPast, At
  <2>7. Grows
    BY <2>3, <2>4 DEF Grows
  <2>8. ASSUME NEW b \in BookingIds PROVE AccountOK(b)' /\ StrandedOK(b)'
    <3>1. AccountOK(b)'
      BY <2>3, <2>4, <2>5 DEF MoneyInv, AccountOK
    <3>2. StrandedOK(b)'
      BY <2>2, <2>3, <2>4, <2>6, PastKept DEF MoneyInv, StrandedOK, Idle
    <3> QED BY <3>1, <3>2
  <2> QED BY <1>t, <2>2, <2>3, <2>7, <2>8, DoneIsOK, Frame
<1>15. ASSUME NEW w \in Workers, NEW b \in BookingIds, NEW op \in Decision,
              StartDecision(w, b, op)
       PROVE  MoneyInv'
  <2>1. worker'[w].pc = "decide" /\ \A v \in Workers : v # w => worker'[v] = worker[v]
    BY <1>15, <1>t DEF TypeOK, StartDecision, Start
  <2>2. UNCHANGED <<booking, payment, intents, charged, refunds, emitted, late, overtaken, secret>>
    BY <1>15 DEF StartDecision, database, stripe
  <2>3. WorkerOK(w)'
    BY <2>1 DEF WorkerOK
  <2> QED BY <1>t, <2>1, <2>2, <2>3, QuietStep
<1>19. ASSUME NEW w \in Workers, Decide(w)
       PROVE  MoneyInv'
  <2>1. Its(w) \in BookingIds /\ worker[w].op \in Decision
    BY <1>19, <1>t, JobType DEF Decide, At, Job
  <2>2. worker'[w] = Idle /\ \A v \in Workers : v # w => worker'[v] = worker[v]
    BY <1>19, <1>t, FinishType DEF Decide
  <2>3. UNCHANGED <<payment, intents, charged, refunds, emitted, late, secret>>
    BY <1>19 DEF Decide, stripe
  <2>4. /\ \A b \in BookingIds : b # Its(w) => booking'[b] = booking[b]
        /\ booking'[Its(w)] = Target[worker[w].op]
    BY <1>19, <1>t, <2>1 DEF Decide, TypeOK
  <2>5. /\ overtaken \subseteq overtaken'
        /\ worker[w].op = "decline" /\ booking[Its(w)] # "pending" => Its(w) \in overtaken'
    BY <1>19 DEF Decide
  <2>6. /\ booking'[Its(w)] \in {"confirmed", "cancelled", "completed"}
        /\ booking'[Its(w)] = "cancelled" => worker[w].op = "decline"
    BY <2>1, <2>4 DEF Decision, Target
  <2>7. Grows
    BY <2>3, <2>4, <2>6 DEF Grows
  <2>8. ASSUME NEW b \in BookingIds PROVE AccountOK(b)' /\ StrandedOK(b)'
    <3>1. AccountOK(b)'
      BY <2>3, <2>4, <2>6 DEF MoneyInv, AccountOK
    <3>2. StrandedOK(b)'
      <4>1. CASE b # Its(w)
        BY <2>2, <2>3, <2>4, <2>5, <4>1, PastKept DEF MoneyInv, StrandedOK, Idle
      <4>2. CASE b = Its(w)
        BY <2>2, <2>3, <2>5, <2>6, <4>2, PastKept
        DEF MoneyInv, AccountOK, StrandedOK, Idle
      <4> QED BY <4>1, <4>2
    <3> QED BY <3>1, <3>2
  <2> QED BY <1>t, <2>2, <2>3, <2>7, <2>8, DoneIsOK, Frame
<1>16. ASSUME NEW b \in BookingIds, CustomerPays(b)
       PROVE  MoneyInv'
  <2>1. UNCHANGED <<booking, payment, worker, intents, refunds, late, overtaken, secret>>
    BY <1>16 DEF CustomerPays, database
  <2>2. \A c \in BookingIds : charged'[c] = IF c = b THEN TRUE ELSE charged[c]
    BY <1>16, <1>t DEF CustomerPays, TypeOK
  <2>3. Grows
    BY <2>1, <2>2 DEF Grows
  <2>4. payment[b] # "none"
    BY <1>16 DEF CustomerPays, MoneyInv, AccountOK
  <2>5. \A e \in emitted' : e \in emitted \/ EventOK(e)'
    <3> DEFINE success == [mark |-> "paid", booking |-> b, n |-> 1]
    <3>1. \A e \in emitted' : e \in emitted \/ e = success
      BY <1>16 DEF CustomerPays
    <3>2. charged'[b] /\ payment'[b] # "none"
      BY <2>1, <2>2, <2>4
    <3>3. EventOK(success)'
      BY <3>2 DEF EventOK
    <3> HIDE DEF success
    <3> QED BY <3>1, <3>3
  <2>6. ASSUME NEW c \in BookingIds PROVE AccountOK(c)' /\ StrandedOK(c)'
    <3>1. CancelPast(c)' <=> CancelPast(c)
      BY <2>1 DEF CancelPast, At, Its
    <3> QED BY <2>1, <2>2, <2>4, <3>1 DEF MoneyInv, AccountOK, StrandedOK
  <2> QED BY <1>t, <2>1, <2>3, <2>5, <2>6, EnvironmentFrame
<1>17. ASSUME NEW b \in BookingIds, BankDeclines(b) \/ RefundSettles(b)
       PROVE  MoneyInv'
  <2>1. UNCHANGED <<booking, payment, worker, intents, charged, refunds, late, overtaken, secret>>
    BY <1>17 DEF BankDeclines, RefundSettles, database
  <2>2. Grows
    BY <2>1 DEF Grows
  <2>3. \A e \in emitted' : e \in emitted \/ EventOK(e)'
    <3>1. CASE BankDeclines(b)
      <4>1. payment[b] # "none"
        BY <3>1 DEF BankDeclines, MoneyInv, AccountOK
      <4> QED BY <2>1, <3>1, <4>1 DEF BankDeclines, EventOK
    <3>2. CASE RefundSettles(b)
      <4>1. payment[b] # "none" /\ refunds[b] = 1
        BY <3>2 DEF RefundSettles, MoneyInv, AccountOK
      <4> QED BY <2>1, <3>2, <4>1 DEF RefundSettles, EventOK
    <3> QED BY <1>17, <3>1, <3>2
  <2>4. ASSUME NEW c \in BookingIds PROVE AccountOK(c)' /\ StrandedOK(c)'
    BY <2>1 DEF MoneyInv, AccountOK, StrandedOK, CancelPast, At, Its
  <2> QED BY <1>t, <2>1, <2>2, <2>3, <2>4, EnvironmentFrame
<1>18. CASE UNCHANGED vars
  <2>1. UNCHANGED <<booking, payment, worker, intents, charged, refunds, emitted, late, overtaken, secret>>
    BY <1>18 DEF vars, database, stripe
  <2>2. \A c \in BookingIds : AccountOK(c)' /\ StrandedOK(c)'
    BY <2>1 DEF MoneyInv, AccountOK, StrandedOK, CancelPast, At, Its
  <2> QED BY <1>t, <2>1, <2>2, EnvironmentFrame DEF Grows
<1> QED
  BY <1>1, <1>2, <1>3, <1>4, <1>5, <1>6, <1>7, <1>8, <1>9, <1>10, <1>11, <1>12,
     <1>13, <1>14, <1>15, <1>16, <1>17, <1>18, <1>19
  DEF Next, Request, Continue, Environment

THEOREM MoneyCorrect == Spec => []MoneyInv
BY MoneyInit, MoneyNext, PTL DEF Spec

\* The database never claims money that Stripe did not move.
THEOREM BackedTheorem == Spec => []RowsAreBacked
<1>1. MoneyInv => RowsAreBacked
  BY DEF MoneyInv, AccountOK, RowsAreBacked
<1> QED BY <1>1, MoneyCorrect, PTL

\* An event never arrives before the Payment row it is about.
THEOREM EventsTheorem == Spec => []EventsFindTheirRow
<1>1. MoneyInv => EventsFindTheirRow
  BY DEF MoneyInv, EventOK, EventsFindTheirRow
<1> QED BY <1>1, MoneyCorrect, PTL

\* A cancel refunds every success that was recorded before it looked, and a
\* decline cancels a booking with a payment only if it was overtaken.
THEOREM StrandedTheorem == Spec => []StrandedNeedsRace
<1>1. MoneyInv => StrandedNeedsRace
  BY DEF MoneyInv, StrandedOK, StrandedNeedsRace
<1> QED BY <1>1, MoneyCorrect, PTL

-------------------------------------------------------------------------------
\* Each step opens an intent, charges it, refunds it, or leaves Stripe's
\* ledger as it is.
LEMMA LedgerStep ==
  MoneyInv /\ [Next]_vars => [Ledger!LedgerNext]_(Ledger!ledgerVars)
<1> SUFFICES ASSUME MoneyInv, [Next]_vars
             PROVE  [Ledger!LedgerNext]_(Ledger!ledgerVars)
  OBVIOUS
<1>t. TypeOK
  BY DEF MoneyInv
<1>1. ASSUME NEW w \in Workers, PayIntent(w)
      PROVE  [Ledger!LedgerNext]_(Ledger!ledgerVars)
  <2>1. Its(w) \in BookingIds
    BY <1>1, <1>t, JobType DEF PayIntent, At
  <2>2. intents[Its(w)] \in {0, 1}
    BY <2>1 DEF MoneyInv, AccountOK
  <2>3. CASE intents[Its(w)] = 0
    BY <1>1, <2>1, <2>3 DEF PayIntent, IntentsAfterCreate, Ledger!LedgerNext, Ledger!Open
  <2>4. CASE intents[Its(w)] = 1
    BY <1>1, <1>t, <2>1, <2>4 DEF PayIntent, IntentsAfterCreate, TypeOK, Ledger!ledgerVars
  <2> QED BY <2>2, <2>3, <2>4
<1>2. ASSUME NEW w \in Workers, RefundStripe(w)
      PROVE  [Ledger!LedgerNext]_(Ledger!ledgerVars)
  <2>1. Its(w) \in BookingIds /\ charged[Its(w)]
    BY <1>2, <1>t, JobType DEF RefundStripe, At
  <2>2. refunds[Its(w)] \in {0, 1}
    BY <2>1 DEF MoneyInv, AccountOK
  <2>3. CASE refunds[Its(w)] = 0
    BY <1>2, <2>1, <2>3 DEF RefundStripe, RefundsAfterCreate, Ledger!LedgerNext, Ledger!Refund
  <2>4. CASE refunds[Its(w)] = 1
    BY <1>2, <1>t, <2>1, <2>4 DEF RefundStripe, RefundsAfterCreate, TypeOK, Ledger!ledgerVars
  <2> QED BY <2>2, <2>3, <2>4
<1>3. ASSUME NEW b \in BookingIds, CustomerPays(b)
      PROVE  [Ledger!LedgerNext]_(Ledger!ledgerVars)
  <2>1. intents[b] = 1 /\ ~charged[b]
    BY <1>3 DEF CustomerPays, MoneyInv, AccountOK
  <2> QED BY <1>3, <2>1 DEF CustomerPays, Ledger!LedgerNext, Ledger!Charge
<1>4. CASE UNCHANGED <<intents, charged, refunds>>
  BY <1>4 DEF Ledger!ledgerVars
<1>5. ASSUME NEW w \in Workers, Request(w)
      PROVE  UNCHANGED <<intents, charged, refunds>>
  BY <1>5 DEF Request, StartPay, StartStatus, StartRefund, StartCancel, StartDecision,
              Deliver, stripe
<1>6. ASSUME NEW w \in Workers,
             \/ PayRead(w) \/ PayWrite(w) \/ Retrieve(w) \/ MarkRead(w) \/ MarkWrite(w)
             \/ Record(w) \/ CancelBegin(w) \/ RefundRead(w) \/ RefundWrite(w)
             \/ CancelCommit(w) \/ Decide(w) \/ Fail(w)
      PROVE  UNCHANGED <<intents, charged, refunds>>
  BY <1>6 DEF PayRead, PayWrite, Retrieve, MarkRead, MarkWrite, Record, CancelBegin,
              RefundRead, RefundWrite, CancelCommit, Decide, Fail, stripe
<1>7. ASSUME NEW b \in BookingIds, BankDeclines(b) \/ RefundSettles(b)
      PROVE  UNCHANGED <<intents, charged, refunds>>
  BY <1>7 DEF BankDeclines, RefundSettles, stripe
<1>8. CASE UNCHANGED vars
  BY <1>8, <1>4 DEF vars, stripe
<1> QED
  BY <1>1, <1>2, <1>3, <1>4, <1>5, <1>6, <1>7, <1>8 DEF Next, Continue, Environment

\* Whatever is retried, duplicated, reordered or lost on the way: one intent,
\* one charge and one refund per booking, in this order.
THEOREM LedgerRefinement == Spec => ImplementsLedger
<1>1. Init => Ledger!LedgerInit
  BY DEF Init, Ledger!LedgerInit
<1> QED BY <1>1, LedgerStep, MoneyCorrect, PTL DEF Spec, ImplementsLedger, Ledger!LedgerSpec

-------------------------------------------------------------------------------
(***************************************************************************)
(* A payment that no two requests cross and no declined attempt disturbs.  *)
(* What its request has read is then still so when it writes: the status   *)
(* only goes forward, and the renter is told once.  Both fail once two     *)
(* requests cross, and once a declined attempt is reported after the       *)
(* success, because markFailed has no guard against it.                    *)
(***************************************************************************)
Settled == {"paid", "refunding", "refunded"}

\* Two requests about one payment are remembered as crossed.
AloneOK(b) ==
  b \notin crossed => \A v, w \in Workers : Handles(v, b) /\ Handles(w, b) => v = w

NoticeOK(b) ==
  Undisturbed(b) => /\ payment[b] # "failed"
                    /\ told[b]["paid"] \in {0, 1}
                    /\ told[b]["paid"] = 1 => payment[b] \in Settled

\* What the job j has read of a payment is what the row holds now.
UpToDate(j, now) ==
  /\ j.pc \in {"retrieve", "mark-read", "mark-write"} => j.mark # "failed"
  /\ j.pc \in {"pay-intent", "pay-write"} => now = "none"
  /\ j.pc = "mark-write" => now \notin Skips[j.mark]
  /\ j.pc \in {"refund-stripe", "refund-write"} => now = "paid"
  /\ j.pc \in {"refund-stripe", "cancel-commit"} => j.seen = now

CurrentOK(w, b) == Handles(w, b) /\ Undisturbed(b) => UpToDate(worker[w], payment[b])

CalmInv ==
  /\ TypeOK
  /\ \A b \in BookingIds : AloneOK(b) /\ NoticeOK(b)
  /\ \A w \in Workers, b \in BookingIds : CurrentOK(w, b)

LEMMA CalmInit == Init => CalmInv
<1> SUFFICES ASSUME Init PROVE CalmInv
  OBVIOUS
<1>1. \A w \in Workers, b \in BookingIds : ~Handles(w, b)
  BY DEF Init, Handles
<1>2. \A b \in BookingIds : AloneOK(b)
  BY <1>1 DEF AloneOK
<1>3. \A b \in BookingIds : NoticeOK(b)
  BY DEF Init, NoticeOK, Mark
<1>4. \A w \in Workers, b \in BookingIds : CurrentOK(w, b)
  BY <1>1 DEF CurrentOK
<1> QED BY <1>2, <1>3, <1>4, TypeInit DEF CalmInv

\* What is disturbed stays so.
Settles ==
  /\ crossed \subseteq crossed' /\ emitted \subseteq emitted'
  /\ \A b \in BookingIds : Declined(b) \subseteq Declined(b)'

LEMMA SettlesIf ==
  ASSUME crossed \subseteq crossed', emitted \subseteq emitted'
  PROVE  Settles
BY DEF Settles, Declined

LEMMA CalmBefore ==
  ASSUME Settles, NEW b \in BookingIds, Undisturbed(b)'
  PROVE  Undisturbed(b)
BY DEF Settles, Undisturbed

\* The other workers: what they read of an undisturbed payment nobody but the
\* worker that handles it changes, and that is none of them.
LEMMA CalmFrame ==
  ASSUME CalmInv, TypeOK', Settles, NEW w \in Workers,
         \A v \in Workers : v # w => worker'[v] = worker[v],
         \A b \in BookingIds : Handles(w, b)' => Handles(w, b) \/ ~InFlight(b) \/ b \in crossed',
         \A b \in BookingIds : payment'[b] = payment[b] \/ Handles(w, b),
         \A b \in BookingIds : CurrentOK(w, b)' /\ NoticeOK(b)'
  PROVE  CalmInv'
<1>1. \A v \in Workers, b \in BookingIds : v # w => (Handles(v, b)' <=> Handles(v, b))
  BY DEF Handles, Its
<1>2. ASSUME NEW b \in BookingIds PROVE AloneOK(b)'
  <2> SUFFICES ASSUME b \notin crossed', NEW v \in Workers, NEW u \in Workers,
                      Handles(v, b)', Handles(u, b)'
               PROVE  v = u
    BY DEF AloneOK
  <2>1. b \notin crossed
    BY DEF Settles
  <2>2. \A x, y \in Workers : Handles(x, b) /\ Handles(y, b) => x = y
    BY <2>1 DEF CalmInv, AloneOK
  <2>3. \A x \in Workers : Handles(x, b)' /\ ~Handles(x, b) => x = w /\ ~InFlight(b)
    BY <1>1
  <2> QED BY <1>1, <2>2, <2>3 DEF InFlight
<1>3. ASSUME NEW v \in Workers, NEW b \in BookingIds PROVE CurrentOK(v, b)'
  <2>1. CASE v = w
    BY <2>1
  <2>2. CASE v # w
    <3> SUFFICES ASSUME Handles(v, b)', Undisturbed(b)'
                 PROVE  UpToDate(worker'[v], payment'[b])
      BY DEF CurrentOK, UpToDate
    <3>1. Handles(v, b) /\ Undisturbed(b) /\ worker'[v] = worker[v]
      BY <1>1, <2>2, CalmBefore
    <3>2. ~Handles(w, b)
      BY <2>2, <3>1 DEF CalmInv, AloneOK, Undisturbed
    <3>3. payment'[b] = payment[b]
      BY <3>2
    <3>4. UpToDate(worker[v], payment[b])
      BY <3>1 DEF CalmInv, CurrentOK
    <3> QED BY <3>1, <3>3, <3>4
  <2> QED BY <2>1, <2>2
<1> QED BY <1>2, <1>3 DEF CalmInv

\* A new request about b, if another is in flight, marks b as crossed.
LEMMA CalmStart ==
  ASSUME CalmInv, TypeOK', NEW w \in Workers, NEW pc \in Pc, NEW op \in Op,
         NEW b \in BookingIds, NEW e \in Event \cup {NoEvent}, NEW k \in Mark,
         Start(w, pc, op, b, e, k), UNCHANGED <<payment, told, emitted>>,
         pc \in {"pay-read", "refund-read", "cancel-begin", "decide"}
           \/ (pc \in {"retrieve", "mark-read"} /\ (Undisturbed(b) => k # "failed"))
  PROVE  CalmInv'
<1>t. TypeOK
  BY DEF CalmInv
<1>1. /\ worker'[w] = [pc |-> pc, op |-> op, booking |-> b, event |-> e,
                       mark |-> k, seen |-> "none"]
      /\ \A v \in Workers : v # w => worker'[v] = worker[v]
  BY <1>t DEF Start, TypeOK
<1>2. Settles
  BY SettlesIf DEF Start
<1>3. \A c \in BookingIds : Handles(w, c)' => c = b /\ op \notin Decision
  BY <1>1 DEF Handles, Its
<1>4. \A c \in BookingIds : Handles(w, c)' => Handles(w, c) \/ ~InFlight(c) \/ c \in crossed'
  BY <1>3 DEF Start
<1>5. ASSUME NEW c \in BookingIds PROVE CurrentOK(w, c)' /\ NoticeOK(c)'
  <2>1. NoticeOK(c)'
    <3>1. Undisturbed(c)' => Undisturbed(c)
      BY <1>2, CalmBefore
    <3> QED BY <3>1 DEF CalmInv, NoticeOK
  <2>2. CurrentOK(w, c)'
    <3> SUFFICES ASSUME Handles(w, c)', Undisturbed(c)'
                 PROVE  UpToDate(worker'[w], payment'[c])
      BY DEF CurrentOK, UpToDate
    <3>1. c = b /\ Undisturbed(c)
      BY <1>2, <1>3, CalmBefore
    <3> QED BY <1>1, <3>1 DEF UpToDate
  <2> QED BY <2>1, <2>2
<1> QED BY <1>1, <1>2, <1>4, <1>5, CalmFrame

\* A job goes on, or ends, and the rows, the notices and Stripe's events stay.
LEMMA CalmMove ==
  ASSUME CalmInv, TypeOK', NEW w \in Workers,
         \A v \in Workers : v # w => worker'[v] = worker[v],
         UNCHANGED <<payment, told, emitted, crossed>>,
         \/ worker'[w] = Idle
         \/ /\ worker[w] # Idle
            /\ worker'[w].op = worker[w].op /\ worker'[w].booking = worker[w].booking
            /\ Handles(w, Its(w)) /\ Undisturbed(Its(w))
                 => UpToDate(worker'[w], payment[Its(w)])
  PROVE  CalmInv'
<1>1. Settles
  BY SettlesIf
<1>2. \A c \in BookingIds : Handles(w, c)' =>
         Handles(w, c) /\ Its(w) = c /\ (Undisturbed(c) => UpToDate(worker'[w], payment[c]))
  BY DEF Handles, Its
<1>3. ASSUME NEW c \in BookingIds PROVE CurrentOK(w, c)' /\ NoticeOK(c)'
  <2>1. Undisturbed(c)' => Undisturbed(c)
    BY <1>1, CalmBefore
  <2>2. NoticeOK(c)'
    BY <2>1 DEF CalmInv, NoticeOK
  <2>3. CurrentOK(w, c)'
    BY <1>2, <2>1 DEF CurrentOK, UpToDate
  <2> QED BY <2>2, <2>3
<1> QED BY <1>1, <1>2, <1>3, CalmFrame

\* The row of the worker's booking is written, and the job ends or records.
LEMMA CalmWrite ==
  ASSUME CalmInv, TypeOK', NEW w \in Workers, worker[w] # Idle, worker[w].op \notin Decision,
         \A v \in Workers : v # w => worker'[v] = worker[v],
         UNCHANGED <<emitted, crossed>>,
         \/ worker'[w] = Idle
         \/ /\ worker'[w].pc = "record"
            /\ worker'[w].op = worker[w].op /\ worker'[w].booking = worker[w].booking,
         NEW b \in BookingIds, Its(w) = b, NoticeOK(b)',
         \A c \in BookingIds : c # b => payment'[c] = payment[c] /\ told'[c] = told[c]
  PROVE  CalmInv'
<1>1. Settles
  BY SettlesIf
<1>2. \A c \in BookingIds : Handles(w, c)' => Handles(w, c)
  BY DEF Handles, Its
<1>3. \A c \in BookingIds : payment'[c] = payment[c] \/ Handles(w, c)
  BY DEF Handles
<1>4. ASSUME NEW c \in BookingIds PROVE CurrentOK(w, c)' /\ NoticeOK(c)'
  <2>1. CurrentOK(w, c)'
    BY DEF CurrentOK, UpToDate, Handles
  <2>2. NoticeOK(c)'
    <3>1. Undisturbed(c)' => Undisturbed(c)
      BY <1>1, CalmBefore
    <3>2. CASE c # b
      BY <3>1, <3>2 DEF CalmInv, NoticeOK
    <3> QED BY <3>2
  <2> QED BY <2>1, <2>2
<1> QED BY <1>1, <1>2, <1>3, <1>4, CalmFrame
LEMMA CalmNext ==
  ASSUME CalmInv, [Next]_vars
  PROVE  CalmInv'
<1>t. TypeOK /\ TypeOK'
  BY TypeNext DEF CalmInv
<1>c. \A w \in Workers, b \in BookingIds : CurrentOK(w, b)
  BY DEF CalmInv
<1> USE DEF At, history
<1>1. ASSUME NEW w \in Workers, NEW b \in BookingIds,
             StartPay(w, b) \/ StartStatus(w, b) \/ StartRefund(w, b) \/ StartCancel(w, b)
      PROVE  CalmInv'
  <2>1. UNCHANGED <<payment, told, emitted>>
    BY <1>1 DEF StartPay, StartStatus, StartRefund, StartCancel, database, stripe
  <2>2. {"pay", "status", "refund", "cancel"} \subseteq Op /\ "paid" \in Mark /\ "paid" # "failed"
    BY DEF Op, Mark
  <2>3. {"pay-read", "retrieve", "refund-read", "cancel-begin"} \subseteq Pc
    BY DEF Pc
  <2>4. CASE StartPay(w, b)
    BY <1>t, <2>1, <2>2, <2>3, <2>4, CalmStart DEF StartPay
  <2>5. CASE StartStatus(w, b)
    BY <1>t, <2>1, <2>2, <2>3, <2>5, CalmStart DEF StartStatus
  <2>6. CASE StartRefund(w, b)
    BY <1>t, <2>1, <2>2, <2>3, <2>6, CalmStart DEF StartRefund
  <2>7. CASE StartCancel(w, b)
    BY <1>t, <2>1, <2>2, <2>3, <2>7, CalmStart DEF StartCancel
  <2> QED BY <1>1, <2>4, <2>5, <2>6, <2>7
<1>2. ASSUME NEW w \in Workers, NEW e \in Event, Deliver(w, e)
      PROVE  CalmInv'
  <2>1. UNCHANGED <<payment, told, emitted>>
    BY <1>2 DEF Deliver, database, stripe
  <2>2. "webhook" \in Op /\ "mark-read" \in Pc /\ e.mark \in Mark /\ e.booking \in BookingIds
    BY DEF Op, Pc, Event
  <2>3. Undisturbed(e.booking) => e.mark # "failed"
    BY <1>2 DEF Deliver, Undisturbed, Declined
  <2> QED BY <1>2, <1>t, <2>1, <2>2, <2>3, CalmStart DEF Deliver
<1>3. ASSUME NEW w \in Workers, NEW b \in BookingIds, NEW op \in Decision,
             StartDecision(w, b, op)
      PROVE  CalmInv'
  <2>1. UNCHANGED <<payment, told, emitted>>
    BY <1>3 DEF StartDecision, database, stripe
  <2>2. op \in Op /\ "decide" \in Pc /\ "paid" \in Mark
    BY DEF Op, Pc, Mark
  <2> QED BY <1>3, <1>t, <2>1, <2>2, CalmStart DEF StartDecision
<1>4. ASSUME NEW w \in Workers, PayRead(w)
      PROVE  CalmInv'
  <2>1. worker[w].pc \notin {"idle", "decide"} /\ worker[w] # Idle /\ Its(w) \in BookingIds
    BY <1>4, <1>t, JobType DEF PayRead, Idle
  <2>2. UNCHANGED <<payment, told, emitted, crossed>>
    BY <1>4 DEF PayRead, database, stripe
  <2>3. CASE Finish(w)
    BY <1>t, <2>2, <2>3, FinishType, CalmMove
  <2>4. CASE payment[Its(w)] \in {"none", "failed"} /\ See(w, "pay-intent")
    <3>1. /\ worker'[w].pc = "pay-intent" /\ worker'[w].op = worker[w].op
          /\ worker'[w].booking = worker[w].booking
          /\ \A v \in Workers : v # w => worker'[v] = worker[v]
      BY <1>t, <2>1, <2>4, SeeType DEF Pc
    <3>2. Undisturbed(Its(w)) => payment[Its(w)] = "none"
      BY <2>1, <2>4 DEF CalmInv, NoticeOK
    <3> QED BY <1>t, <2>1, <2>2, <3>1, <3>2, CalmMove DEF UpToDate
  <2> QED BY <1>4, <2>3, <2>4 DEF PayRead
<1>5. ASSUME NEW w \in Workers, PayIntent(w)
      PROVE  CalmInv'
  <2>1. /\ worker[w].pc \notin {"idle", "decide"} /\ worker[w] # Idle
        /\ worker[w].pc = "pay-intent" /\ Its(w) \in BookingIds
    BY <1>5, <1>t, JobType DEF PayIntent, Idle
  <2>2. UNCHANGED <<payment, told, emitted, crossed>>
    BY <1>5 DEF PayIntent, database
  <2>3. /\ worker'[w].pc = "pay-write" /\ worker'[w].op = worker[w].op
        /\ worker'[w].booking = worker[w].booking
        /\ \A v \in Workers : v # w => worker'[v] = worker[v]
    BY <1>5, <1>t, <2>1, GotoType DEF PayIntent, Pc
  <2>4. Handles(w, Its(w)) /\ Undisturbed(Its(w)) => payment[Its(w)] = "none"
    BY <1>c, <2>1 DEF CurrentOK, UpToDate
  <2> QED BY <1>t, <2>1, <2>2, <2>3, <2>4, CalmMove DEF UpToDate
<1>6. ASSUME NEW w \in Workers, PayWrite(w)
      PROVE  CalmInv'
  <2>1. /\ worker[w].pc = "pay-write" /\ Its(w) \in BookingIds
        /\ worker[w] # Idle /\ worker[w].op \notin Decision
    BY <1>6, <1>t, JobType DEF PayWrite, Job, Idle
  <2>2. /\ worker'[w] = Idle /\ emitted' = emitted /\ told' = told /\ crossed' = crossed
        /\ \A v \in Workers : v # w => worker'[v] = worker[v]
    BY <1>6, <1>t, FinishType DEF PayWrite, stripe
  <2>3. Undisturbed(Its(w)) => payment[Its(w)] = "none"
    BY <1>c, <2>1 DEF CurrentOK, UpToDate, Handles
  <2>4. \A c \in BookingIds :
          payment'[c] = payment[c] \/ (c = Its(w) /\ payment'[c] = "pending")
    BY <1>6, <1>t DEF PayWrite, TypeOK
  <2>5. PICK b \in BookingIds : b = Its(w)
    BY <2>1
  <2>6. NoticeOK(b)'
    BY <2>2, <2>3, <2>4, <2>5 DEF CalmInv, NoticeOK, Undisturbed, Declined, Settled
  <2> QED BY <1>t, <2>1, <2>2, <2>4, <2>5, <2>6, CalmWrite
<1>7. ASSUME NEW w \in Workers, Retrieve(w)
      PROVE  CalmInv'
  <2>1. /\ worker[w].pc \notin {"idle", "decide"} /\ worker[w] # Idle
        /\ worker[w].pc = "retrieve" /\ Its(w) \in BookingIds
    BY <1>7, <1>t, JobType DEF Retrieve, Idle
  <2>2. UNCHANGED <<payment, told, emitted, crossed>>
    BY <1>7 DEF Retrieve, database, stripe
  <2>3. CASE Finish(w)
    BY <1>t, <2>2, <2>3, FinishType, CalmMove
  <2>4. CASE Goto(w, "mark-read")
    <3>1. /\ worker'[w].pc = "mark-read" /\ worker'[w].op = worker[w].op
          /\ worker'[w].booking = worker[w].booking /\ worker'[w].mark = worker[w].mark
          /\ \A v \in Workers : v # w => worker'[v] = worker[v]
      BY <1>t, <2>1, <2>4, GotoType DEF Pc
    <3>2. Handles(w, Its(w)) /\ Undisturbed(Its(w)) => worker[w].mark # "failed"
      BY <1>c, <2>1 DEF CurrentOK, UpToDate
    <3> QED BY <1>t, <2>1, <2>2, <3>1, <3>2, CalmMove DEF UpToDate
  <2> QED BY <1>7, <2>3, <2>4 DEF Retrieve
<1>8. ASSUME NEW w \in Workers, MarkRead(w)
      PROVE  CalmInv'
  <2>1. /\ worker[w].pc \notin {"idle", "decide"} /\ worker[w] # Idle
        /\ worker[w].pc = "mark-read" /\ Its(w) \in BookingIds
    BY <1>8, <1>t, JobType DEF MarkRead, Idle
  <2>2. UNCHANGED <<payment, told, emitted, crossed>>
    BY <1>8 DEF MarkRead, database, stripe
  <2>3. CASE Finish(w)
    BY <1>t, <2>2, <2>3, FinishType, CalmMove
  <2>4. CASE worker[w].op = "webhook" /\ Goto(w, "record")
    <3>1. /\ worker'[w].pc = "record" /\ worker'[w].op = worker[w].op
          /\ worker'[w].booking = worker[w].booking
          /\ \A v \in Workers : v # w => worker'[v] = worker[v]
      BY <1>t, <2>1, <2>4, GotoType DEF Pc
    <3> QED BY <1>t, <2>1, <2>2, <3>1, CalmMove DEF UpToDate
  <2>5. CASE payment[Its(w)] \notin Skips[worker[w].mark] /\ See(w, "mark-write")
    <3>1. /\ worker'[w].pc = "mark-write" /\ worker'[w].op = worker[w].op
          /\ worker'[w].booking = worker[w].booking /\ worker'[w].mark = worker[w].mark
          /\ \A v \in Workers : v # w => worker'[v] = worker[v]
      BY <1>t, <2>1, <2>5, SeeType DEF Pc
    <3>2. Handles(w, Its(w)) /\ Undisturbed(Its(w)) => worker[w].mark # "failed"
      BY <1>c, <2>1 DEF CurrentOK, UpToDate
    <3> QED BY <1>t, <2>1, <2>2, <2>5, <3>1, <3>2, CalmMove DEF UpToDate
  <2> QED BY <1>8, <2>3, <2>4, <2>5 DEF MarkRead, AfterMark
<1>9. ASSUME NEW w \in Workers, MarkWrite(w)
      PROVE  CalmInv'
  <2>1. /\ worker[w].pc = "mark-write" /\ worker[w].pc \notin {"idle", "decide"}
        /\ worker[w] # Idle /\ Its(w) \in BookingIds /\ worker[w].op \notin Decision
        /\ worker[w].mark \in Mark
    BY <1>9, <1>t, JobType DEF MarkWrite, Job, Idle
  <2>2. /\ emitted' = emitted /\ crossed' = crossed
        /\ \A v \in Workers : v # w => worker'[v] = worker[v]
        /\ \/ worker'[w] = Idle
           \/ /\ worker'[w].pc = "record"
              /\ worker'[w].op = worker[w].op /\ worker'[w].booking = worker[w].booking
    BY <1>9, <1>t, <2>1, GotoType, FinishType DEF MarkWrite, AfterMark, Pc, stripe
  <2>3. PICK b \in BookingIds : b = Its(w)
    BY <2>1
  <2>4. Undisturbed(b) => payment[b] \notin Skips[worker[w].mark] /\ worker[w].mark # "failed"
    BY <1>c, <2>1, <2>3 DEF CurrentOK, UpToDate, Handles
  <2>5. /\ \A c \in BookingIds : c # b => payment'[c] = payment[c] /\ told'[c] = told[c]
        /\ payment'[b] = worker[w].mark
        /\ worker[w].mark = "paid" => told'[b]["paid"] = told[b]["paid"] + 1
        /\ worker[w].mark = "refunded" => told'[b]["paid"] = told[b]["paid"]
    BY <1>9, <1>t, <2>1, <2>3 DEF MarkWrite, TypeOK, Mark
  <2>6. NoticeOK(b)'
    <3> SUFFICES ASSUME Undisturbed(b)' PROVE NoticeOK(b)'
      BY DEF NoticeOK
    <3>1. Undisturbed(b) /\ NoticeOK(b)
      BY <2>2, CalmBefore, SettlesIf DEF CalmInv
    <3>2. CASE worker[w].mark = "paid"
      <4>1. payment[b] \notin Settled
        BY <2>4, <3>1, <3>2 DEF Skips, Settled
      <4> QED BY <2>5, <3>1, <3>2, <4>1 DEF NoticeOK, Settled
    <3>3. CASE worker[w].mark = "refunded"
      BY <2>5, <3>1, <3>3 DEF NoticeOK, Settled
    <3> QED BY <2>1, <2>4, <3>1, <3>2, <3>3 DEF Mark
  <2> QED BY <1>t, <2>1, <2>2, <2>3, <2>5, <2>6, CalmWrite
<1>10. ASSUME NEW w \in Workers, Record(w) \/ Fail(w) \/ Decide(w)
       PROVE  CalmInv'
  <2>1. UNCHANGED <<payment, told, emitted, crossed>>
    BY <1>10 DEF Record, Fail, Decide, database, stripe
  <2>2. worker'[w] = Idle /\ \A v \in Workers : v # w => worker'[v] = worker[v]
    BY <1>10, <1>t, FinishType DEF Record, Fail, Decide
  <2> QED BY <1>t, <2>1, <2>2, CalmMove
<1>11. ASSUME NEW w \in Workers, CancelBegin(w)
       PROVE  CalmInv'
  <2>1. worker[w].pc \notin {"idle", "decide"} /\ worker[w] # Idle
    BY <1>11 DEF CancelBegin, Idle
  <2>2. UNCHANGED <<payment, told, emitted, crossed>>
    BY <1>11 DEF CancelBegin, database, stripe
  <2>3. /\ worker'[w].pc = "refund-read" /\ worker'[w].op = worker[w].op
        /\ worker'[w].booking = worker[w].booking
        /\ \A v \in Workers : v # w => worker'[v] = worker[v]
    BY <1>11, <1>t, <2>1, GotoType DEF CancelBegin, Pc
  <2> QED BY <1>t, <2>1, <2>2, <2>3, CalmMove DEF UpToDate
<1>12. ASSUME NEW w \in Workers, RefundRead(w)
       PROVE  CalmInv'
  <2>1. worker[w].pc \notin {"idle", "decide"} /\ worker[w] # Idle /\ Its(w) \in BookingIds
    BY <1>12, <1>t, JobType DEF RefundRead, Idle
  <2>2. UNCHANGED <<payment, told, emitted, crossed>>
    BY <1>12 DEF RefundRead, database, stripe
  <2>3. CASE Finish(w)
    BY <1>t, <2>2, <2>3, FinishType, CalmMove
  <2>4. ASSUME NEW pc \in {"refund-stripe", "cancel-commit"}, See(w, pc),
               pc = "refund-stripe" => payment[Its(w)] = "paid"
        PROVE  CalmInv'
    <3>1. /\ worker'[w].pc = pc /\ worker'[w].op = worker[w].op
          /\ worker'[w].booking = worker[w].booking /\ worker'[w].seen = payment[Its(w)]
          /\ \A v \in Workers : v # w => worker'[v] = worker[v]
      BY <1>t, <2>1, <2>4, SeeType DEF Pc
    <3> QED BY <1>t, <2>1, <2>2, <2>4, <3>1, CalmMove DEF UpToDate
  <2> QED BY <1>12, <2>3, <2>4 DEF RefundRead
<1>13. ASSUME NEW w \in Workers, RefundStripe(w)
       PROVE  CalmInv'
  <2>1. /\ worker[w].pc \notin {"idle", "decide"} /\ worker[w] # Idle
        /\ worker[w].pc = "refund-stripe" /\ Its(w) \in BookingIds
    BY <1>13, <1>t, JobType DEF RefundStripe, Idle
  <2>2. UNCHANGED <<payment, told, emitted, crossed>>
    BY <1>13 DEF RefundStripe, database
  <2>3. /\ worker'[w].pc \in {"cancel-commit", "refund-write"} /\ worker'[w].op = worker[w].op
        /\ worker'[w].booking = worker[w].booking /\ worker'[w].seen = worker[w].seen
        /\ \A v \in Workers : v # w => worker'[v] = worker[v]
    BY <1>13, <1>t, <2>1, GotoType DEF RefundStripe, Pc
  <2>4. Handles(w, Its(w)) /\ Undisturbed(Its(w))
          => payment[Its(w)] = "paid" /\ worker[w].seen = payment[Its(w)]
    BY <1>c, <2>1 DEF CurrentOK, UpToDate
  <2> QED BY <1>t, <2>1, <2>2, <2>3, <2>4, CalmMove DEF UpToDate
<1>14. ASSUME NEW w \in Workers, RefundWrite(w) \/ CancelCommit(w)
       PROVE  CalmInv'
  <2>1. /\ worker[w].pc \in {"refund-write", "cancel-commit"} /\ Its(w) \in BookingIds
        /\ worker[w] # Idle /\ worker[w].op \notin Decision
    BY <1>14, <1>t, JobType DEF RefundWrite, CancelCommit, Job, Idle
  <2>2. /\ worker'[w] = Idle /\ emitted' = emitted /\ told' = told /\ crossed' = crossed
        /\ \A v \in Workers : v # w => worker'[v] = worker[v]
    BY <1>14, <1>t, FinishType DEF RefundWrite, CancelCommit, stripe
  <2>3. \A c \in BookingIds :
          payment'[c] = payment[c] \/ (c = Its(w) /\ payment'[c] = "refunding")
    BY <1>14, <1>t, <2>1 DEF RefundWrite, CancelCommit, TypeOK
  <2>4. PICK b \in BookingIds : b = Its(w)
    BY <2>1
  <2>5. NoticeOK(b)'
    BY <2>2, <2>3, <2>4 DEF CalmInv, NoticeOK, Undisturbed, Declined, Settled
  <2> QED BY <1>t, <2>1, <2>2, <2>3, <2>4, <2>5, CalmWrite
<1>15. ASSUME UNCHANGED <<payment, told, worker, crossed>>, emitted \subseteq emitted'
       PROVE  CalmInv'
  <2>1. Settles
    BY <1>15, SettlesIf
  <2>2. ASSUME NEW b \in BookingIds PROVE AloneOK(b)' /\ NoticeOK(b)'
    BY <1>15, <2>1, CalmBefore DEF CalmInv, AloneOK, NoticeOK, Handles, Its
  <2>3. ASSUME NEW w \in Workers, NEW b \in BookingIds PROVE CurrentOK(w, b)'
    BY <1>15, <1>c, <2>1, CalmBefore DEF CurrentOK, UpToDate, Handles, Its
  <2> QED BY <1>t, <2>2, <2>3 DEF CalmInv
<1>16. ASSUME NEW b \in BookingIds, Environment(b)
       PROVE  CalmInv'
  BY <1>15, <1>16 DEF Environment, CustomerPays, BankDeclines, RefundSettles, database
<1>17. CASE UNCHANGED vars
  BY <1>15, <1>17 DEF vars, database, stripe
<1> QED
  BY <1>1, <1>2, <1>3, <1>4, <1>5, <1>6, <1>7, <1>8, <1>9, <1>10, <1>11, <1>12,
     <1>13, <1>14, <1>16, <1>17
  DEF Next, Request, Continue

\* Of a payment that no two requests cross and no declined attempt disturbs,
\* what the request in progress has read is up to date.
THEOREM CalmCorrect == Spec => []CalmInv
<1>1. CalmInv /\ [Next]_vars => CalmInv'
  BY CalmNext
<1> QED BY <1>1, CalmInit, PTL DEF Spec

\* Repeated deliveries and status requests do not tell the renter of a payment
\* twice, however many requests fail half-way, unless two requests cross.
THEOREM PaidNoticeTheorem == Spec => []PaidNoticeOnce
<1>1. CalmInv => PaidNoticeOnce
  BY DEF CalmInv, NoticeOK, PaidNoticeOnce
<1> QED BY <1>1, CalmCorrect, PTL

\* Only the jobs that write the row can take an undisturbed payment back, and
\* what they have read is up to date.
LEMMA CalmRank ==
  ASSUME CalmInv, [Next]_vars
  PROVE  \A b \in BookingIds : Undisturbed(b) => ~GoesBack(b)
<1> SUFFICES ASSUME NEW b \in BookingIds, Undisturbed(b) PROVE ~GoesBack(b)
  OBVIOUS
<1>t. TypeOK
  BY DEF CalmInv
<1>p. payment[b] \in PaymentStatus
  BY <1>t DEF TypeOK
<1>u. ASSUME payment'[b] = payment[b] PROVE ~GoesBack(b)
  <2>1. Rank[payment[b]] \in Int
    BY <1>p DEF Rank, PaymentStatus
  <2> QED BY <1>u, <2>1 DEF GoesBack
<1>h. ASSUME NEW w \in Workers, worker[w].pc \notin {"idle", "decide"}, Its(w) = b
      PROVE  UpToDate(worker[w], payment[b])
  BY <1>h, <1>t, JobType DEF CalmInv, CurrentOK, Handles, Job, Idle
<1> USE DEF At
<1>1. ASSUME NEW w \in Workers, PayWrite(w) PROVE ~GoesBack(b)
  <2>1. CASE Its(w) = b
    <3>1. payment[b] = "none"
      BY <1>1, <1>h, <2>1 DEF PayWrite, UpToDate
    <3>2. payment'[b] \in {payment[b], "pending"}
      BY <1>1, <1>t DEF PayWrite, TypeOK
    <3> QED BY <3>1, <3>2 DEF GoesBack, Rank
  <2>2. CASE Its(w) # b
    BY <1>1, <1>t, <1>u, <2>2 DEF PayWrite, TypeOK
  <2> QED BY <2>1, <2>2
<1>2. ASSUME NEW w \in Workers, MarkWrite(w) PROVE ~GoesBack(b)
  <2>1. CASE Its(w) = b
    <3>1. worker[w].mark \in {"paid", "refunded"} /\ payment[b] \notin Skips[worker[w].mark]
      BY <1>2, <1>t, <1>h, <2>1, JobType DEF MarkWrite, UpToDate, Mark
    <3>2. payment'[b] = worker[w].mark
      BY <1>2, <1>t, <2>1 DEF MarkWrite, TypeOK
    <3> QED BY <1>p, <3>1, <3>2 DEF GoesBack, Skips, Rank, PaymentStatus
  <2>2. CASE Its(w) # b
    BY <1>2, <1>t, <1>u, <2>2 DEF MarkWrite, TypeOK
  <2> QED BY <2>1, <2>2
<1>3. ASSUME NEW w \in Workers, RefundWrite(w) \/ CancelCommit(w) PROVE ~GoesBack(b)
  <2>1. CASE Its(w) = b
    <3>1. worker[w].pc = "refund-write" \/ worker[w].seen = "paid" => payment[b] = "paid"
      BY <1>3, <1>h, <2>1 DEF RefundWrite, CancelCommit, UpToDate
    <3>2. payment'[b] = payment[b] \/ (payment[b] = "paid" /\ payment'[b] = "refunding")
      BY <1>3, <1>t, <3>1 DEF RefundWrite, CancelCommit, TypeOK
    <3> QED BY <1>u, <3>2 DEF GoesBack, Rank
  <2>2. CASE Its(w) # b
    BY <1>3, <1>t, <1>u, <2>2 DEF RefundWrite, CancelCommit, TypeOK
  <2> QED BY <2>1, <2>2
<1>4. CASE UNCHANGED payment
  BY <1>4, <1>u
<1>5. ASSUME NEW w \in Workers, Request(w)
      PROVE  UNCHANGED payment
  BY <1>5 DEF Request, StartPay, StartStatus, StartRefund, StartCancel, StartDecision,
              Deliver, database
<1>6. ASSUME NEW w \in Workers,
             \/ PayRead(w) \/ PayIntent(w) \/ Retrieve(w) \/ MarkRead(w) \/ Record(w)
             \/ CancelBegin(w) \/ RefundRead(w) \/ RefundStripe(w) \/ Decide(w) \/ Fail(w)
      PROVE  UNCHANGED payment
  BY <1>6 DEF PayRead, PayIntent, Retrieve, MarkRead, Record, CancelBegin, RefundRead,
              RefundStripe, Decide, Fail, database
<1>7. ASSUME NEW c \in BookingIds, Environment(c)
      PROVE  UNCHANGED payment
  BY <1>7 DEF Environment, CustomerPays, BankDeclines, RefundSettles, database
<1>8. CASE UNCHANGED vars
  BY <1>8, <1>4 DEF vars, database
<1> QED
  BY <1>1, <1>2, <1>3, <1>4, <1>5, <1>6, <1>7, <1>8 DEF Next, Continue

\* A payment that no two requests cross and no declined attempt disturbs never
\* goes back: not from paid to pending, nor from refunded to refunding or paid,
\* whatever is retried, repeated or fails half-way.
THEOREM RegressTheorem == Spec => RegressNeedsRace
<1>1. CalmInv /\ [Next]_vars
        => [\A b \in BookingIds : Undisturbed(b) => ~GoesBack(b)]_vars
  BY CalmRank
<1> QED BY <1>1, CalmCorrect, PTL DEF Spec, RegressNeedsRace
===============================================================================
