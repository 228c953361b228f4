------------------------------- MODULE Payments -------------------------------
(***************************************************************************)
(* The payment component (payments.service.ts), the Stripe webhook handler *)
(* (stripe-webhook.service.ts), the decisions about a booking, of which    *)
(* the cancellation refunds (bookings.service.ts), and Stripe as the code  *)
(* uses it.                                                                *)
(*                                                                         *)
(* A worker is one HTTP request being served.  Its reads, its calls to     *)
(* Stripe and its commits are steps of their own; a status that was read   *)
(* ("seen") is used later and may be stale by then.  A worker may fail     *)
(* between any two steps: its transaction is rolled back, what it did at   *)
(* Stripe stays.  Stripe delivers an event any number of times, in any     *)
(* order, until one delivery is answered with success.                     *)
(*                                                                         *)
(* The provider reference of a Payment row is its intent, which the        *)
(* idempotency key makes unique per booking: the two are not told apart.   *)
(* Idempotency keys never expire.  The decisions check the clock as well   *)
(* as the status; the clock is left out, so that here they may come at any *)
(* time.                                                                   *)
(***************************************************************************)
EXTENDS Integers, FiniteSets

CONSTANTS BookingIds,
          Workers,      \* requests that can be in flight at the same time
          MaxDeclines,  \* payment attempts the bank declines, per booking
          MaxFailures   \* bound on the requests that fail half-way

ASSUME BoundsAssumption == MaxDeclines \in Nat /\ MaxFailures \in Nat

VARIABLES booking,    \* status of the Booking rows
          rowLock,    \* bookings whose row a cancel has updated, uncommitted
          payment,    \* status of the Payment rows
          processed,  \* the StripeWebhookEvent table
          told,       \* how many payment notifications of each type were sent
          worker,     \* what every worker is doing
          intents, charged, refunds,  \* Stripe: see PaymentLedger
          secret,     \* whether the client has the intent's client secret
          emitted,    \* events Stripe has produced
          failures,   \* requests that failed so far
          late,       \* history: bookings whose success was recorded too late
                      \* for the cancel to see it
          overtaken,  \* history: bookings a decline has cancelled that were
                      \* pending no more when it wrote
          crossed     \* history: bookings with two requests in flight at once

database == <<booking, payment, processed, told>>
stripe == <<intents, charged, refunds, emitted>>
history == <<late, overtaken, crossed>>
vars == <<database, stripe, rowLock, worker, secret, failures, history>>

Ledger == INSTANCE PaymentLedger

BookingStatus == {"pending", "confirmed", "cancelled", "completed"}
PaymentStatus == {"none", "pending", "paid", "failed", "refunding", "refunded"}

Mark == {"paid", "failed", "refunded"}   \* markPaid, markFailed, markRefunded
Event == [mark : Mark, booking : BookingIds, n : 1 .. MaxDeclines + 1]
NoEvent == [mark |-> "none"]

Decision == {"accept", "decline", "complete"}
Op == {"pay", "status", "webhook", "refund", "cancel"} \cup Decision
Pc == {"pay-read", "pay-intent", "pay-write", "retrieve", "mark-read",
       "mark-write", "record", "cancel-begin", "refund-read", "refund-stripe",
       "refund-write", "cancel-commit", "decide"}
JobRecord == [pc : Pc, op : Op, booking : BookingIds,
              event : Event \cup {NoEvent}, mark : Mark, seen : PaymentStatus]
Job == {j \in JobRecord : /\ j.op = "webhook" => j.event \in Event
                          /\ j.pc = "record" => j.op = "webhook"
                          /\ j.pc = "decide" <=> j.op \in Decision}
Idle == [pc |-> "idle"]

Init ==
  /\ booking = [b \in BookingIds |-> "pending"]
  /\ rowLock = {}
  /\ payment = [b \in BookingIds |-> "none"]
  /\ processed = {}
  /\ told = [b \in BookingIds |-> [k \in Mark |-> 0]]
  /\ worker = [w \in Workers |-> Idle]
  /\ intents = [b \in BookingIds |-> 0]
  /\ charged = [b \in BookingIds |-> FALSE]
  /\ refunds = [b \in BookingIds |-> 0]
  /\ secret = [b \in BookingIds |-> FALSE]
  /\ emitted = {}
  /\ failures = 0
  /\ late = {} /\ overtaken = {} /\ crossed = {}

(***************************************************************************)
(* Moving a worker.                                                        *)
(***************************************************************************)
At(w, pc) == worker[w].pc = pc
Its(w) == worker[w].booking

\* w serves a request that reads or writes the payment of b.
Handles(w, b) == worker[w] # Idle /\ worker[w].op \notin Decision /\ Its(w) = b
InFlight(b) == \E w \in Workers : Handles(w, b)

Start(w, pc, op, b, e, k) ==
  /\ worker[w] = Idle
  /\ crossed' = IF op \notin Decision /\ InFlight(b) THEN crossed \cup {b} ELSE crossed
  /\ worker' = [worker EXCEPT ![w] = [pc |-> pc, op |-> op, booking |-> b,
                                      event |-> e, mark |-> k, seen |-> "none"]]
Goto(w, pc) == worker' = [worker EXCEPT ![w].pc = pc]
See(w, pc) == worker' = [worker EXCEPT ![w].pc = pc,
                                       ![w].seen = payment[worker[w].booking]]
Finish(w) == worker' = [worker EXCEPT ![w] = Idle]

(***************************************************************************)
(* pay                                                                     *)
(***************************************************************************)
StartPay(w, b) ==
  /\ booking[b] = "confirmed"
  /\ Start(w, "pay-read", "pay", b, NoEvent, "paid")
  /\ UNCHANGED <<database, stripe, rowLock, secret, failures, late, overtaken>>

PayRead(w) ==
  /\ At(w, "pay-read")
  /\ LET b == Its(w) IN
       \/ /\ payment[b] \in {"paid", "refunding", "refunded"}
          /\ Finish(w)
          /\ UNCHANGED secret
       \/ /\ payment[b] = "pending"    \* the same intent's secret again
          /\ Finish(w)
          /\ secret' = [secret EXCEPT ![b] = TRUE]
       \/ /\ payment[b] \in {"none", "failed"}
          /\ See(w, "pay-intent")
          /\ UNCHANGED secret
  /\ UNCHANGED <<database, stripe, rowLock, failures, history>>

\* Mutant of IntentsAfterCreate: the call to Stripe carries no idempotency key.
IntentsWithoutKey(b) == intents[b] + 1

\* The idempotency key booking-<id>-payment replays the first intent.
IntentsAfterCreate(b) == IF intents[b] = 0 THEN 1 ELSE intents[b]

\* Mutant of PayIntent: the client secret is returned before the commit.
PayIntentTellsEarly(w) ==
  /\ At(w, "pay-intent")
  /\ intents' = [intents EXCEPT ![Its(w)] = IntentsAfterCreate(Its(w))]
  /\ secret' = [secret EXCEPT ![Its(w)] = TRUE]
  /\ Goto(w, "pay-write")
  /\ UNCHANGED <<database, charged, refunds, emitted, rowLock, failures, history>>

PayIntent(w) ==
  /\ At(w, "pay-intent")
  /\ intents' = [intents EXCEPT ![Its(w)] = IntentsAfterCreate(Its(w))]
  /\ Goto(w, "pay-write")
  /\ UNCHANGED <<database, charged, refunds, emitted, rowLock, secret, failures, history>>

\* With no row seen: an insert, refused when another request inserted first.
\* With a failed row seen: an update with no condition on the status.
PayWrite(w) ==
  /\ At(w, "pay-write")
  /\ LET b == Its(w) IN
       IF worker[w].seen = "none" /\ payment[b] # "none"
         THEN UNCHANGED <<payment, secret>>
         ELSE /\ payment' = [payment EXCEPT ![b] = "pending"]
              /\ secret' = [secret EXCEPT ![b] = TRUE]
  /\ Finish(w)
  /\ UNCHANGED <<booking, processed, told, stripe, rowLock, failures, history>>

(***************************************************************************)
(* getStatus: a pending payment is reconciled with Stripe.                 *)
(***************************************************************************)
StartStatus(w, b) ==
  /\ payment[b] = "pending"
  /\ Start(w, "retrieve", "status", b, NoEvent, "paid")
  /\ UNCHANGED <<database, stripe, rowLock, secret, failures, late, overtaken>>

\* An outage of Stripe is swallowed: the last known status is returned.
Retrieve(w) ==
  /\ At(w, "retrieve")
  /\ \/ charged[Its(w)] /\ Goto(w, "mark-read")
     \/ Finish(w)
  /\ UNCHANGED <<database, stripe, rowLock, secret, failures, history>>

(***************************************************************************)
(* The webhook: look the event up, mark the payment, record the event.     *)
(***************************************************************************)
\* Mutant of Deliver: the event is recorded first and then acted on.
DeliverRecordsFirst(w, e) ==
  /\ e \in emitted
  /\ e \notin processed
  /\ processed' = processed \cup {e}
  /\ Start(w, "mark-read", "webhook", e.booking, e, e.mark)
  /\ UNCHANGED <<booking, payment, told, stripe, rowLock, secret, failures, late, overtaken>>

Deliver(w, e) ==
  /\ e \in emitted
  /\ e \notin processed        \* otherwise it is answered at once
  /\ Start(w, "mark-read", "webhook", e.booking, e, e.mark)
  /\ UNCHANGED <<database, stripe, rowLock, secret, failures, late, overtaken>>

\* Mutants of Skips: markPaid without its guards.
SkipsNotPaid == [paid |-> {"none", "refunding", "refunded"},
                 failed |-> {"none", "failed"}, refunded |-> {"none", "refunded"}]
SkipsNotRefunded == [paid |-> {"none", "paid", "refunding"},
                     failed |-> {"none", "failed"}, refunded |-> {"none", "refunded"}]

\* The statuses that each mark leaves alone.
Skips == [paid     |-> {"none", "paid", "refunding", "refunded"},
          failed   |-> {"none", "failed"},
          refunded |-> {"none", "refunded"}]

\* Where a mark continues: the webhook records its event, getStatus returns.
AfterMark(w) == IF worker[w].op = "webhook" THEN Goto(w, "record") ELSE Finish(w)

MarkRead(w) ==
  /\ At(w, "mark-read")
  /\ IF payment[Its(w)] \in Skips[worker[w].mark]
       THEN AfterMark(w)
       ELSE See(w, "mark-write")
  /\ UNCHANGED <<database, stripe, rowLock, secret, failures, history>>

\* The cancel of b has read a payment that it does not refund.
CancelPast(b) ==
  \E c \in Workers : /\ At(c, "cancel-commit")
                     /\ Its(c) = b
                     /\ worker[c].seen # "paid"

MarkWrite(w) ==
  /\ At(w, "mark-write")
  /\ LET b == Its(w)
         k == worker[w].mark
     IN /\ payment' = [payment EXCEPT ![b] = k]
        /\ told' = [told EXCEPT ![b][k] = @ + 1]
        /\ late' = IF k = "paid" /\ (booking[b] = "cancelled" \/ CancelPast(b))
                     THEN late \cup {b} ELSE late
  /\ AfterMark(w)
  /\ UNCHANGED <<booking, processed, stripe, rowLock, secret, failures, overtaken, crossed>>

\* The insert of an event another delivery recorded first fails: Stripe
\* retries, and the retry finds the event.
Record(w) ==
  /\ At(w, "record")
  /\ processed' = processed \cup {worker[w].event}
  /\ Finish(w)
  /\ UNCHANGED <<booking, payment, told, stripe, rowLock, secret, failures, history>>

(***************************************************************************)
(* cancel and refund                                                       *)
(***************************************************************************)
StartRefund(w, b) ==
  /\ Start(w, "refund-read", "refund", b, NoEvent, "paid")
  /\ UNCHANGED <<database, stripe, rowLock, secret, failures, late, overtaken>>

\* Mutant of StartCancel: the booking is cancelled without a look at its payment.
StartCancelNoRefund(w, b) ==
  /\ booking[b] \in {"pending", "confirmed"}
  /\ Start(w, "cancel-commit", "cancel", b, NoEvent, "paid")
  /\ UNCHANGED <<database, stripe, rowLock, secret, failures, late, overtaken>>

\* The status is checked outside the transaction, as is the clock.
StartCancel(w, b) ==
  /\ booking[b] \in {"pending", "confirmed"}
  /\ Start(w, "cancel-begin", "cancel", b, NoEvent, "paid")
  /\ UNCHANGED <<database, stripe, rowLock, secret, failures, late, overtaken>>

\* The update of the booking, visible to nobody else before the commit.
CancelBegin(w) ==
  /\ At(w, "cancel-begin")
  /\ Its(w) \notin rowLock
  /\ rowLock' = rowLock \cup {Its(w)}
  /\ Goto(w, "refund-read")
  /\ UNCHANGED <<database, stripe, secret, failures, history>>

\* Mutant of RefundRead: the row is updated without the refund at Stripe.
RefundReadSkipsStripe(w) ==
  /\ At(w, "refund-read")
  /\ IF worker[w].op = "cancel" THEN See(w, "cancel-commit")
                                ELSE See(w, "refund-write")
  /\ UNCHANGED <<database, stripe, rowLock, secret, failures, history>>

RefundRead(w) ==
  /\ At(w, "refund-read")
  /\ \/ payment[Its(w)] = "paid" /\ See(w, "refund-stripe")
     \/ /\ payment[Its(w)] # "paid"
        /\ IF worker[w].op = "cancel" THEN See(w, "cancel-commit") ELSE Finish(w)
  /\ UNCHANGED <<database, stripe, rowLock, secret, failures, history>>

\* The idempotency key booking-<id>-refund replays the first refund; Stripe
\* refuses to refund what was not charged.
RefundsAfterCreate(b) == IF refunds[b] = 0 THEN 1 ELSE refunds[b]

RefundStripe(w) ==
  /\ At(w, "refund-stripe")
  /\ charged[Its(w)]
  /\ refunds' = [refunds EXCEPT ![Its(w)] = RefundsAfterCreate(Its(w))]
  /\ Goto(w, IF worker[w].op = "cancel" THEN "cancel-commit" ELSE "refund-write")
  /\ UNCHANGED <<database, intents, charged, emitted, rowLock, secret, failures, history>>

RefundWrite(w) ==
  /\ At(w, "refund-write")
  /\ payment' = [payment EXCEPT ![Its(w)] = "refunding"]
  /\ Finish(w)
  /\ UNCHANGED <<booking, processed, told, stripe, rowLock, secret, failures, history>>

CancelCommit(w) ==
  /\ At(w, "cancel-commit")
  /\ booking' = [booking EXCEPT ![Its(w)] = "cancelled"]
  /\ payment' = IF worker[w].seen = "paid"
                  THEN [payment EXCEPT ![Its(w)] = "refunding"] ELSE payment
  /\ rowLock' = rowLock \ {Its(w)}
  /\ Finish(w)
  /\ UNCHANGED <<processed, told, stripe, secret, failures, history>>

(***************************************************************************)
(* accept, decline and complete: the status is checked outside the         *)
(* transaction and the booking is then updated by its id alone.  None of   *)
(* them looks at the payment.                                              *)
(***************************************************************************)
Source == [accept |-> "pending", decline |-> "pending", complete |-> "confirmed"]
Target == [accept |-> "confirmed", decline |-> "cancelled", complete |-> "completed"]

StartDecision(w, b, op) ==
  /\ booking[b] = Source[op]
  /\ Start(w, "decide", op, b, NoEvent, "paid")
  /\ UNCHANGED <<database, stripe, rowLock, secret, failures, late, overtaken>>

\* The update waits for a cancel that has updated the row; the commit follows.
Decide(w) ==
  /\ At(w, "decide")
  /\ Its(w) \notin rowLock
  /\ LET b == Its(w)
         op == worker[w].op
     IN /\ booking' = [booking EXCEPT ![b] = Target[op]]
        /\ overtaken' = IF op = "decline" /\ booking[b] # "pending"
                          THEN overtaken \cup {b} ELSE overtaken
  /\ Finish(w)
  /\ UNCHANGED <<payment, processed, told, stripe, rowLock, secret, failures, late, crossed>>

(***************************************************************************)
(* A request fails half-way: timeout, lost connection, crash, outage.      *)
(***************************************************************************)
InTransaction(w) ==
  worker[w].op = "cancel" /\ worker[w].pc \in {"refund-read", "refund-stripe", "cancel-commit"}

Fail(w) ==
  /\ worker[w] # Idle
  /\ failures < MaxFailures
  /\ failures' = failures + 1
  /\ rowLock' = IF InTransaction(w) THEN rowLock \ {Its(w)} ELSE rowLock
  /\ Finish(w)
  /\ UNCHANGED <<database, stripe, secret, history>>

(***************************************************************************)
(* The environment: the customer's bank and Stripe.                        *)
(***************************************************************************)
Declined(b) == {e \in emitted : e.mark = "failed" /\ e.booking = b}

CustomerPays(b) ==
  /\ secret[b] /\ ~charged[b]
  /\ charged' = [charged EXCEPT ![b] = TRUE]
  /\ emitted' = emitted \cup {[mark |-> "paid", booking |-> b, n |-> 1]}
  /\ UNCHANGED <<database, intents, refunds, rowLock, worker, secret, failures, history>>

BankDeclines(b) ==
  /\ secret[b] /\ ~charged[b]
  /\ \E n \in 1 .. MaxDeclines :
       /\ n = Cardinality(Declined(b)) + 1
       /\ emitted' = emitted \cup {[mark |-> "failed", booking |-> b, n |-> n]}
  /\ UNCHANGED <<database, intents, charged, refunds, rowLock, worker, secret, failures, history>>

RefundSettles(b) ==
  /\ refunds[b] > 0
  /\ emitted' = emitted \cup {[mark |-> "refunded", booking |-> b, n |-> 1]}
  /\ UNCHANGED <<database, intents, charged, refunds, rowLock, worker, secret, failures, history>>

(***************************************************************************)
(* The specification.                                                      *)
(***************************************************************************)
Continue(w) ==
  \/ PayRead(w) \/ PayIntent(w) \/ PayWrite(w)
  \/ Retrieve(w) \/ MarkRead(w) \/ MarkWrite(w) \/ Record(w)
  \/ CancelBegin(w) \/ RefundRead(w) \/ RefundStripe(w)
  \/ RefundWrite(w) \/ CancelCommit(w) \/ Decide(w)

Request(w) ==
  \/ \E b \in BookingIds :
       StartPay(w, b) \/ StartStatus(w, b) \/ StartRefund(w, b) \/ StartCancel(w, b)
  \/ \E b \in BookingIds, op \in Decision : StartDecision(w, b, op)
  \/ \E e \in Event : Deliver(w, e)

Environment(b) == CustomerPays(b) \/ BankDeclines(b) \/ RefundSettles(b)

Next ==
  \/ \E w \in Workers : Request(w) \/ Continue(w) \/ Fail(w)
  \/ \E b \in BookingIds : Environment(b)

Spec == Init /\ [][Next]_vars

\* The server carries a request on; Stripe settles refunds and retries an
\* event until it is recorded, and a retry finds a worker again and again.
Fairness ==
  /\ \A w \in Workers : WF_vars(Continue(w))
  /\ \A b \in BookingIds : WF_vars(RefundSettles(b))
  /\ \A e \in Event : SF_vars(\E w \in Workers : Deliver(w, e))

FairSpec == Spec /\ Fairness

(***************************************************************************)
(* Properties                                                              *)
(***************************************************************************)

\* The types of the rows, of Stripe's state and of the jobs; only a delivery
\* comes to the point where its event is recorded.
TypeOK ==
  /\ booking \in [BookingIds -> BookingStatus]
  /\ rowLock \subseteq BookingIds
  /\ payment \in [BookingIds -> PaymentStatus]
  /\ processed \subseteq Event
  /\ told \in [BookingIds -> [Mark -> Nat]]
  /\ worker \in [Workers -> Job \cup {Idle}]
  /\ intents \in [BookingIds -> Nat]
  /\ charged \in [BookingIds -> BOOLEAN]
  /\ refunds \in [BookingIds -> Nat]
  /\ secret \in [BookingIds -> BOOLEAN]
  /\ emitted \subseteq Event
  /\ failures \in 0 .. MaxFailures
  /\ late \subseteq BookingIds
  /\ overtaken \subseteq BookingIds
  /\ crossed \subseteq BookingIds

\* Money: one intent, one charge and one refund per booking and in this
\* order, through concurrent calls, retries and requests that fail after
\* Stripe has acted (payment-stripe-guide.md, section 7).
ImplementsLedger == Ledger!LedgerSpec

\* A Payment row never claims money that Stripe did not move: paid (or on its
\* way back) only if charged, refunding or refunded only if a refund exists.
RowsAreBacked ==
  \A b \in BookingIds :
    /\ payment[b] \in {"paid", "refunding", "refunded"} => charged[b]
    /\ payment[b] \in {"refunding", "refunded"} => refunds[b] > 0

\* No event about an intent can arrive before its Payment row is committed,
\* although the intent is created first: the client secret is only returned
\* after the commit.  So no event is recorded as processed without effect
\* for want of a row (the gap HOOK-12 of the test plan asks about).
EventsFindTheirRow ==
  \A e \in emitted : payment[e.booking] # "none"

\* A cancelled booking keeps its customer's money only after one of two races:
\* the success was recorded after the cancel had looked at the payment, or a
\* decline that read the booking pending was overtaken by an accept (and a
\* payment) and wrote cancelled, which refunds nothing.
StrandedNeedsRace ==
  \A b \in BookingIds :
    booking[b] = "cancelled" /\ payment[b] = "paid" /\ refunds[b] = 0
      => b \in late \cup overtaken

\* With no declined attempt, a charge is eventually recorded, through
\* failures of the handler, duplicated deliveries and concurrent requests.
ChargeIsRecorded ==
  \A b \in BookingIds :
    charged[b] /\ Declined(b) = {}
      ~> payment[b] \in {"paid", "refunding", "refunded"}

\* The bank has declined no attempt to pay b and no two requests about its
\* payment were in flight at once.
Undisturbed(b) == b \notin crossed /\ Declined(b) = {}

\* The renter is told once that the payment succeeded, unless two requests
\* about it have crossed (two deliveries both find the event new, HOOK-09).
PaidNoticeOnce ==
  \A b \in BookingIds : Undisturbed(b) => told[b]["paid"] <= 1

\* The status of a payment never goes back: not to failed or pending once it
\* was paid, not to refunding or paid once it was refunded (HOOK-11, and the
\* idempotence of refund() in payment-stripe-guide.md, section 5).
Rank == [none |-> 0, pending |-> 1, failed |-> 1, paid |-> 2, refunding |-> 3, refunded |-> 4]
GoesBack(b) == Rank[payment'[b]] < Rank[payment[b]]
StatusNeverRegresses == [][\A b \in BookingIds : ~GoesBack(b)]_vars

\* That takes two requests about one payment in flight at once or a declined
\* attempt: retries, repeated deliveries and requests that fail half-way, one
\* after the other, never take a status back.
RegressNeedsRace == [][\A b \in BookingIds : Undisturbed(b) => ~GoesBack(b)]_vars
===============================================================================
