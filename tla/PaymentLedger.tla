---------------------------- MODULE PaymentLedger ----------------------------
(***************************************************************************)
(* What the payment component promises about money, whatever is retried,   *)
(* duplicated, reordered or lost on the way: for each booking one payment  *)
(* intent is opened, it is charged at most once, and at most one refund is *)
(* made, after the charge.  Module Payments implements this.               *)
(***************************************************************************)
EXTENDS Integers

CONSTANT BookingIds

VARIABLES intents,   \* payment intents opened at the provider
          charged,   \* whether the customer's money was taken
          refunds    \* refunds made at the provider

ledgerVars == <<intents, charged, refunds>>

LedgerInit ==
  /\ intents = [b \in BookingIds |-> 0]
  /\ charged = [b \in BookingIds |-> FALSE]
  /\ refunds = [b \in BookingIds |-> 0]

Open(b) ==
  /\ intents[b] = 0
  /\ intents' = [intents EXCEPT ![b] = 1]
  /\ UNCHANGED <<charged, refunds>>

Charge(b) ==
  /\ intents[b] = 1 /\ ~charged[b]
  /\ charged' = [charged EXCEPT ![b] = TRUE]
  /\ UNCHANGED <<intents, refunds>>

Refund(b) ==
  /\ charged[b] /\ refunds[b] = 0
  /\ refunds' = [refunds EXCEPT ![b] = 1]
  /\ UNCHANGED <<intents, charged>>

LedgerNext == \E b \in BookingIds : Open(b) \/ Charge(b) \/ Refund(b)

LedgerSpec == LedgerInit /\ [][LedgerNext]_ledgerVars
=============================================================================
