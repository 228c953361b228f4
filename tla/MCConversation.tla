---------------------------- MODULE MCConversation ----------------------------
(* One message of each participant, and a ticket of each. *)
EXTENDS Conversation, TLC

CONSTANTS m1, m2, w1, w2, s1, s2, t1, t2

MCMessages == {m1, m2}
MCSender == m1 :> "renter" @@ m2 :> "mate"
MCWorkers == {w1, w2}
MCSockets == {s1, s2}
MCTickets == {t1, t2}
MCOwner == t1 :> "renter" @@ t2 :> "mate"

Symmetry == Permutations(MCWorkers) \cup Permutations(MCSockets)
===============================================================================
