-------------------------------- MODULE Inbox --------------------------------
(***************************************************************************)
(* The notifications of the users (notifications.service.ts): create, as   *)
(* the other components call it in their transactions, markRead and        *)
(* markAllRead.  markRead reads and writes in two statements, by id;       *)
(* markAllRead is one UPDATE ... WHERE "isRead" = false, which takes the   *)
(* rows that were unread when it began and looks at each once more when it *)
(* has its lock.                                                           *)
(***************************************************************************)
EXTENDS Integers, FiniteSets

CONSTANTS Readers,      \* requests that can be in flight at the same time
          Owners,       \* users
          NoticeIds

ASSUME InboxAssumption == IsFiniteSet(NoticeIds)

VARIABLES notice,       \* the Notification table
          reader,       \* what every request is doing
          answered,     \* history: the sum of the counts that each user was told
          opened        \* history: the notifications that a markRead of each user turned

inboxVars == <<notice, reader, answered, opened>>

NoNotice == [state |-> "none"]
Resting == [pc |-> "resting"]
Reads(r, pc) == reader[r].pc = pc
Now(r, j) == reader' = [reader EXCEPT ![r] = j]

UnreadOf(u) == {n \in NoticeIds : notice[n] = [to |-> u, isRead |-> FALSE]}
ReadOf(u) == {n \in NoticeIds : notice[n] = [to |-> u, isRead |-> TRUE]}

InboxInit ==
  /\ notice = [n \in NoticeIds |-> NoNotice]
  /\ reader = [r \in Readers |-> Resting]
  /\ answered = [u \in Owners |-> 0]
  /\ opened = [u \in Owners |-> {}]

CreateNotice(n, u) ==
  /\ notice[n] = NoNotice
  /\ notice' = [notice EXCEPT ![n] = [to |-> u, isRead |-> FALSE]]
  /\ UNCHANGED <<reader, answered, opened>>

\* The notification of somebody else is refused, and one that is read is answered
\* as it is.
ReadNotice(r, u, n) ==
  /\ Reads(r, "resting")
  /\ n \in UnreadOf(u)
  /\ Now(r, [pc |-> "turn", of |-> u, id |-> n])
  /\ UNCHANGED <<notice, answered, opened>>

TurnNotice(r) ==
  /\ Reads(r, "turn")
  /\ LET n == reader[r].id IN
       /\ notice' = [notice EXCEPT ![n].isRead = TRUE]
       /\ opened' = IF notice[n].isRead THEN opened
                    ELSE [opened EXCEPT ![reader[r].of] = @ \cup {n}]
  /\ Now(r, Resting)
  /\ UNCHANGED answered

ReadAll(r, u) ==
  /\ Reads(r, "resting")
  /\ Now(r, [pc |-> "all", of |-> u, rows |-> UnreadOf(u)])
  /\ UNCHANGED <<notice, answered, opened>>

\* Mutant of TurnAll: the rows are not looked at again.
TurnAllFound(r) ==
  /\ Reads(r, "all")
  /\ LET rows == reader[r].rows IN
       /\ notice' = [n \in NoticeIds |->
                       IF n \in rows THEN [notice[n] EXCEPT !.isRead = TRUE] ELSE notice[n]]
       /\ answered' = [answered EXCEPT ![reader[r].of] = @ + Cardinality(rows)]
  /\ Now(r, Resting)
  /\ UNCHANGED opened

\* The rows that are still unread are turned, counted and committed.
TurnAll(r) ==
  /\ Reads(r, "all")
  /\ LET rows == reader[r].rows \cap UnreadOf(reader[r].of) IN
       /\ notice' = [n \in NoticeIds |->
                       IF n \in rows THEN [notice[n] EXCEPT !.isRead = TRUE] ELSE notice[n]]
       /\ answered' = [answered EXCEPT ![reader[r].of] = @ + Cardinality(rows)]
  /\ Now(r, Resting)
  /\ UNCHANGED opened

InboxNext ==
  \/ \E n \in NoticeIds, u \in Owners : CreateNotice(n, u)
  \/ \E r \in Readers :
       \/ \E u \in Owners : ReadAll(r, u) \/ \E n \in NoticeIds : ReadNotice(r, u, n)
       \/ TurnNotice(r) \/ TurnAll(r)

(***************************************************************************)
(* Properties                                                              *)
(***************************************************************************)

\* What a user was told adds up: each notification that is read was counted by one
\* markAllRead of its user or turned by one markRead, however they crossed, and
\* nothing that others do reaches it (NOTIFY-03, NOTIFY-04, NOTIFY-05).
CountsAddUp ==
  \A u \in Owners : answered[u] + Cardinality(opened[u]) = Cardinality(ReadOf(u))
=============================================================================
