---------------------------- MODULE Conversation ----------------------------
(***************************************************************************)
(* The chat of one booking.  Messages are written by POST alone            *)
(* (messages.service.ts); the controller publishes a message it has        *)
(* created, and the gateway (chat.gateway.ts) passes it on to the sockets  *)
(* in the booking's room.  A client that had no answer repeats its POST    *)
(* with the same clientMessageId.  A socket is let in by a ticket that can *)
(* be used once, kept in the memory of the process (auth.service.ts).      *)
(*                                                                         *)
(* Both users of the model are participants of the booking: everyone else  *)
(* is refused before anything is read or written (assertParticipant).      *)
(***************************************************************************)
EXTENDS Integers

CONSTANTS Messages,   \* what a sender wants to say: one clientMessageId each
          Sender,     \* the participant who sends it
          Workers,    \* POST requests that can be in flight at the same time
          Sockets,    \* connections of the clients
          Tickets,    \* socket tickets
          Owner       \* the participant a ticket was issued to

ASSUME Participants == Sender \in [Messages -> {"renter", "mate"}] /\ Owner \in [Tickets -> {"renter", "mate"}]

VARIABLES status,    \* Booking.status
          accepted,  \* history: the booking has been confirmed
          message,   \* the Message table: not there, unread or read
          notices,   \* message_received notifications
          request,   \* what every worker is doing
          ticket,    \* AuthService.socketTickets
          socket,    \* what every socket is doing
          joining,   \* sockets whose join_booking waits for the participant check
          room,      \* sockets in the room of the booking
          got,       \* new_message events a socket was sent
          entered,   \* history: how many sockets a ticket let in
          due,       \* history: messages created while the socket was in the room
          lost       \* history: messages whose request died before it published

vars == <<status, accepted, message, notices, request, ticket, socket, joining, room, got,
          entered, due, lost>>
booking == <<status, accepted>>
chat == <<message, notices, request, got, due, lost>>
doors == <<ticket, socket, joining, room, entered>>

Statuses == {"pending", "confirmed", "completed", "cancelled"}
Idle == [pc |-> "idle"]
Job == {Idle} \cup [pc : {"look", "insert", "publish"}, message : Messages]
Off == [pc |-> "off"]
Connection == {Off} \cup [pc : {"verify", "user", "on"}, ticket : Tickets]

Stored(m) == message[m] # "none"
At(w, pc) == request[w].pc = pc
Goto(w, pc) == request' = [request EXCEPT ![w].pc = pc]
Leave(w) == request' = [request EXCEPT ![w] = Idle]
On(s) == socket[s].pc = "on"
User(s) == Owner[socket[s].ticket]

Init ==
  /\ status = "pending"
  /\ accepted = FALSE
  /\ message = [m \in Messages |-> "none"]
  /\ notices = [m \in Messages |-> 0]
  /\ request = [w \in Workers |-> Idle]
  /\ ticket = [t \in Tickets |-> "new"]
  /\ socket = [s \in Sockets |-> Off]
  /\ joining = {}
  /\ room = {}
  /\ got = [s \in Sockets |-> [m \in Messages |-> 0]]
  /\ entered = [t \in Tickets |-> 0]
  /\ due = [s \in Sockets |-> {}]
  /\ lost = {}

(***************************************************************************)
(* POST /bookings/:id/messages                                             *)
(***************************************************************************)

\* Mutant of Check: the status of the booking is not looked at.
CheckNothing(w, m) ==
  /\ request[w] = Idle
  /\ request' = [request EXCEPT ![w] = [pc |-> "look", message |-> m]]
  /\ UNCHANGED <<booking, message, notices, got, due, lost, doors>>

Check(w, m) ==
  /\ request[w] = Idle
  /\ status \in {"confirmed", "completed"}
  /\ request' = [request EXCEPT ![w] = [pc |-> "look", message |-> m]]
  /\ UNCHANGED <<booking, message, notices, got, due, lost, doors>>

\* A message that is there already is the answer.
Look(w) ==
  /\ At(w, "look")
  /\ IF Stored(request[w].message) THEN Leave(w) ELSE Goto(w, "insert")
  /\ UNCHANGED <<booking, message, notices, got, due, lost, doors>>

\* Mutant of Insert: a message that lost the race is notified and published.
InsertRaced(w) ==
  /\ At(w, "insert")
  /\ LET m == request[w].message IN
       /\ message' = [message EXCEPT ![m] = IF Stored(m) THEN @ ELSE "unread"]
       /\ notices' = [notices EXCEPT ![m] = IF @ = 0 THEN 1 ELSE @]
       /\ due' = [s \in Sockets |-> IF s \in room THEN due[s] \cup {m} ELSE due[s]]
  /\ Goto(w, "publish")
  /\ UNCHANGED <<booking, got, lost, doors>>

\* Mutant of Insert: the notification is written in no transaction, before the
\* message.
InsertTellsFirst(w) ==
  /\ At(w, "insert")
  /\ LET m == request[w].message IN
       /\ notices' = [notices EXCEPT ![m] = IF @ < 2 THEN @ + 1 ELSE @]
       /\ IF Stored(m)
            THEN Leave(w) /\ UNCHANGED <<message, due>>
            ELSE /\ message' = [message EXCEPT ![m] = "unread"]
                 /\ due' = [s \in Sockets |-> IF s \in room THEN due[s] \cup {m} ELSE due[s]]
                 /\ Goto(w, "publish")
  /\ UNCHANGED <<booking, got, lost, doors>>

\* Message and notification in one transaction.  Sender and clientMessageId are
\* a unique key: the loser of a race answers with the row of the winner.
Insert(w) ==
  /\ At(w, "insert")
  /\ LET m == request[w].message IN
       IF Stored(m)
         THEN Leave(w) /\ UNCHANGED <<message, notices, due>>
         ELSE /\ message' = [message EXCEPT ![m] = "unread"]
              /\ notices' = [notices EXCEPT ![m] = @ + 1]
              /\ due' = [s \in Sockets |-> IF s \in room THEN due[s] \cup {m} ELSE due[s]]
              /\ Goto(w, "publish")
  /\ UNCHANGED <<booking, got, lost, doors>>

\* Mutant of Publish: the sockets of the sender are left out.
PublishToOthers(w) ==
  /\ At(w, "publish")
  /\ LET m == request[w].message IN
       got' = [s \in Sockets |-> IF s \in room /\ User(s) # Sender[m]
                                   THEN [got[s] EXCEPT ![m] = @ + 1] ELSE got[s]]
  /\ Leave(w)
  /\ UNCHANGED <<booking, message, notices, due, lost, doors>>

\* To everyone in the room, the sender's own sockets included.
Publish(w) ==
  /\ At(w, "publish")
  /\ LET m == request[w].message IN
       got' = [s \in Sockets |-> IF s \in room THEN [got[s] EXCEPT ![m] = @ + 1] ELSE got[s]]
  /\ Leave(w)
  /\ UNCHANGED <<booking, message, notices, due, lost, doors>>

\* What was committed stays; a message that was created is never published then.
Fail(w) ==
  /\ request[w] # Idle
  /\ Leave(w)
  /\ lost' = IF At(w, "publish") THEN lost \cup {request[w].message} ELSE lost
  /\ UNCHANGED <<booking, message, notices, got, due, doors>>

(***************************************************************************)
(* Tickets and connections                                                 *)
(***************************************************************************)

Issue(t) ==
  /\ ticket[t] = "new"
  /\ ticket' = [ticket EXCEPT ![t] = "valid"]
  /\ UNCHANGED <<booking, chat, socket, joining, room, entered>>

\* After its 60 seconds a ticket is refused, and pruned when the next is issued.
Expire(t) ==
  /\ ticket[t] = "valid"
  /\ ticket' = [ticket EXCEPT ![t] = "gone"]
  /\ UNCHANGED <<booking, chat, socket, joining, room, entered>>

\* The signature of the ticket is verified first.
Connect(s, t) ==
  /\ socket[s] = Off
  /\ ticket[t] # "new"
  /\ socket' = [socket EXCEPT ![s] = [pc |-> "verify", ticket |-> t]]
  /\ UNCHANGED <<booking, chat, ticket, joining, room, entered>>

\* Mutant of Consume: the ticket is looked up and left where it is.
ConsumeKeeps(s) ==
  /\ socket[s].pc = "verify"
  /\ IF ticket[socket[s].ticket] = "valid"
       THEN socket' = [socket EXCEPT ![s].pc = "user"]
       ELSE socket' = [socket EXCEPT ![s] = Off]
  /\ UNCHANGED <<booking, chat, ticket, joining, room, entered>>

\* Looked up and deleted with no await in between.
Consume(s) ==
  /\ socket[s].pc = "verify"
  /\ LET t == socket[s].ticket IN
       /\ IF ticket[t] = "valid"
            THEN socket' = [socket EXCEPT ![s].pc = "user"]
            ELSE socket' = [socket EXCEPT ![s] = Off]
       /\ ticket' = [ticket EXCEPT ![t] = "gone"]
  /\ UNCHANGED <<booking, chat, joining, room, entered>>

\* The user's row is read: a banned or inactive account is refused.
Admit(s) ==
  /\ socket[s].pc = "user"
  /\ socket' = [socket EXCEPT ![s].pc = "on"]
  /\ entered' = [entered EXCEPT ![socket[s].ticket] = @ + 1]
  /\ UNCHANGED <<booking, chat, ticket, joining, room>>

\* Refused, or closed by the client; whoever connects next is another socket.
Disconnect(s) ==
  /\ socket[s].pc \in {"user", "on"}
  /\ socket' = [socket EXCEPT ![s] = Off]
  /\ joining' = joining \ {s}
  /\ room' = room \ {s}
  /\ got' = [got EXCEPT ![s] = [m \in Messages |-> 0]]
  /\ due' = [due EXCEPT ![s] = {}]
  /\ UNCHANGED <<booking, message, notices, request, ticket, entered, lost>>

(***************************************************************************)
(* The gateway's handlers                                                  *)
(***************************************************************************)

\* The participant check is awaited.
Join(s) ==
  /\ On(s)
  /\ joining' = joining \cup {s}
  /\ UNCHANGED <<booking, chat, ticket, socket, room, entered>>

Joined(s) ==
  /\ s \in joining
  /\ joining' = joining \ {s}
  /\ room' = room \cup {s}
  /\ UNCHANGED <<booking, chat, ticket, socket, entered>>

\* A join that is still waiting is not taken back.
LeaveBooking(s) ==
  /\ On(s)
  /\ room' = room \ {s}
  /\ due' = [due EXCEPT ![s] = {}]
  /\ UNCHANGED <<booking, message, notices, request, got, lost, ticket, socket, joining, entered>>

\* mark_read, whether the socket is in the room or not.
MarkRead(s) ==
  /\ On(s)
  /\ message' = [m \in Messages |-> IF message[m] = "unread" /\ Sender[m] # User(s)
                                      THEN "read" ELSE message[m]]
  /\ UNCHANGED <<booking, notices, request, got, due, lost, doors>>

(***************************************************************************)
(* The booking and the process                                             *)
(***************************************************************************)

\* The decisions of module Bookings: once a booking has been confirmed, a stale
\* one may write any of the others.
Decide(to) ==
  /\ to \notin {status, "pending"}
  /\ to = "completed" => accepted
  /\ status' = to
  /\ accepted' = (accepted \/ to = "confirmed")
  /\ UNCHANGED <<chat, doors>>

\* Tickets, sockets and requests are in memory.
Restart ==
  /\ request' = [w \in Workers |-> Idle]
  /\ lost' = lost \cup {request[w].message : w \in {v \in Workers : At(v, "publish")}}
  /\ ticket' = [t \in Tickets |-> IF ticket[t] = "new" THEN "new" ELSE "gone"]
  /\ socket' = [s \in Sockets |-> Off]
  /\ joining' = {} /\ room' = {}
  /\ got' = [s \in Sockets |-> [m \in Messages |-> 0]]
  /\ due' = [s \in Sockets |-> {}]
  /\ UNCHANGED <<booking, message, notices, entered>>

Post(w) == (\E m \in Messages : Check(w, m)) \/ Look(w) \/ Insert(w) \/ Publish(w) \/ Fail(w)
Door(s) == (\E t \in Tickets : Connect(s, t)) \/ Consume(s) \/ Admit(s) \/ Disconnect(s)
Event(s) == Join(s) \/ Joined(s) \/ LeaveBooking(s) \/ MarkRead(s)

Next ==
  \/ \E w \in Workers : Post(w)
  \/ \E s \in Sockets : Door(s) \/ Event(s)
  \/ \E t \in Tickets : Issue(t) \/ Expire(t)
  \/ \E to \in Statuses : Decide(to)
  \/ Restart

Spec == Init /\ [][Next]_vars

(***************************************************************************)
(* Properties                                                              *)
(***************************************************************************)

\* Types of the tables, the memory of the process and the histories; only a
\* socket that was let in is in the room or on its way there (ChatGateway).
TypeOK ==
  /\ status \in Statuses
  /\ accepted \in BOOLEAN
  /\ message \in [Messages -> {"none", "unread", "read"}]
  /\ notices \in [Messages -> Nat]
  /\ request \in [Workers -> Job]
  /\ ticket \in [Tickets -> {"new", "valid", "gone"}]
  /\ socket \in [Sockets -> Connection]
  /\ joining \cup room \subseteq {s \in Sockets : On(s)}
  /\ got \in [Sockets -> [Messages -> Nat]]
  /\ entered \in [Tickets -> Nat]
  /\ due \in [Sockets -> SUBSET Messages]
  /\ lost \subseteq Messages

\* However often a client repeats its POST, and whatever fails in between, the
\* recipient is notified exactly once of every message that was stored and of
\* nothing else: the transaction and the unique key of MessagesService.create.
NoticePerMessage ==
  \A m \in Messages : notices[m] = IF Stored(m) THEN 1 ELSE 0

\* No socket is sent a message twice, nor one that is not in the table: only
\* the request that created it publishes it (MessagesController.create).
DeliveredOnce ==
  \A s \in Sockets, m \in Messages : got[s][m] <= IF Stored(m) THEN 1 ELSE 0

\* A socket that was in the room when a message was stored, and has stayed, is
\* sent the message or is going to be, unless the request died in between; the
\* sender's other sockets are no exception.
RoomMissesNothing ==
  \A s \in Sockets : \A m \in due[s] \ lost :
    \/ got[s][m] > 0
    \/ \E w \in Workers : At(w, "publish") /\ request[w].message = m

\* A ticket opens one socket, even when several handshakes present it at the
\* same time or the process restarts (AuthService.consumeSocketTicket).
TicketOpensOneSocket ==
  \A t \in Tickets : entered[t] <= 1

\* Nobody has written in a booking that was never accepted, although the status is
\* checked before the transaction and the booking may be cancelled meanwhile
\* (MessagesService.create, MSG-04).
MessagesNeedAcceptance ==
  ~accepted => \A m \in Messages : ~Stored(m) /\ \A s \in Sockets : got[s][m] = 0
===============================================================================
