-------------------------- MODULE ConversationProofs --------------------------
(***************************************************************************)
(* The chat of a booking, for any number of messages, requests, sockets    *)
(* and tickets.                                                            *)
(***************************************************************************)
EXTENDS Conversation, TLAPS

BookingInv == status \in Statuses /\ accepted \in BOOLEAN

ChatTypes ==
  /\ message \in [Messages -> {"none", "unread", "read"}]
  /\ notices \in [Messages -> Nat]
  /\ request \in [Workers -> Job]
  /\ got \in [Sockets -> [Messages -> Nat]]
  /\ due \in [Sockets -> SUBSET Messages]
  /\ lost \subseteq Messages

\* Until the booking is accepted there is nobody in the chat.
Silence ==
  ~accepted => /\ status \notin {"confirmed", "completed"}
               /\ \A w \in Workers : request[w] = Idle

\* One request publishes a message, which is stored and was sent to no one yet.
Publishers ==
  \A w \in Workers : At(w, "publish") =>
    /\ Stored(request[w].message)
    /\ \A s \in Sockets : got[s][request[w].message] = 0
    /\ \A v \in Workers : At(v, "publish") /\ request[v].message = request[w].message => v = w

DoorTypes ==
  /\ ticket \in [Tickets -> {"new", "valid", "gone"}]
  /\ socket \in [Sockets -> Connection]
  /\ joining \cup room \subseteq {s \in Sockets : On(s)}
  /\ entered \in [Tickets -> Nat]

Waits(s, t) == socket[s].pc = "user" /\ socket[s].ticket = t

\* A ticket that is still there has opened nothing; one that is gone has let in one
\* socket, or one socket waits for its user's row.
OneUse ==
  \A t \in Tickets :
    /\ ticket[t] # "gone" => entered[t] = 0 /\ \A s \in Sockets : ~Waits(s, t)
    /\ \A s \in Sockets : Waits(s, t) =>
         entered[t] = 0 /\ \A r \in Sockets : Waits(r, t) => r = s
    /\ entered[t] <= 1

DueInRoom == \A s \in Sockets : due[s] # {} => s \in room

ChatInv ==
  /\ ChatTypes /\ Silence /\ NoticePerMessage /\ Publishers /\ DeliveredOnce
  /\ RoomMissesNothing /\ MessagesNeedAcceptance
DoorInv == DoorTypes /\ OneUse

\* The inductive invariant.
ConversationInv == BookingInv /\ ChatInv /\ DoorInv /\ DueInRoom

LEMMA Jobs ==
  ASSUME ChatTypes, NEW w \in Workers
  PROVE  /\ Idle.pc = "idle"
         /\ request[w] = Idle \/ request[w].message \in Messages
         /\ request[w].pc # "idle" => request[w] # Idle /\ request[w].message \in Messages
BY DEF ChatTypes, Job, Idle

LEMMA ConversationInvInit == Init => ConversationInv
<1> SUFFICES ASSUME Init PROVE ConversationInv
  OBVIOUS
<1>1. BookingInv /\ DueInRoom
  BY DEF Init, BookingInv, Statuses, DueInRoom
<1>2. DoorInv
  <2>1. \A s \in Sockets : socket[s].pc = "off"
    BY DEF Init, Off
  <2>2. QED
    BY <2>1 DEF Init, DoorInv, DoorTypes, OneUse, Waits, Connection
<1>3. ChatInv
  <2>1. \A w \in Workers : request[w].pc = "idle"
    BY DEF Init, Idle
  <2>2. \A s \in Sockets, m \in Messages : got[s][m] = 0 /\ due[s] = {}
    BY DEF Init
  <2>3. ChatTypes
    BY DEF Init, ChatTypes, Job
  <2>4. Silence /\ Publishers
    BY <2>1 DEF Init, Silence, Publishers, At
  <2>5. NoticePerMessage /\ DeliveredOnce /\ RoomMissesNothing /\ MessagesNeedAcceptance
    BY <2>2 DEF Init, NoticePerMessage, DeliveredOnce, RoomMissesNothing,
       MessagesNeedAcceptance, Stored
  <2>6. QED
    BY <2>3, <2>4, <2>5 DEF ChatInv
<1>4. QED
  BY <1>1, <1>2, <1>3 DEF ConversationInv

\* What the parts of the invariant read.
LEMMA SameBooking == BookingInv /\ UNCHANGED booking => BookingInv'
BY DEF BookingInv, booking

LEMMA SameChat == ChatInv /\ UNCHANGED <<booking, chat>> => ChatInv'
BY DEF ChatInv, ChatTypes, Silence, NoticePerMessage, Publishers, DeliveredOnce,
   RoomMissesNothing, MessagesNeedAcceptance, booking, chat, Stored, At

LEMMA SameDoors == DoorInv /\ UNCHANGED doors => DoorInv'
BY DEF DoorInv, DoorTypes, OneUse, Waits, On, doors

\* A request goes on, writing nothing.
LEMMA ChatGoesOn ==
  ASSUME ChatInv, UNCHANGED <<booking, message, notices, got, due, lost>>,
         NEW w \in Workers, NEW j \in Job, request' = [request EXCEPT ![w] = j],
         j.pc # "publish", request[w].pc # "publish", j = Idle \/ accepted
  PROVE  ChatInv'
<1>1. request'[w] = j /\ \A v \in Workers : v # w => request'[v] = request[v]
  BY DEF ChatInv, ChatTypes
<1>2. \A v \in Workers : At(v, "publish")' <=> At(v, "publish")
  BY <1>1 DEF At
<1>3. \A v \in Workers : At(v, "publish") => request'[v] = request[v]
  BY <1>1 DEF At
<1>4. ChatTypes' /\ Silence'
  BY <1>1 DEF ChatInv, ChatTypes, Silence, booking
<1>5. Publishers'
  BY <1>2, <1>3 DEF ChatInv, Publishers, Stored
<1>6. RoomMissesNothing'
  BY <1>2, <1>3 DEF ChatInv, RoomMissesNothing
<1>7. NoticePerMessage' /\ DeliveredOnce' /\ MessagesNeedAcceptance'
  BY DEF ChatInv, NoticePerMessage, DeliveredOnce, MessagesNeedAcceptance, Stored, booking
<1>8. QED
  BY <1>4, <1>5, <1>6, <1>7 DEF ChatInv

\* Until they are accepted bookings have no request.
LEMMA Spoken == ASSUME ChatInv, NEW w \in Workers, request[w].pc # "idle" PROVE accepted
BY DEF ChatInv, Silence, Idle

LEMMA ChecksKeep ==
  ASSUME ChatInv, BookingInv, NEW w \in Workers,
         Look(w) \/ (\E m \in Messages : Check(w, m))
  PROVE  ChatInv'
<1>1. ASSUME NEW m \in Messages, Check(w, m)
      PROVE  ChatInv'
  <2>1. [pc |-> "look", message |-> m] \in Job /\ request[w].pc = "idle" /\ accepted
    BY <1>1 DEF Check, Job, Idle, ChatInv, Silence
  <2>2. QED
    BY <1>1, <2>1, ChatGoesOn DEF Check
<1>2. ASSUME Look(w)
      PROVE  ChatInv'
  <2>1. request[w].pc = "look" /\ request[w].message \in Messages /\ accepted
    BY <1>2, Jobs, Spoken DEF Look, At, ChatInv
  <2>2. Idle \in Job /\ Idle.pc = "idle" /\ [request[w] EXCEPT !.pc = "insert"] \in Job
        /\ [request[w] EXCEPT !.pc = "insert"].pc = "insert"
    BY <2>1 DEF Job, Idle, ChatInv, ChatTypes
  <2>3. \/ request' = [request EXCEPT ![w] = Idle]
        \/ request' = [request EXCEPT ![w] = [request[w] EXCEPT !.pc = "insert"]]
    BY <1>2 DEF Look, Leave, Goto
  <2>4. UNCHANGED <<booking, message, notices, got, due, lost>>
    BY <1>2 DEF Look
  <2>5. QED
    BY <2>1, <2>2, <2>3, <2>4, ChatGoesOn
<1>3. QED
  BY <1>1, <1>2

LEMMA InsertKeeps ==
  ASSUME ChatInv, DoorInv, DueInRoom, NEW w \in Workers, Insert(w)
  PROVE  ChatInv' /\ DueInRoom'
<1> DEFINE m == request[w].message
<1>1. m \in Messages /\ accepted /\ request[w].pc = "insert"
  BY Jobs, Spoken DEF Insert, At, ChatInv
<1>2. CASE Stored(m)
  <2>1. request' = [request EXCEPT ![w] = Idle] /\ UNCHANGED <<message, notices, due>>
        /\ UNCHANGED <<booking, got, lost, doors>>
    BY <1>2 DEF Insert, Leave
  <2>2. Idle \in Job /\ Idle.pc = "idle"
    BY DEF Job, Idle
  <2>3. ChatInv'
    BY <1>1, <2>1, <2>2, ChatGoesOn
  <2>4. QED
    BY <2>1, <2>3 DEF DueInRoom, doors
<1>3. CASE ~Stored(m)
  <2>1. /\ message' = [message EXCEPT ![m] = "unread"]
        /\ notices' = [notices EXCEPT ![m] = @ + 1]
        /\ due' = [s \in Sockets |-> IF s \in room THEN due[s] \cup {m} ELSE due[s]]
        /\ request' = [request EXCEPT ![w].pc = "publish"]
        /\ UNCHANGED <<booking, got, lost, doors>>
    BY <1>3 DEF Insert, Goto
  <2>2. message'[m] = "unread" /\ notices'[m] = 1
        /\ \A x \in Messages : x # m => message'[x] = message[x] /\ notices'[x] = notices[x]
    <3>1. notices[m] = 0
      BY <1>1, <1>3 DEF ChatInv, NoticePerMessage
    <3>2. QED
      BY <1>1, <2>1, <3>1 DEF ChatInv, ChatTypes
  <2>3. /\ request'[w].pc = "publish" /\ request'[w].message = m /\ request'[w] \in Job
        /\ \A v \in Workers : v # w => request'[v] = request[v]
    BY <1>1, <2>1 DEF ChatInv, ChatTypes, Job, Idle
  <2>4. ChatTypes'
    <3>1. message' \in [Messages -> {"none", "unread", "read"}] /\ notices' \in [Messages -> Nat]
      BY <1>1, <2>1 DEF ChatInv, ChatTypes
    <3>2. request' \in [Workers -> Job]
      BY <2>1, <2>3 DEF ChatInv, ChatTypes
    <3>3. due' \in [Sockets -> SUBSET Messages]
      BY <1>1, <2>1 DEF ChatInv, ChatTypes
    <3>4. QED
      BY <2>1, <3>1, <3>2, <3>3 DEF ChatInv, ChatTypes
  <2>5. \A s \in Sockets : got[s][m] = 0
    BY <1>1, <1>3 DEF ChatInv, ChatTypes, DeliveredOnce
  <2>6. \A v \in Workers : At(v, "publish") => request[v].message # m /\ v # w
    BY <1>1, <1>3 DEF ChatInv, Publishers, At
  <2>7. \A v \in Workers : v # w => (At(v, "publish")' <=> At(v, "publish"))
    BY <2>3 DEF At
  <2>8. Publishers'
    <3>1. ASSUME NEW v \in Workers, At(v, "publish")', v # w
          PROVE  /\ At(v, "publish") /\ request'[v] = request[v] /\ request[v].message # m
                 /\ request[v].message \in Messages
      BY <3>1, <2>3, <2>6, <2>7, Jobs DEF ChatInv, At
    <3>2. ASSUME NEW v \in Workers, At(v, "publish")'
          PROVE  /\ message'[request'[v].message] # "none"
                 /\ \A s \in Sockets : got'[s][request'[v].message] = 0
                 /\ \A x \in Workers : At(x, "publish")'
                      /\ request'[x].message = request'[v].message => x = v
      <4>1. CASE v = w
        BY <4>1, <2>1, <2>2, <2>3, <2>5, <3>1
      <4>2. CASE v # w
        <5>1. At(v, "publish") /\ request'[v] = request[v] /\ request[v].message # m
              /\ request[v].message \in Messages
          BY <3>1, <3>2, <4>2
        <5>2. message'[request[v].message] # "none"
          BY <5>1, <2>2 DEF ChatInv, Publishers, Stored
        <5>3. \A s \in Sockets : got'[s][request[v].message] = 0
          BY <5>1, <2>1 DEF ChatInv, Publishers
        <5>4. ASSUME NEW x \in Workers, At(x, "publish")', request'[x].message = request'[v].message
              PROVE  x = v
          BY <5>1, <5>4, <2>3, <3>1 DEF ChatInv, Publishers
        <5>5. QED
          BY <5>1, <5>2, <5>3, <5>4
      <4>3. QED
        BY <4>1, <4>2
    <3>3. QED
      BY <3>2 DEF Publishers, Stored
  <2>9. NoticePerMessage'
    BY <2>2 DEF ChatInv, NoticePerMessage, Stored
  <2>10. DeliveredOnce'
    <3>1. ASSUME NEW s \in Sockets, NEW x \in Messages
          PROVE  got'[s][x] <= IF message'[x] # "none" THEN 1 ELSE 0
      <4>1. got'[s][x] = got[s][x]
        BY <2>1
      <4>2. CASE x = m
        BY <4>1, <4>2, <2>2, <2>5
      <4>3. CASE x # m
        BY <4>1, <4>3, <2>2 DEF ChatInv, DeliveredOnce, Stored
      <4>4. QED
        BY <4>2, <4>3
    <3>2. QED
      BY <3>1 DEF DeliveredOnce, Stored
  <2>11. RoomMissesNothing'
    <3>1. ASSUME NEW s \in Sockets, NEW x \in due'[s] \ lost'
          PROVE  got'[s][x] > 0 \/ \E v \in Workers : At(v, "publish")' /\ request'[v].message = x
      <4>1. CASE x = m
        BY <4>1, <2>3 DEF At
      <4>2. CASE x # m
        <5>1. x \in due[s] \ lost
          BY <3>1, <4>2, <2>1
        <5>2. got[s][x] > 0 \/ \E v \in Workers : At(v, "publish") /\ request[v].message = x
          BY <5>1 DEF ChatInv, RoomMissesNothing
        <5>3. QED
          BY <5>2, <2>1, <2>3, <2>6, <2>7
      <4>3. QED
        BY <4>1, <4>2
    <3>2. QED
      BY <3>1 DEF RoomMissesNothing
  <2>12. Silence' /\ MessagesNeedAcceptance'
    BY <1>1, <2>1 DEF Silence, MessagesNeedAcceptance, booking
  <2>13. DueInRoom'
    BY <2>1 DEF DueInRoom, doors
  <2>14. QED
    BY <2>4, <2>8, <2>9, <2>10, <2>11, <2>12, <2>13 DEF ChatInv
<1>4. QED
  BY <1>2, <1>3

LEMMA PublishKeeps ==
  ASSUME ChatInv, DoorInv, DueInRoom, NEW w \in Workers, Publish(w)
  PROVE  ChatInv' /\ DueInRoom'
<1> DEFINE m == request[w].message
<1>1. m \in Messages /\ accepted /\ request[w].pc = "publish" /\ At(w, "publish")
  BY Jobs, Spoken DEF Publish, At, ChatInv
<1>2. /\ got' = [s \in Sockets |-> IF s \in room THEN [got[s] EXCEPT ![m] = @ + 1] ELSE got[s]]
      /\ request' = [request EXCEPT ![w] = Idle]
      /\ UNCHANGED <<booking, message, notices, due, lost, doors>>
  BY DEF Publish, Leave
<1>3. request'[w] = Idle /\ \A v \in Workers : v # w => request'[v] = request[v]
  BY <1>2 DEF ChatInv, ChatTypes
<1>4. \A v \in Workers : At(v, "publish")' =>
        v # w /\ At(v, "publish") /\ request'[v] = request[v] /\ request[v].message # m
  BY <1>1, <1>3 DEF At, Idle, ChatInv, Publishers
<1>5. /\ \A s \in Sockets, x \in Messages : x # m => got'[s][x] = got[s][x]
      /\ \A s \in Sockets : got[s][m] = 0 /\ got'[s][m] = IF s \in room THEN 1 ELSE 0
  <2>1. \A s \in Sockets : got[s][m] = 0 /\ got[s] \in [Messages -> Nat]
    BY <1>1 DEF ChatInv, ChatTypes, Publishers
  <2>2. QED
    BY <1>1, <1>2, <2>1
<1>6. ChatTypes'
  <2>1. got' \in [Sockets -> [Messages -> Nat]]
    BY <1>1, <1>2 DEF ChatInv, ChatTypes
  <2>2. request' \in [Workers -> Job]
    BY <1>2 DEF ChatInv, ChatTypes, Job
  <2>3. QED
    BY <1>2, <2>1, <2>2 DEF ChatInv, ChatTypes
<1>7. Publishers'
  <2>1. ASSUME NEW v \in Workers, At(v, "publish")'
        PROVE  /\ message'[request'[v].message] # "none"
               /\ \A s \in Sockets : got'[s][request'[v].message] = 0
               /\ \A x \in Workers : At(x, "publish")'
                    /\ request'[x].message = request'[v].message => x = v
    <3>1. v # w /\ At(v, "publish") /\ request'[v] = request[v] /\ request[v].message # m
      BY <1>4, <2>1
    <3>2. request[v].message \in Messages
      BY <3>1, Jobs DEF ChatInv, At
    <3>3. message'[request[v].message] # "none"
          /\ \A s \in Sockets : got[s][request[v].message] = 0
      BY <3>1, <1>2 DEF ChatInv, Publishers, Stored
    <3>4. \A s \in Sockets : got'[s][request[v].message] = 0
      BY <3>1, <3>2, <3>3, <1>5
    <3>5. ASSUME NEW x \in Workers, At(x, "publish")', request'[x].message = request'[v].message
          PROVE  x = v
      BY <3>1, <3>5, <1>4 DEF ChatInv, Publishers
    <3>6. QED
      BY <3>1, <3>3, <3>4, <3>5
  <2>2. QED
    BY <2>1 DEF Publishers, Stored
<1>8. DeliveredOnce'
  <2>1. Stored(m) /\ message' = message
    BY <1>1, <1>2 DEF ChatInv, Publishers
  <2>2. ASSUME NEW s \in Sockets, NEW x \in Messages
        PROVE  got'[s][x] <= IF message'[x] # "none" THEN 1 ELSE 0
    <3>1. CASE x = m
      BY <3>1, <2>1, <1>5 DEF Stored
    <3>2. CASE x # m
      BY <3>2, <2>1, <1>5 DEF ChatInv, DeliveredOnce, Stored
    <3>3. QED
      BY <3>1, <3>2
  <2>3. QED
    BY <2>2 DEF DeliveredOnce, Stored
<1>9. RoomMissesNothing'
  <2>1. ASSUME NEW s \in Sockets, NEW x \in due'[s] \ lost'
        PROVE  got'[s][x] > 0 \/ \E v \in Workers : At(v, "publish")' /\ request'[v].message = x
    <3>1. x \in due[s] \ lost /\ s \in room /\ x \in Messages
      BY <2>1, <1>2 DEF DueInRoom, ChatInv, ChatTypes
    <3>2. CASE x = m
      BY <3>1, <3>2, <1>5
    <3>3. CASE x # m
      <4>1. got[s][x] > 0 \/ \E v \in Workers : At(v, "publish") /\ request[v].message = x
        BY <3>1 DEF ChatInv, RoomMissesNothing
      <4>2. CASE got[s][x] > 0
        BY <4>2, <3>1, <3>3, <1>5
      <4>3. CASE \E v \in Workers : At(v, "publish") /\ request[v].message = x
        BY <4>3, <3>3, <1>3 DEF At
      <4>4. QED
        BY <4>1, <4>2, <4>3
    <3>4. QED
      BY <3>2, <3>3
  <2>2. QED
    BY <2>1 DEF RoomMissesNothing
<1>10. Silence' /\ MessagesNeedAcceptance' /\ NoticePerMessage' /\ DueInRoom'
  BY <1>1, <1>2 DEF Silence, MessagesNeedAcceptance, NoticePerMessage, DueInRoom, Stored, booking,
     doors, ChatInv
<1>11. QED
  BY <1>6, <1>7, <1>8, <1>9, <1>10 DEF ChatInv

\* Requests that die, and what sockets have that leave: the rest is still right.
LEMMA LossKeeps ==
  ASSUME ChatInv, UNCHANGED <<booking, message, notices>>,
         NEW gone \in SUBSET Workers, NEW off \in SUBSET Sockets,
         request' = [w \in Workers |-> IF w \in gone THEN Idle ELSE request[w]],
         lost' = lost \cup {request[w].message : w \in {v \in gone : At(v, "publish")}},
         \A s \in Sockets : s \notin off => got'[s] = got[s] /\ due'[s] = due[s],
         \A s \in off : got'[s] = got[s] \/ got'[s] = [m \in Messages |-> 0],
         \A s \in off : due'[s] = {},
         got' \in [Sockets -> [Messages -> Nat]], due' \in [Sockets -> SUBSET Messages]
  PROVE  ChatInv'
<1>1. \A w \in Workers : request'[w] = IF w \in gone THEN Idle ELSE request[w]
  OBVIOUS
<1>2. \A w \in Workers : At(w, "publish")' =>
        At(w, "publish") /\ w \notin gone /\ request'[w] = request[w]
  BY <1>1 DEF At, Idle
<1>3. ASSUME NEW s \in Sockets, NEW m \in Messages
      PROVE  got'[s][m] = got[s][m] \/ got'[s][m] = 0
  <2>1. CASE s \in off
    BY <2>1
  <2>2. CASE s \notin off
    BY <2>2
  <2>3. QED
    BY <2>1, <2>2
<1>4. ChatTypes'
  <2>1. {request[w].message : w \in {v \in gone : At(v, "publish")}} \subseteq Messages
    BY Jobs DEF At, ChatInv
  <2>2. request' \in [Workers -> Job]
    BY DEF ChatInv, ChatTypes, Job
  <2>3. QED
    BY <2>1, <2>2 DEF ChatInv, ChatTypes
<1>5. Publishers'
  <2>1. ASSUME NEW w \in Workers, At(w, "publish")'
        PROVE  /\ message'[request'[w].message] # "none"
               /\ \A s \in Sockets : got'[s][request'[w].message] = 0
               /\ \A v \in Workers : At(v, "publish")'
                    /\ request'[v].message = request'[w].message => v = w
    <3>1. At(w, "publish") /\ request'[w] = request[w] /\ request[w].message \in Messages
      BY <2>1, <1>2, Jobs DEF ChatInv, At
    <3>2. message[request[w].message] # "none"
          /\ \A s \in Sockets : got[s][request[w].message] = 0
      BY <3>1 DEF ChatInv, Publishers, Stored
    <3>3. \A s \in Sockets : got'[s][request[w].message] = 0
      BY <3>1, <3>2, <1>3
    <3>4. ASSUME NEW v \in Workers, At(v, "publish")', request'[v].message = request'[w].message
          PROVE  v = w
      BY <3>1, <3>4, <1>2 DEF ChatInv, Publishers
    <3>5. QED
      BY <3>1, <3>2, <3>3, <3>4
  <2>2. QED
    BY <2>1 DEF Publishers, Stored
<1>6. DeliveredOnce'
  <2>1. ASSUME NEW s \in Sockets, NEW m \in Messages
        PROVE  got'[s][m] <= IF message'[m] # "none" THEN 1 ELSE 0
    <3>1. got[s][m] <= IF message[m] # "none" THEN 1 ELSE 0
      BY DEF ChatInv, DeliveredOnce, Stored
    <3>2. QED
      BY <3>1, <1>3
  <2>2. QED
    BY <2>1 DEF DeliveredOnce, Stored
<1>7. RoomMissesNothing'
  <2>1. ASSUME NEW s \in Sockets, NEW m \in due'[s] \ lost'
        PROVE  got'[s][m] > 0 \/ \E w \in Workers : At(w, "publish")' /\ request'[w].message = m
    <3>1. s \notin off /\ got'[s] = got[s] /\ m \in due[s] \ lost
      BY <2>1
    <3>2. got[s][m] > 0 \/ \E w \in Workers : At(w, "publish") /\ request[w].message = m
      BY <3>1 DEF ChatInv, RoomMissesNothing
    <3>3. ASSUME NEW w \in Workers, At(w, "publish"), request[w].message = m
          PROVE  At(w, "publish")' /\ request'[w].message = m
      <4>1. w \notin gone
        BY <2>1, <3>3
      <4>2. QED
        BY <4>1, <1>1, <3>3 DEF At
    <3>4. QED
      BY <3>1, <3>2, <3>3
  <2>2. QED
    BY <2>1 DEF RoomMissesNothing
<1>8. Silence'
  BY <1>1 DEF ChatInv, Silence, booking
<1>9. NoticePerMessage' /\ MessagesNeedAcceptance'
  BY <1>3 DEF ChatInv, NoticePerMessage, MessagesNeedAcceptance, Stored, booking
<1>10. QED
  BY <1>4, <1>5, <1>6, <1>7, <1>8, <1>9 DEF ChatInv

LEMMA FailKeeps ==
  ASSUME ChatInv, NEW w \in Workers, Fail(w)
  PROVE  ChatInv'
<1>1. /\ request' = [request EXCEPT ![w] = Idle] /\ UNCHANGED <<booking, message, notices, got, due>>
      /\ lost' = IF At(w, "publish") THEN lost \cup {request[w].message} ELSE lost
  BY DEF Fail, Leave
<1>2. request' = [v \in Workers |-> IF v \in {w} THEN Idle ELSE request[v]]
  BY <1>1 DEF ChatInv, ChatTypes
<1>3. lost' = lost \cup {request[x].message : x \in {v \in {w} : At(v, "publish")}}
  BY <1>1
<1>4. \A s \in Sockets : got'[s] = got[s] /\ due'[s] = due[s]
  BY <1>1
<1>5. got' \in [Sockets -> [Messages -> Nat]] /\ due' \in [Sockets -> SUBSET Messages]
  BY <1>1 DEF ChatInv, ChatTypes
<1>6. {w} \in SUBSET Workers /\ {} \in SUBSET Sockets
  OBVIOUS
<1>7. QED
  BY <1>1, <1>2, <1>3, <1>4, <1>5, <1>6, LossKeeps

LEMMA MarkReadKeeps ==
  ASSUME ChatInv, NEW s \in Sockets, MarkRead(s)
  PROVE  ChatInv'
<1>1. /\ message' = [m \in Messages |-> IF message[m] = "unread" /\ Sender[m] # User(s)
                                       THEN "read" ELSE message[m]]
      /\ UNCHANGED <<booking, notices, request, got, due, lost>>
  BY DEF MarkRead
<1>2. \A m \in Messages : /\ message'[m] \in {"none", "unread", "read"}
                          /\ message'[m] # "none" <=> message[m] # "none"
  BY <1>1 DEF ChatInv, ChatTypes
<1>3. ChatTypes'
  <2>1. message' \in [Messages -> {"none", "unread", "read"}]
    BY <1>1, <1>2
  <2>2. QED
    BY <1>1, <2>1 DEF ChatInv, ChatTypes
<1>4. Publishers'
  <2>1. \A w \in Workers : At(w, "publish") => request[w].message \in Messages
    BY Jobs DEF ChatInv, At
  <2>2. QED
    BY <1>1, <1>2, <2>1 DEF ChatInv, Publishers, Stored, At
<1>5. DeliveredOnce'
  BY <1>1, <1>2 DEF ChatInv, DeliveredOnce, Stored
<1>6. NoticePerMessage' /\ MessagesNeedAcceptance'
  BY <1>1, <1>2 DEF ChatInv, NoticePerMessage, MessagesNeedAcceptance, Stored, booking
<1>7. Silence' /\ RoomMissesNothing'
  BY <1>1 DEF ChatInv, Silence, RoomMissesNothing, At, booking
<1>8. QED
  BY <1>3, <1>4, <1>5, <1>6, <1>7 DEF ChatInv

LEMMA DecideKeeps ==
  ASSUME ChatInv, BookingInv, NEW to \in Statuses, Decide(to)
  PROVE  ChatInv' /\ BookingInv'
<1>1. /\ status' = to /\ (to = "completed" => accepted)
      /\ accepted' = (accepted \/ to = "confirmed") /\ UNCHANGED chat
  BY DEF Decide
<1>2. BookingInv'
  BY <1>1 DEF BookingInv
<1>3. Silence' /\ MessagesNeedAcceptance'
  BY <1>1 DEF ChatInv, Silence, MessagesNeedAcceptance, Stored, chat
<1>4. ChatTypes' /\ NoticePerMessage' /\ Publishers' /\ DeliveredOnce' /\ RoomMissesNothing'
  BY <1>1 DEF ChatInv, ChatTypes, NoticePerMessage, Publishers, DeliveredOnce, RoomMissesNothing,
     Stored, At, chat
<1>5. QED
  BY <1>2, <1>3, <1>4 DEF ChatInv

\* The doors ---------------------------------------------------------------

LEMMA Connections ==
  ASSUME DoorTypes, NEW s \in Sockets
  PROVE  /\ Off.pc = "off"
         /\ socket[s].pc # "off" => socket[s] \in [pc : {"verify", "user", "on"}, ticket : Tickets]
BY DEF DoorTypes, Connection, Off

\* A socket that goes on, or off, as its ticket allows.
LEMMA SocketGoesOn ==
  ASSUME DoorTypes, OneUse, NEW s \in Sockets, NEW c \in Connection,
         socket' = [socket EXCEPT ![s] = c], DoorTypes',
         c.pc # "user",
         UNCHANGED entered,
         \A t \in Tickets : ticket'[t] = ticket[t] \/ ticket'[t] = "gone"
  PROVE  OneUse'
<1>1. \A r \in Sockets, t \in Tickets : (socket'[r].pc = "user" /\ socket'[r].ticket = t) =>
        r # s /\ Waits(r, t)
  BY DEF DoorTypes, Waits
<1>2. QED
  BY <1>1 DEF OneUse, Waits

LEMMA DoorsKeep ==
  ASSUME DoorInv, NEW s \in Sockets,
         (\E t \in Tickets : Connect(s, t)) \/ Consume(s) \/ Admit(s) \/ Disconnect(s)
  PROVE  DoorInv'
<1>1. ASSUME NEW t \in Tickets, Connect(s, t)
      PROVE  DoorInv'
  <2> DEFINE c == [pc |-> "verify", ticket |-> t]
  <2>1. c \in Connection /\ c.pc = "verify"
    BY DEF Connection
  <2>2. socket' = [socket EXCEPT ![s] = c] /\ UNCHANGED <<ticket, joining, room, entered>>
        /\ socket[s].pc = "off"
    BY <1>1 DEF Connect, Off
  <2>3. DoorTypes'
    BY <2>1, <2>2 DEF DoorInv, DoorTypes, On
  <2>4. OneUse'
    BY <2>1, <2>2, <2>3, SocketGoesOn DEF DoorInv
  <2>5. QED
    BY <2>3, <2>4 DEF DoorInv
<1>2. ASSUME Consume(s)
      PROVE  DoorInv'
  <2>1. PICK t \in Tickets : t = socket[s].ticket /\ socket[s].pc = "verify"
                            /\ socket[s] \in [pc : {"verify", "user", "on"}, ticket : Tickets]
    BY <1>2, Connections DEF Consume, DoorInv
  <2>2. ticket' = [ticket EXCEPT ![t] = "gone"] /\ UNCHANGED <<joining, room, entered>>
    BY <1>2, <2>1 DEF Consume
  <2>3. CASE ticket[t] # "valid"
    <3>1. socket' = [socket EXCEPT ![s] = Off]
      BY <1>2, <2>1, <2>3 DEF Consume
    <3>2. Off \in Connection /\ Off.pc = "off"
      BY DEF Connection, Off
    <3>3. DoorTypes'
      BY <2>1, <2>2, <3>1, <3>2 DEF DoorInv, DoorTypes, On
    <3>4. OneUse'
      BY <2>2, <3>1, <3>2, <3>3, SocketGoesOn DEF DoorInv, DoorTypes
    <3>5. QED
      BY <3>3, <3>4 DEF DoorInv
  <2>4. CASE ticket[t] = "valid"
    <3>1. socket' = [socket EXCEPT ![s].pc = "user"]
      BY <1>2, <2>1, <2>4 DEF Consume
    <3>2. /\ socket'[s] \in Connection /\ socket'[s].pc = "user" /\ socket'[s].ticket = t
          /\ \A r \in Sockets : r # s => socket'[r] = socket[r]
      BY <2>1, <3>1 DEF DoorInv, DoorTypes, Connection
    <3>3. DoorTypes'
      BY <2>1, <2>2, <3>1, <3>2 DEF DoorInv, DoorTypes, On
    <3>4. entered[t] = 0 /\ \A r \in Sockets : ~Waits(r, t)
      BY <2>4 DEF DoorInv, OneUse
    <3>5. OneUse'
      <4>1. ticket'[t] = "gone" /\ \A x \in Tickets : x # t => ticket'[x] = ticket[x]
        BY <2>2 DEF DoorInv, DoorTypes
      <4>2. \A r \in Sockets, x \in Tickets : (socket'[r].pc = "user" /\ socket'[r].ticket = x) <=>
              (r = s /\ x = t) \/ (r # s /\ x # t /\ Waits(r, x))
        BY <2>1, <3>2, <3>4 DEF Waits
      <4>3. \A r \in Sockets, x \in Tickets : x # t =>
              ((socket'[r].pc = "user" /\ socket'[r].ticket = x) <=> Waits(r, x))
        BY <2>1, <4>2 DEF Waits
      <4>4. QED
        BY <2>2, <3>4, <4>1, <4>2, <4>3 DEF DoorInv, OneUse, Waits
    <3>6. QED
      BY <3>3, <3>5 DEF DoorInv
  <2>5. QED
    BY <2>3, <2>4
<1>3. ASSUME Admit(s)
      PROVE  DoorInv'
  <2>1. PICK t \in Tickets : t = socket[s].ticket /\ socket[s].pc = "user"
                            /\ socket[s] \in [pc : {"verify", "user", "on"}, ticket : Tickets]
    BY <1>3, Connections DEF Admit, DoorInv
  <2>2. /\ socket' = [socket EXCEPT ![s].pc = "on"] /\ entered' = [entered EXCEPT ![t] = @ + 1]
        /\ UNCHANGED <<ticket, joining, room>>
    BY <1>3, <2>1 DEF Admit
  <2>3. /\ socket'[s] \in Connection /\ socket'[s].pc = "on"
        /\ \A r \in Sockets : r # s => socket'[r] = socket[r]
    BY <2>1, <2>2 DEF DoorInv, DoorTypes, Connection
  <2>4. DoorTypes'
    BY <2>1, <2>2, <2>3 DEF DoorInv, DoorTypes, On
  <2>5. Waits(s, t) /\ entered[t] = 0 /\ ticket[t] = "gone" /\ \A r \in Sockets : Waits(r, t) => r = s
    BY <2>1 DEF Waits, DoorInv, OneUse, DoorTypes
  <2>6. /\ entered'[t] = 1
        /\ \A x \in Tickets : x # t => entered'[x] = entered[x]
    BY <2>2, <2>5 DEF DoorInv, DoorTypes
  <2>7. OneUse'
    <3>1. \A r \in Sockets, x \in Tickets :
            (socket'[r].pc = "user" /\ socket'[r].ticket = x) => x # t /\ r # s /\ Waits(r, x)
      BY <2>3, <2>5 DEF Waits
    <3>2. QED
      BY <2>2, <2>5, <2>6, <3>1 DEF DoorInv, OneUse, Waits
  <2>8. QED
    BY <2>4, <2>7 DEF DoorInv
<1>4. ASSUME Disconnect(s)
      PROVE  DoorInv'
  <2>1. /\ socket' = [socket EXCEPT ![s] = Off] /\ joining' = joining \ {s} /\ room' = room \ {s}
        /\ UNCHANGED <<ticket, entered>>
    BY <1>4 DEF Disconnect
  <2>2. Off \in Connection /\ Off.pc = "off"
    BY DEF Connection, Off
  <2>3. DoorTypes'
    BY <2>1, <2>2 DEF DoorInv, DoorTypes, On
  <2>4. OneUse'
    BY <2>1, <2>2, <2>3, SocketGoesOn DEF DoorInv
  <2>5. QED
    BY <2>3, <2>4 DEF DoorInv
<1>5. QED
  BY <1>1, <1>2, <1>3, <1>4

LEMMA RoomKeeps ==
  ASSUME DoorInv, UNCHANGED <<ticket, socket, entered>>,
         joining' \cup room' \subseteq {s \in Sockets : On(s)}
  PROVE  DoorInv'
BY DEF DoorInv, DoorTypes, OneUse, Waits, On

LEMMA TicketsKeep ==
  ASSUME DoorInv, NEW t \in Tickets, Issue(t) \/ Expire(t)
  PROVE  DoorInv'
<1>1. PICK to \in {"valid", "gone"} : ticket' = [ticket EXCEPT ![t] = to] /\ ticket[t] # "gone"
                                   /\ UNCHANGED <<socket, joining, room, entered>>
  BY DEF Issue, Expire
<1>2. DoorTypes'
  BY <1>1 DEF DoorInv, DoorTypes, On
<1>3. OneUse'
  BY <1>1 DEF DoorInv, DoorTypes, OneUse, Waits
<1>4. QED
  BY <1>2, <1>3 DEF DoorInv

\* Both sides --------------------------------------------------------------

LEMMA DisconnectKeeps ==
  ASSUME ConversationInv, NEW s \in Sockets, Disconnect(s) \/ LeaveBooking(s)
  PROVE  ChatInv' /\ DueInRoom'
<1>1. /\ UNCHANGED <<booking, message, notices, request, lost>> /\ room' = room \ {s}
      /\ got' = [got EXCEPT ![s] = [m \in Messages |-> 0]] \/ got' = got
      /\ due' = [due EXCEPT ![s] = {}]
  BY DEF Disconnect, LeaveBooking
<1>2. /\ \A r \in Sockets : r \notin {s} => got'[r] = got[r] /\ due'[r] = due[r]
      /\ \A r \in {s} : got'[r] = got[r] \/ got'[r] = [m \in Messages |-> 0]
      /\ \A r \in {s} : due'[r] = {}
      /\ got' \in [Sockets -> [Messages -> Nat]] /\ due' \in [Sockets -> SUBSET Messages]
  BY <1>1 DEF ConversationInv, ChatInv, ChatTypes
<1>3. request' = [w \in Workers |-> IF w \in {} THEN Idle ELSE request[w]]
  BY <1>1 DEF ConversationInv, ChatInv, ChatTypes
<1>4. lost' = lost \cup {request[w].message : w \in {v \in {} : At(v, "publish")}}
  BY <1>1
<1>5. ChatInv /\ {} \in SUBSET Workers /\ {s} \in SUBSET Sockets
  BY DEF ConversationInv
<1>6. ChatInv'
  <2>1. UNCHANGED <<booking, message, notices>>
    BY <1>1
  <2>2. \A r \in Sockets : r \notin {s} => got'[r] = got[r] /\ due'[r] = due[r]
    BY <1>2
  <2>3. \A r \in {s} : got'[r] = got[r] \/ got'[r] = [m \in Messages |-> 0]
    BY <1>2
  <2>4. \A r \in {s} : due'[r] = {}
    BY <1>2
  <2>5. got' \in [Sockets -> [Messages -> Nat]] /\ due' \in [Sockets -> SUBSET Messages]
    BY <1>2
  <2>6. QED
    BY <1>3, <1>4, <1>5, <2>1, <2>2, <2>3, <2>4, <2>5, LossKeeps
<1>7. DueInRoom'
  BY <1>1, <1>2 DEF ConversationInv, DueInRoom
<1>8. QED
  BY <1>6, <1>7

LEMMA RestartKeeps ==
  ASSUME ConversationInv, Restart
  PROVE  ConversationInv'
<1>1. /\ request' = [w \in Workers |-> Idle]
      /\ lost' = lost \cup {request[w].message : w \in {v \in Workers : At(v, "publish")}}
      /\ ticket' = [t \in Tickets |-> IF ticket[t] = "new" THEN "new" ELSE "gone"]
      /\ socket' = [s \in Sockets |-> Off] /\ joining' = {} /\ room' = {}
      /\ got' = [s \in Sockets |-> [m \in Messages |-> 0]] /\ due' = [s \in Sockets |-> {}]
      /\ UNCHANGED <<booking, message, notices, entered>>
  BY DEF Restart
<1>2. request' = [w \in Workers |-> IF w \in Workers THEN Idle ELSE request[w]]
  BY <1>1
<1>3. ChatInv
  BY DEF ConversationInv
<1>4. ChatInv'
  <2>1. \A s \in Sockets : s \notin Sockets => got'[s] = got[s] /\ due'[s] = due[s]
    OBVIOUS
  <2>2. \A s \in Sockets : got'[s] = [m \in Messages |-> 0] /\ due'[s] = {}
    BY <1>1
  <2>3. got' \in [Sockets -> [Messages -> Nat]] /\ due' \in [Sockets -> SUBSET Messages]
    BY <1>1
  <2>4. Workers \in SUBSET Workers /\ Sockets \in SUBSET Sockets
    OBVIOUS
  <2>5. QED
    BY <1>1, <1>2, <1>3, <2>1, <2>2, <2>3, <2>4, LossKeeps
<1>5. DoorInv'
  <2>1. \A s \in Sockets : socket'[s] = Off /\ socket'[s].pc = "off"
    BY <1>1 DEF Off
  <2>2. DoorTypes'
    BY <1>1, <2>1 DEF ConversationInv, DoorInv, DoorTypes, Connection, On
  <2>3. OneUse'
    BY <1>1, <2>1 DEF ConversationInv, DoorInv, DoorTypes, OneUse, Waits
  <2>4. QED
    BY <2>2, <2>3 DEF DoorInv
<1>6. BookingInv' /\ DueInRoom'
  BY <1>1 DEF ConversationInv, BookingInv, DueInRoom, booking
<1>7. QED
  BY <1>4, <1>5, <1>6 DEF ConversationInv

LEMMA ConversationInvNext == ConversationInv /\ [Next]_vars => ConversationInv'
<1> SUFFICES ASSUME ConversationInv, [Next]_vars PROVE ConversationInv'
  OBVIOUS
<1>1. BookingInv /\ ChatInv /\ DoorInv /\ DueInRoom
  BY DEF ConversationInv
<1>2. ASSUME NEW w \in Workers, Post(w)
      PROVE  ConversationInv'
  <2>1. UNCHANGED booking /\ UNCHANGED doors
    BY <1>2 DEF Post, Check, Look, Insert, Publish, Fail
  <2>2. BookingInv' /\ DoorInv'
    BY <2>1, <1>1, SameBooking, SameDoors
  <2>3. CASE Look(w) \/ (\E m \in Messages : Check(w, m)) \/ Fail(w)
    <3>1. ChatInv'
      BY <2>3, <1>1, ChecksKeep, FailKeeps
    <3>2. DueInRoom'
      BY <2>1, <2>3, <1>1 DEF DueInRoom, doors, Look, Check, Fail
    <3>3. QED
      BY <2>2, <3>1, <3>2 DEF ConversationInv
  <2>4. CASE Insert(w) \/ Publish(w)
    <3>1. ChatInv' /\ DueInRoom'
      BY <2>4, <1>1, InsertKeeps, PublishKeeps
    <3>2. QED
      BY <2>2, <3>1 DEF ConversationInv
  <2>5. QED
    BY <1>2, <2>3, <2>4 DEF Post
<1>3. ASSUME NEW s \in Sockets, Disconnect(s) \/ LeaveBooking(s)
      PROVE  ConversationInv'
  <2>1. UNCHANGED booking
    BY <1>3 DEF Disconnect, LeaveBooking
  <2>2. DoorInv'
    <3>1. CASE Disconnect(s)
      BY <3>1, <1>1, DoorsKeep
    <3>2. CASE LeaveBooking(s)
      <4>1. UNCHANGED <<ticket, socket, entered, joining>> /\ room' = room \ {s}
        BY <3>2 DEF LeaveBooking
      <4>2. joining' \cup room' \subseteq {r \in Sockets : On(r)}
        BY <4>1, <1>1 DEF DoorInv, DoorTypes
      <4>3. QED
        BY <1>1, <4>1, <4>2, RoomKeeps
    <3>3. QED
      BY <1>3, <3>1, <3>2
  <2>3. BookingInv'
    BY <2>1, <1>1, SameBooking
  <2>4. ChatInv' /\ DueInRoom'
    BY <1>3, DisconnectKeeps
  <2>5. QED
    BY <2>2, <2>3, <2>4 DEF ConversationInv
<1>4. ASSUME UNCHANGED <<booking, chat>>, room \subseteq room', DoorInv'
      PROVE  ConversationInv'
  <2>1. DueInRoom'
    BY <1>1, <1>4 DEF DueInRoom, chat
  <2>2. QED
    BY <1>1, <1>4, <2>1, SameBooking, SameChat DEF ConversationInv
<1>5. ASSUME NEW s \in Sockets, (\E t \in Tickets : Connect(s, t)) \/ Consume(s) \/ Admit(s)
      PROVE  ConversationInv'
  <2>1. UNCHANGED <<booking, chat>> /\ room' = room
    BY <1>5 DEF Connect, Consume, Admit
  <2>2. DoorInv'
    BY <1>1, <1>5, DoorsKeep
  <2>3. QED
    BY <2>1, <2>2, <1>4
<1>6. ASSUME NEW s \in Sockets, Join(s) \/ Joined(s)
      PROVE  ConversationInv'
  <2>1. UNCHANGED <<booking, chat, ticket, socket, entered>> /\ room \subseteq room'
        /\ joining' \cup room' \subseteq joining \cup room \cup {s} /\ (On(s) \/ s \in joining)
    BY <1>6 DEF Join, Joined
  <2>2. joining' \cup room' \subseteq {r \in Sockets : On(r)}
    BY <2>1, <1>1 DEF DoorInv, DoorTypes
  <2>3. DoorInv'
    BY <2>1, <2>2, <1>1, RoomKeeps
  <2>4. QED
    BY <2>1, <2>3, <1>4
<1>7. ASSUME NEW s \in Sockets, MarkRead(s)
      PROVE  ConversationInv'
  <2>1. UNCHANGED booking /\ UNCHANGED doors /\ UNCHANGED due
    BY <1>7 DEF MarkRead
  <2>2. ChatInv'
    BY <1>1, <1>7, MarkReadKeeps
  <2>3. BookingInv' /\ DoorInv'
    BY <1>1, <2>1, SameBooking, SameDoors
  <2>4. DueInRoom'
    BY <1>1, <2>1 DEF DueInRoom, doors
  <2>5. QED
    BY <2>2, <2>3, <2>4 DEF ConversationInv
<1>8. ASSUME NEW t \in Tickets, Issue(t) \/ Expire(t)
      PROVE  ConversationInv'
  <2>1. UNCHANGED <<booking, chat>> /\ room' = room
    BY <1>8 DEF Issue, Expire
  <2>2. DoorInv'
    BY <1>1, <1>8, TicketsKeep
  <2>3. QED
    BY <2>1, <2>2, <1>4
<1>9. ASSUME NEW to \in Statuses, Decide(to)
      PROVE  ConversationInv'
  <2>1. UNCHANGED doors /\ UNCHANGED chat
    BY <1>9 DEF Decide
  <2>2. ChatInv' /\ BookingInv'
    BY <1>1, <1>9, DecideKeeps
  <2>3. DoorInv' /\ DueInRoom'
    BY <1>1, <2>1, SameDoors DEF DueInRoom, doors, chat
  <2>4. QED
    BY <2>2, <2>3 DEF ConversationInv
<1>10. ASSUME UNCHANGED vars
       PROVE  ConversationInv'
  <2>1. UNCHANGED <<booking, chat>> /\ UNCHANGED doors
    BY <1>10 DEF vars, booking, chat, doors
  <2>2. DoorInv'
    BY <1>1, <2>1, SameDoors
  <2>3. QED
    BY <2>1, <2>2, <1>4 DEF doors
<1>11. QED
  BY <1>2, <1>3, <1>5, <1>6, <1>7, <1>8, <1>9, <1>10, RestartKeeps DEF Next, Door, Event

(***************************************************************************)
(* Theorems                                                                *)
(***************************************************************************)

\* Whatever requests, sockets, decisions and restarts come in whatever order, the
\* chat keeps its invariant (MessagesService, ChatGateway, AuthService).
THEOREM InvariantTheorem == Spec => []ConversationInv
<1>1. Init => ConversationInv
  BY ConversationInvInit
<1>2. ConversationInv /\ [Next]_vars => ConversationInv'
  BY ConversationInvNext
<1>3. QED
  BY <1>1, <1>2, PTL DEF Spec

\* The tables, the memory of the process and the histories have their types.
THEOREM TypeCorrect == Spec => []TypeOK
<1>1. ConversationInv => TypeOK
  BY DEF ConversationInv, BookingInv, ChatInv, ChatTypes, DoorInv, DoorTypes, TypeOK
<1>2. QED
  BY <1>1, InvariantTheorem, PTL

\* One notification for every message that is stored (MessagesService.create).
THEOREM NoticeTheorem == Spec => []NoticePerMessage
<1>1. ConversationInv => NoticePerMessage
  BY DEF ConversationInv, ChatInv
<1>2. QED
  BY <1>1, InvariantTheorem, PTL

\* No socket is sent a message twice (MessagesController.create).
THEOREM DeliveryTheorem == Spec => []DeliveredOnce
<1>1. ConversationInv => DeliveredOnce
  BY DEF ConversationInv, ChatInv
<1>2. QED
  BY <1>1, InvariantTheorem, PTL

\* A room is sent every message whose request lives (ChatGateway.publishNewMessage).
THEOREM RoomTheorem == Spec => []RoomMissesNothing
<1>1. ConversationInv => RoomMissesNothing
  BY DEF ConversationInv, ChatInv
<1>2. QED
  BY <1>1, InvariantTheorem, PTL

\* A ticket lets in one socket (AuthService.consumeSocketTicket).
THEOREM TicketTheorem == Spec => []TicketOpensOneSocket
<1>1. ConversationInv => TicketOpensOneSocket
  BY DEF ConversationInv, DoorInv, OneUse, TicketOpensOneSocket
<1>2. QED
  BY <1>1, InvariantTheorem, PTL

\* No message in a booking that was never accepted (MessagesService.create).
THEOREM AcceptanceTheorem == Spec => []MessagesNeedAcceptance
<1>1. ConversationInv => MessagesNeedAcceptance
  BY DEF ConversationInv, ChatInv
<1>2. QED
  BY <1>1, InvariantTheorem, PTL
===============================================================================
