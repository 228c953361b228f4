--------------------------- MODULE BackofficeProofs ---------------------------
(***************************************************************************)
(* Theorems about the accounts, the reports and the notifications, for any *)
(* number of users, admins, rows and requests in flight.                   *)
(***************************************************************************)
EXTENDS Backoffice, FiniteSetTheorems, WellFoundedInduction, TLAPS

(***************************************************************************)
(* Accounts                                                                *)
(***************************************************************************)

UserRow == [email : [address : Addresses, spelling : {Plain}], role : Roles, name : Names,
            verified : BOOLEAN]
AddressOf(email) == email \in [address : Addresses, spelling : {Plain}]

AccountTypes ==
  /\ user \in [UserIds -> {NoUser} \cup UserRow]
  /\ job \in [Workers -> {Idle} \cup RegisterJob \cup ChangeJob \cup Conflict]
  /\ \A w \in Workers : ~Ready(w) => AddressOf(job[w].email)
  /\ \A w \in Workers : At(w, "look") \/ At(w, "write") => user[job[w].id] # NoUser

NoSharedAddress == \A a, b \in Known : user[a].email = user[b].email => a = b

\* Whoever holds an address that a request wants is remembered.
HeldIsKnown ==
  \A w \in Workers :
    /\ At(w, "insert") /\ Holders(job[w].email) # {} => job[w].held
    /\ At(w, "look") \/ At(w, "write") =>
         (Holders(job[w].email) \ {job[w].id} # {} => job[w].held)

\* The inductive invariant of the accounts.
AccountsInv == AccountTypes /\ NoSharedAddress /\ HeldIsKnown /\ RefusalHasReason

\* A row is not the absence of one, and no request is idle or refused while it runs.
LEMMA UserRows ==
  /\ NoUser \notin UserRow
  /\ Idle.pc = "idle"
BY DEF NoUser, UserRow, Idle

\* What a request at a program point is doing.
LEMMA AccountJobAt ==
  ASSUME AccountTypes, NEW w \in Workers
  PROVE  /\ At(w, "insert") => job[w] \in RegisterJob /\ ~Ready(w)
         /\ At(w, "look") \/ At(w, "write") => job[w] \in ChangeJob /\ ~Ready(w)
         /\ At(w, "conflict") => job[w] \in Conflict
         /\ ~Ready(w) => job[w] \in RegisterJob \cup ChangeJob
BY DEF AccountTypes, At, Ready, Idle, RegisterJob, ChangeJob, Conflict

\* The normal form of an address is one that a row can have.
LEMMA NormalAddress ==
  ASSUME NEW email \in [address : Addresses, spelling : Spellings \cup {Plain}]
  PROVE  AddressOf(Normal(email)) /\ Normal(email).address = email.address
BY DEF AddressOf, Normal

LEMMA AccountsInvInit == AccountsInit => AccountsInv
BY UserRows DEF AccountsInit, AccountsInv, AccountTypes, NoSharedAddress, HeldIsKnown,
   RefusalHasReason, Known, Ready, At, Idle

\* A request that begins or ends and writes no row.
LEMMA AccountCalm ==
  ASSUME AccountsInv, NEW w \in Workers,
         NEW j \in {Idle} \cup RegisterJob \cup ChangeJob \cup Conflict,
         Begin(w, j), UNCHANGED user,
         j.pc \notin {"idle", "conflict"} => AddressOf(j.email),
         j.pc \in {"look", "write"} => user[j.id] # NoUser,
         j.pc = "insert" /\ Holders(j.email) # {} => j.held,
         j.pc \in {"look", "write"} /\ Holders(j.email) \ {j.id} # {} => j.held,
         j.pc = "conflict" => j.held
  PROVE  AccountsInv'
<1>1. job' = [job EXCEPT ![w] = j]
  BY DEF Begin
<1>2. job'[w] = j /\ \A v \in Workers : v # w => job'[v] = job[v]
  BY <1>1 DEF AccountsInv, AccountTypes
<1>3. AccountTypes'
  BY <1>1, <1>2 DEF AccountsInv, AccountTypes, Ready, At
<1>4. Known' = Known /\ \A email : Holders(email)' = Holders(email)
  BY DEF Known, Holders
<1>5. NoSharedAddress'
  BY <1>4 DEF AccountsInv, NoSharedAddress
<1>6. HeldIsKnown'
  <2> SUFFICES ASSUME NEW v \in Workers
               PROVE  /\ job'[v].pc = "insert" /\ Holders(job'[v].email) # {} => job'[v].held
                      /\ job'[v].pc \in {"look", "write"} =>
                           (Holders(job'[v].email) \ {job'[v].id} # {} => job'[v].held)
    BY <1>4 DEF HeldIsKnown, At, Holders, Known
  <2>1. CASE v = w
    BY <1>2, <2>1
  <2>2. CASE v # w
    BY <1>2, <2>2 DEF AccountsInv, HeldIsKnown, At
  <2>3. QED
    BY <2>1, <2>2
<1>7. RefusalHasReason'
  BY <1>2 DEF AccountsInv, RefusalHasReason, At
<1>8. QED
  BY <1>3, <1>5, <1>6, <1>7 DEF AccountsInv

\* The job of another request once a row has a new address.
LEMMA HeldJob ==
  ASSUME NEW j \in RegisterJob \cup ChangeJob, NEW more \in BOOLEAN,
         NEW h, h = [j EXCEPT !.held = @ \/ more]
  PROVE  /\ h \in RegisterJob \cup ChangeJob
         /\ h.pc = j.pc /\ h.email = j.email
         /\ h.held <=> (j.held \/ more)
         /\ j.pc \in {"look", "write"} => h.id = j.id
<1>1. CASE j \in RegisterJob
  BY <1>1 DEF RegisterJob
<1>2. CASE j \in ChangeJob
  BY <1>2 DEF ChangeJob
<1>3. QED
  BY <1>1, <1>2

\* A request that gives a row an address that nobody else has.
LEMMA AccountWrite ==
  ASSUME AccountsInv, NEW w \in Workers, NEW id \in UserIds, NEW r \in UserRow,
         Holders(r.email) \ {id} = {},
         Take(w, id, r.email), user' = [user EXCEPT ![id] = r]
  PROVE  AccountsInv'
<1> DEFINE more(v) == job[v].email = r.email /\ (At(v, "insert") \/ job[v].id # id)
<1>1. /\ job'[w] = Idle
      /\ \A v \in Workers : v # w /\ Ready(v) => job'[v] = job[v]
      /\ \A v \in Workers : v # w /\ ~Ready(v) => job'[v] = [job[v] EXCEPT !.held = @ \/ more(v)]
  BY DEF Take
<1>2. ASSUME NEW v \in Workers, v # w, ~Ready(v)
      PROVE  /\ job[v] \in RegisterJob \cup ChangeJob
             /\ job'[v] \in RegisterJob \cup ChangeJob
             /\ job'[v].pc = job[v].pc /\ job'[v].email = job[v].email
             /\ job'[v].held <=> (job[v].held \/ more(v))
             /\ job[v].pc \in {"look", "write"} => job'[v].id = job[v].id
  <2>1. job[v] \in RegisterJob \cup ChangeJob
    BY <1>2, AccountJobAt DEF AccountsInv
  <2>2. more(v) \in BOOLEAN /\ job'[v] = [job[v] EXCEPT !.held = @ \/ more(v)]
    BY <1>1, <1>2
  <2> HIDE DEF more
  <2>3. QED
    BY <2>1, <2>2, HeldJob
<1>3. user' \in [UserIds -> {NoUser} \cup UserRow] /\ user'[id] = r
      /\ \A x \in UserIds : x # id => user'[x] = user[x]
  BY DEF AccountsInv, AccountTypes
<1>4. AccountTypes'
  <2>1. job' \in [Workers -> {Idle} \cup RegisterJob \cup ChangeJob \cup Conflict]
    <3>1. job' = [v \in Workers |-> job'[v]]
      BY DEF Take
    <3>2. \A v \in Workers : job'[v] \in {Idle} \cup RegisterJob \cup ChangeJob \cup Conflict
      BY <1>1, <1>2 DEF AccountsInv, AccountTypes
    <3>3. QED
      BY <3>1, <3>2
  <2>2. \A v \in Workers : job'[v].pc \notin {"idle", "conflict"} => AddressOf(job'[v].email)
    BY <1>1, <1>2, UserRows DEF AccountsInv, AccountTypes, Ready
  <2>3. ASSUME NEW v \in Workers, job'[v].pc \in {"look", "write"}
        PROVE  user'[job'[v].id] # NoUser
    <3>1. v # w /\ ~Ready(v)
      BY <1>1, <2>3, UserRows DEF Ready
    <3>2. job'[v].id = job[v].id /\ user[job[v].id] # NoUser
      BY <1>2, <2>3, <3>1 DEF AccountsInv, AccountTypes, At
    <3>3. job[v].id \in UserIds
      BY <1>2, <2>3, <3>1 DEF RegisterJob, ChangeJob
    <3>4. QED
      BY <1>3, <3>2, <3>3, UserRows
  <2>4. QED
    BY <1>3, <2>1, <2>2, <2>3 DEF AccountTypes, Ready, At
<1>5. \A x \in UserIds : x # id /\ user[x] # NoUser => user[x].email # r.email
  BY DEF Holders, Known
<1>6. NoSharedAddress'
  <2> SUFFICES ASSUME NEW a \in UserIds, NEW b \in UserIds, user'[a] # NoUser, user'[b] # NoUser,
                      user'[a].email = user'[b].email
               PROVE  a = b
    BY DEF NoSharedAddress, Known
  <2>1. CASE a # id /\ b # id
    BY <1>3, <2>1 DEF AccountsInv, NoSharedAddress, Known
  <2>2. CASE a = id \/ b = id
    BY <1>3, <1>5, <2>2
  <2>3. QED
    BY <2>1, <2>2
<1>7. ASSUME NEW email
      PROVE  {x \in UserIds : user'[x] # NoUser /\ user'[x].email = email}
               \subseteq Holders(email) \cup (IF email = r.email THEN {id} ELSE {})
  BY <1>3 DEF Holders, Known
<1>8. HeldIsKnown'
  <2> SUFFICES ASSUME NEW v \in Workers,
                      NEW x \in UserIds, user'[x] # NoUser, user'[x].email = job'[v].email,
                      \/ job'[v].pc = "insert"
                      \/ job'[v].pc \in {"look", "write"} /\ x # job'[v].id
               PROVE  job'[v].held
    BY DEF HeldIsKnown, At, Holders, Known
  <2>1. v # w /\ ~Ready(v)
    BY <1>1, UserRows DEF Ready
  <2>2. CASE x \in Holders(job[v].email)
    <3>1. job[v].held
      BY <1>2, <2>1, <2>2 DEF AccountsInv, HeldIsKnown, At
    <3>2. QED
      BY <1>2, <2>1, <3>1
  <2>3. CASE x = id /\ job[v].email = r.email
    <3>1. more(v)
      BY <1>2, <2>1, <2>3 DEF At
    <3>2. QED
      BY <1>2, <2>1, <3>1
  <2>4. QED
    BY <1>2, <1>7, <2>1, <2>2, <2>3
<1>9. RefusalHasReason'
  <2> SUFFICES ASSUME NEW v \in Workers, job'[v].pc = "conflict"
               PROVE  job'[v].held
    BY DEF RefusalHasReason, At
  <2>1. v # w
    BY <1>1, UserRows
  <2>2. Ready(v)
    BY <1>2, <2>1 DEF Ready
  <2>3. QED
    BY <1>1, <2>1, <2>2 DEF AccountsInv, RefusalHasReason, At
<1>10. QED
  BY <1>4, <1>6, <1>8, <1>9 DEF AccountsInv

LEMMA RefuseInv ==
  ASSUME AccountsInv, NEW w \in Workers, Refuse(w, TRUE), UNCHANGED user
  PROVE  AccountsInv'
<1> DEFINE j == [pc |-> "conflict", held |-> TRUE]
<1>1. j \in Conflict
  BY DEF Conflict
<1>2. Begin(w, j)
  BY DEF Refuse
<1>3. QED
  BY <1>1, <1>2, AccountCalm

LEMMA RegisterInv ==
  ASSUME AccountsInv, NEW w \in Workers,
         \/ \E email \in Email, role \in Roles : RegisterLook(w, email, role)
         \/ \E id \in UserIds, name \in Names : RegisterInsert(w, id, name)
  PROVE  AccountsInv'
<1>1. ASSUME NEW email \in Email, NEW role \in Roles, RegisterLook(w, email, role)
      PROVE  AccountsInv'
  <2> DEFINE normal == Normal(email)
             j == [pc |-> "insert", email |-> normal, role |-> role, held |-> FALSE]
  <2>1. AddressOf(normal)
    BY NormalAddress DEF Email
  <2>2. CASE Holders(normal) # {}
    BY <1>1, <2>2, RefuseInv DEF RegisterLook
  <2>3. CASE Holders(normal) = {}
    <3>1. j \in RegisterJob
      BY <2>1 DEF RegisterJob, AddressOf, Email
    <3>2. Begin(w, j) /\ UNCHANGED user
      BY <1>1, <2>3 DEF RegisterLook
    <3>3. QED
      BY <2>1, <2>3, <3>1, <3>2, AccountCalm
  <2>4. QED
    BY <2>2, <2>3
<1>2. ASSUME NEW id \in UserIds, NEW name \in Names, RegisterInsert(w, id, name)
      PROVE  AccountsInv'
  <2> DEFINE r == [email |-> job[w].email, role |-> job[w].role, name |-> name,
                   verified |-> FALSE]
  <2>1. job[w] \in RegisterJob /\ AddressOf(job[w].email) /\ At(w, "insert")
    BY <1>2, AccountJobAt DEF RegisterInsert, AccountsInv, AccountTypes
  <2>2. CASE Holders(job[w].email) # {}
    <3>1. job[w].held = TRUE
      BY <2>1, <2>2 DEF AccountsInv, HeldIsKnown, RegisterJob
    <3>2. QED
      BY <1>2, <2>2, <3>1, RefuseInv DEF RegisterInsert
  <2>3. CASE Holders(job[w].email) = {}
    <3>1. r \in UserRow /\ r.email = job[w].email
      BY <2>1 DEF UserRow, AddressOf, RegisterJob
    <3>2. Take(w, id, r.email) /\ user' = [user EXCEPT ![id] = r]
      BY <1>2, <2>3 DEF RegisterInsert
    <3>3. QED
      BY <2>3, <3>1, <3>2, AccountWrite
  <2>4. QED
    BY <2>2, <2>3
<1>3. QED
  BY <1>1, <1>2

LEMMA ChangeInv ==
  ASSUME AccountsInv, NEW w \in Workers,
         \/ \E id \in UserIds, email \in Email : ChangeRead(w, id, email)
         \/ ChangeLook(w)
         \/ ChangeWrite(w)
  PROVE  AccountsInv'
<1>1. ASSUME NEW id \in UserIds, NEW email \in Email, ChangeRead(w, id, email)
      PROVE  AccountsInv'
  <2> DEFINE j == [pc |-> "look", id |-> id, email |-> Normal(email),
                   held |-> Holders(Normal(email)) \ {id} # {}]
  <2>1. AddressOf(Normal(email))
    BY NormalAddress DEF Email
  <2>2. j \in ChangeJob
    BY <2>1 DEF ChangeJob, AddressOf, Email
  <2>3. Begin(w, j) /\ UNCHANGED user
    BY <1>1 DEF ChangeRead
  <2>4. user[id] # NoUser
    BY <1>1 DEF ChangeRead, Known
  <2>5. QED
    BY <2>1, <2>2, <2>3, <2>4, AccountCalm
<1>2. ASSUME ChangeLook(w)
      PROVE  AccountsInv'
  <2>1. job[w] \in ChangeJob /\ AddressOf(job[w].email) /\ At(w, "look")
    BY <1>2, AccountJobAt DEF ChangeLook, AccountsInv, AccountTypes
  <2>2. CASE Holders(job[w].email) \ {job[w].id} # {}
    <3>1. job[w].held = TRUE
      BY <2>1, <2>2 DEF AccountsInv, HeldIsKnown, ChangeJob
    <3>2. QED
      BY <1>2, <2>2, <3>1, RefuseInv DEF ChangeLook
  <2>3. CASE Holders(job[w].email) \ {job[w].id} = {}
    <3> DEFINE j == [job[w] EXCEPT !.pc = "write"]
    <3>1. j \in ChangeJob /\ j.pc = "write" /\ j.email = job[w].email /\ j.id = job[w].id
      BY <2>1 DEF ChangeJob
    <3>2. Begin(w, j) /\ UNCHANGED user
      BY <1>2, <2>3 DEF ChangeLook, Begin
    <3>3. user[j.id] # NoUser
      BY <2>1, <3>1 DEF AccountsInv, AccountTypes
    <3> HIDE DEF j
    <3>4. QED
      BY <2>1, <2>3, <3>1, <3>2, <3>3, AccountCalm
  <2>4. QED
    BY <2>2, <2>3
<1>3. ASSUME ChangeWrite(w)
      PROVE  AccountsInv'
  <2> DEFINE id == job[w].id
  <2>1. job[w] \in ChangeJob /\ AddressOf(job[w].email) /\ At(w, "write") /\ id \in UserIds
    BY <1>3, AccountJobAt DEF ChangeWrite, AccountsInv, AccountTypes, ChangeJob
  <2>2. CASE Holders(job[w].email) \ {id} # {}
    <3>1. job[w].held = TRUE
      BY <2>1, <2>2 DEF AccountsInv, HeldIsKnown, ChangeJob
    <3>2. QED
      BY <1>3, <2>2, <3>1, RefuseInv DEF ChangeWrite
  <2>3. CASE Holders(job[w].email) \ {id} = {}
    <3> DEFINE r == [user[id] EXCEPT !.email = job[w].email]
    <3>1. user[id] \in UserRow
      BY <2>1 DEF AccountsInv, AccountTypes
    <3>2. r \in UserRow /\ r.email = job[w].email
      BY <2>1, <3>1 DEF UserRow, AddressOf
    <3>3. Take(w, id, job[w].email) /\ user' = [user EXCEPT ![id] = r]
      BY <1>3, <2>3 DEF ChangeWrite
    <3> HIDE DEF r
    <3>4. QED
      BY <2>1, <2>3, <3>2, <3>3, AccountWrite
  <2>4. QED
    BY <2>2, <2>3
<1>4. QED
  BY <1>1, <1>2, <1>3

LEMMA AccountsInvNext == AccountsInv /\ [AccountsNext]_accountVars => AccountsInv'
<1> SUFFICES ASSUME AccountsInv, [AccountsNext]_accountVars PROVE AccountsInv'
  OBVIOUS
<1>1. ASSUME NEW id \in UserIds, NEW r \in UserRow, user[id] # NoUser, r.email = user[id].email,
             user' = [user EXCEPT ![id] = r], UNCHANGED job
      PROVE  AccountsInv'
  <2>1. /\ user' \in [UserIds -> {NoUser} \cup UserRow]
        /\ \A x \in UserIds : /\ user'[x] = NoUser <=> user[x] = NoUser
                              /\ user[x] # NoUser => user'[x].email = user[x].email
    BY <1>1, UserRows DEF AccountsInv, AccountTypes
  <2>2. Known' = Known /\ \A email : {x \in Known : user'[x].email = email} = Holders(email)
    BY <2>1 DEF Known, Holders
  <2>3. AccountTypes'
    <3>1. \A w \in Workers : At(w, "look") \/ At(w, "write") => job[w].id \in UserIds
      BY AccountJobAt DEF AccountsInv, ChangeJob
    <3>2. QED
      BY <1>1, <2>1, <3>1 DEF AccountsInv, AccountTypes, Ready, At
  <2>4. NoSharedAddress'
    BY <2>1, <2>2 DEF AccountsInv, NoSharedAddress, Known
  <2>5. HeldIsKnown' /\ RefusalHasReason'
    <3>1. \A w \in Workers :
            {x \in Known : user'[x].email = job'[w].email} = Holders(job[w].email)
      BY <1>1, <2>2
    <3>2. QED
      BY <1>1, <2>2, <3>1 DEF AccountsInv, HeldIsKnown, RefusalHasReason, At, Holders
  <2>6. QED
    BY <2>3, <2>4, <2>5 DEF AccountsInv
<1>2. ASSUME NEW w \in Workers, AccountFail(w)
      PROVE  AccountsInv'
  BY <1>2, UserRows, AccountCalm DEF AccountFail, Leave
<1>3. ASSUME NEW id \in UserIds,
             VerifyUser(id) \/ \E name \in Names : UpdateProfile(id, name)
      PROVE  AccountsInv'
  <2>1. user[id] \in UserRow /\ user[id] # NoUser
    BY <1>3 DEF VerifyUser, UpdateProfile, AccountsInv, AccountTypes, Known
  <2>2. CASE VerifyUser(id)
    <3> DEFINE r == [user[id] EXCEPT !.verified = TRUE]
    <3>1. r \in UserRow /\ r.email = user[id].email
      BY <2>1 DEF UserRow
    <3>2. user' = [user EXCEPT ![id] = r] /\ UNCHANGED job
      BY <2>2 DEF VerifyUser
    <3> HIDE DEF r
    <3>3. QED
      BY <1>1, <2>1, <3>1, <3>2
  <2>3. ASSUME NEW name \in Names, UpdateProfile(id, name)
        PROVE  AccountsInv'
    <3> DEFINE r == [user[id] EXCEPT !.name = name]
    <3>1. r \in UserRow /\ r.email = user[id].email
      BY <2>1 DEF UserRow
    <3>2. user' = [user EXCEPT ![id] = r] /\ UNCHANGED job
      BY <2>3 DEF UpdateProfile
    <3> HIDE DEF r
    <3>3. QED
      BY <1>1, <2>1, <3>1, <3>2
  <2>4. QED
    BY <1>3, <2>2, <2>3
<1>4. ASSUME UNCHANGED accountVars
      PROVE  AccountsInv'
  BY <1>4 DEF accountVars, AccountsInv, AccountTypes, NoSharedAddress, HeldIsKnown,
     RefusalHasReason, Known, Holders, Ready, At
<1>5. QED
  BY <1>2, <1>3, <1>4, RegisterInv, ChangeInv DEF AccountsNext

\* Any spelling of the address of an account finds it and no other one.
LEMMA OwnerIsFound == AccountsInv => LoginFindsOwner
<1> SUFFICES ASSUME AccountsInv, NEW id \in Known, NEW spelling \in Spellings
             PROVE  Holders(Normal([address |-> user[id].email.address, spelling |-> spelling]))
                      = {id}
  BY DEF LoginFindsOwner
<1>1. user[id].email \in [address : Addresses, spelling : {Plain}]
  BY DEF AccountsInv, AccountTypes, Known, UserRow
<1>2. Normal([address |-> user[id].email.address, spelling |-> spelling]) = user[id].email
  BY <1>1 DEF Normal
<1>3. Holders(user[id].email) = {id}
  BY DEF AccountsInv, NoSharedAddress, Holders
<1>4. QED
  BY <1>2, <1>3

(***************************************************************************)
(* Notifications                                                           *)
(***************************************************************************)

NoticeRow == [to : Owners, isRead : BOOLEAN]

InboxTypes ==
  /\ notice \in [NoticeIds -> {NoNotice} \cup NoticeRow]
  /\ reader \in [Readers -> {Resting} \cup [pc : {"turn"}, of : Owners, id : NoticeIds]
                              \cup [pc : {"all"}, of : Owners, rows : SUBSET NoticeIds]]
  /\ answered \in [Owners -> Nat]
  /\ opened \in [Owners -> SUBSET NoticeIds]

\* What a request is about to turn belongs to its user, and what was turned one by one
\* is read.
ReaderInv ==
  /\ \A r \in Readers : Reads(r, "turn") =>
       notice[reader[r].id] # NoNotice /\ notice[reader[r].id].to = reader[r].of
  /\ \A u \in Owners : opened[u] \subseteq ReadOf(u)

\* The inductive invariant of the notifications.
InboxInv == InboxTypes /\ ReaderInv /\ CountsAddUp

LEMMA NoticeRows == NoNotice \notin NoticeRow /\ Resting.pc = "resting"
BY DEF NoNotice, NoticeRow, Resting

LEMMA ReaderAt ==
  ASSUME InboxTypes, NEW r \in Readers
  PROVE  /\ Reads(r, "turn") => reader[r].of \in Owners /\ reader[r].id \in NoticeIds
         /\ Reads(r, "all") => reader[r].of \in Owners /\ reader[r].rows \subseteq NoticeIds
BY DEF InboxTypes, Reads, Resting

LEMMA InboxInvInit == InboxInit => InboxInv
<1> SUFFICES ASSUME InboxInit PROVE InboxInv
  OBVIOUS
<1>1. \A u \in Owners : ReadOf(u) = {}
  BY DEF InboxInit, ReadOf, NoNotice
<1>2. CountsAddUp
  BY <1>1, FS_EmptySet DEF InboxInit, CountsAddUp
<1>3. QED
  BY <1>1, <1>2 DEF InboxInit, InboxInv, InboxTypes, ReaderInv, Reads, Resting

\* A request that reads, and a notification that is written.
LEMMA InboxCalm ==
  ASSUME InboxInv, InboxTypes', UNCHANGED <<answered, opened>>,
         \A u \in Owners : ReadOf(u)' = ReadOf(u),
         \A n \in NoticeIds : notice[n] # NoNotice => notice'[n] = notice[n],
         \A r \in Readers : Reads(r, "turn")' =>
           \/ reader'[r] = reader[r]
           \/ notice'[reader'[r].id] # NoNotice /\ notice'[reader'[r].id].to = reader'[r].of
  PROVE  InboxInv'
<1>1. CountsAddUp'
  BY DEF InboxInv, CountsAddUp
<1>2. ASSUME NEW r \in Readers, Reads(r, "turn")'
      PROVE  notice'[reader'[r].id] # NoNotice /\ notice'[reader'[r].id].to = reader'[r].of
  <2>1. CASE reader'[r] = reader[r]
    BY <1>2, <2>1, ReaderAt DEF InboxInv, ReaderInv, Reads
  <2>2. QED
    BY <1>2, <2>1
<1>3. \A u \in Owners : (opened[u] \subseteq ReadOf(u))'
  BY DEF InboxInv, ReaderInv
<1>4. QED
  BY <1>1, <1>2, <1>3 DEF InboxInv, ReaderInv

LEMMA DisjointUnion ==
  ASSUME NEW S, NEW T, IsFiniteSet(S), IsFiniteSet(T), S \cap T = {}
  PROVE  /\ Cardinality(S \cup T) = Cardinality(S) + Cardinality(T)
         /\ Cardinality(S) \in Nat /\ Cardinality(T) \in Nat
<1>1. Cardinality(S \cup T) = Cardinality(S) + Cardinality(T) - Cardinality(S \cap T)
  BY FS_Union
<1>2. Cardinality(S \cap T) = 0
  BY FS_EmptySet
<1>3. Cardinality(S) \in Nat /\ Cardinality(T) \in Nat
  BY FS_CardinalityType
<1>4. QED
  BY <1>1, <1>2, <1>3

\* More notifications of one user are read, and counted.
LEMMA InboxTurned ==
  ASSUME InboxInv, InboxTypes', NEW u \in Owners, NEW rows \in SUBSET UnreadOf(u),
         NEW r \in Readers, Reads(r, "resting")',
         \A x \in Readers : x # r => reader'[x] = reader[x],
         \A n \in NoticeIds : notice'[n] = IF n \in rows THEN [to |-> u, isRead |-> TRUE]
                                           ELSE notice[n],
         \/ /\ UNCHANGED opened
            /\ answered' = [answered EXCEPT ![u] = @ + Cardinality(rows)]
         \/ /\ UNCHANGED answered
            /\ opened' = [opened EXCEPT ![u] = @ \cup rows]
  PROVE  InboxInv'
<1>1. /\ ReadOf(u)' = ReadOf(u) \cup rows /\ ReadOf(u) \cap rows = {}
      /\ \A v \in Owners : v # u => ReadOf(v)' = ReadOf(v)
  <2>1. \A n \in rows : n \in NoticeIds /\ notice[n].to = u /\ notice[n] # [to |-> u, isRead |-> TRUE]
    BY DEF UnreadOf
  <2>2. \A n \in rows : notice'[n] = [to |-> u, isRead |-> TRUE]
    BY <2>1
  <2>3. {n \in NoticeIds : notice'[n] = [to |-> u, isRead |-> TRUE]} = ReadOf(u) \cup rows
    BY <2>1, <2>2 DEF ReadOf
  <2>4. ReadOf(u) \cap rows = {}
    BY <2>1 DEF ReadOf
  <2>5. ASSUME NEW v \in Owners, v # u
        PROVE  {n \in NoticeIds : notice'[n] = [to |-> v, isRead |-> TRUE]} = ReadOf(v)
    <3>1. \A n \in rows : notice[n].to # v /\ notice'[n].to # v
      BY <2>1, <2>2, <2>5
    <3>2. \A n \in rows : notice'[n] # [to |-> v, isRead |-> TRUE]
                        /\ notice[n] # [to |-> v, isRead |-> TRUE]
      BY <3>1
    <3>3. QED
      BY <3>2 DEF ReadOf
  <2>6. QED
    BY <2>3, <2>4, <2>5 DEF ReadOf
<1>2. /\ IsFiniteSet(rows) /\ IsFiniteSet(ReadOf(u)) /\ IsFiniteSet(opened[u])
      /\ opened[u] \subseteq ReadOf(u)
  <2>1. rows \subseteq NoticeIds /\ ReadOf(u) \subseteq NoticeIds
    BY DEF UnreadOf, ReadOf
  <2>2. opened[u] \subseteq ReadOf(u)
    BY DEF InboxInv, ReaderInv
  <2>3. IsFiniteSet(rows) /\ IsFiniteSet(ReadOf(u))
    BY <2>1, FS_Subset, InboxAssumption
  <2>4. QED
    BY <2>2, <2>3, FS_Subset
<1>3. Cardinality(ReadOf(u)') = Cardinality(ReadOf(u)) + Cardinality(rows)
  BY <1>1, <1>2, DisjointUnion
<1>4. Cardinality(opened[u] \cup rows) = Cardinality(opened[u]) + Cardinality(rows)
  <2>1. opened[u] \cap rows = {}
    BY <1>1, <1>2
  <2>2. QED
    BY <2>1, <1>2, DisjointUnion
<1>5. answered[u] + Cardinality(opened[u]) = Cardinality(ReadOf(u)) /\ answered[u] \in Nat
      /\ Cardinality(opened[u]) \in Nat /\ Cardinality(rows) \in Nat
  <2>1. Cardinality(opened[u]) \in Nat /\ Cardinality(rows) \in Nat
    BY <1>2, FS_CardinalityType
  <2>2. QED
    BY <2>1 DEF InboxInv, CountsAddUp, InboxTypes
<1>6. answered'[u] + Cardinality(opened'[u]) = Cardinality(ReadOf(u)')
  <2>1. CASE opened' = opened /\ answered' = [answered EXCEPT ![u] = @ + Cardinality(rows)]
    BY <2>1, <1>3, <1>5 DEF InboxInv, InboxTypes
  <2>2. CASE answered' = answered /\ opened' = [opened EXCEPT ![u] = @ \cup rows]
    <3>1. opened'[u] = opened[u] \cup rows
      BY <2>2 DEF InboxInv, InboxTypes
    <3>2. Cardinality(opened'[u]) = Cardinality(opened[u]) + Cardinality(rows)
      BY <3>1, <1>4
    <3>3. QED
      BY <2>2, <3>2, <1>3, <1>5
  <2>3. QED
    BY <2>1, <2>2
<1>7. \A v \in Owners : v # u => answered'[v] = answered[v] /\ opened'[v] = opened[v]
  BY DEF InboxInv, InboxTypes
<1>8. CountsAddUp'
  <2>1. ASSUME NEW v \in Owners, v # u
        PROVE  answered'[v] + Cardinality(opened'[v]) = Cardinality(ReadOf(v)')
    BY <1>1, <1>7, <2>1 DEF InboxInv, CountsAddUp
  <2>2. QED
    BY <1>6, <2>1 DEF CountsAddUp
<1>9. \A v \in Owners : opened'[v] \subseteq ReadOf(v)'
  BY <1>1, <1>2, <1>7 DEF InboxInv, ReaderInv, InboxTypes
<1>10. ASSUME NEW x \in Readers, Reads(x, "turn")'
       PROVE  notice'[reader'[x].id] # NoNotice /\ notice'[reader'[x].id].to = reader'[x].of
  <2>1. reader'[x] = reader[x] /\ Reads(x, "turn")
    BY <1>10 DEF Reads
  <2>2. /\ reader[x].id \in NoticeIds /\ notice[reader[x].id] # NoNotice
        /\ notice[reader[x].id].to = reader[x].of
    BY <2>1, ReaderAt DEF InboxInv, ReaderInv
  <2>3. \A n \in rows : notice[n].to = u /\ notice'[n] \in NoticeRow /\ notice'[n].to = u
    <3> SUFFICES ASSUME NEW n \in rows
                 PROVE  notice[n].to = u /\ notice'[n] \in NoticeRow /\ notice'[n].to = u
      OBVIOUS
    <3>1. n \in NoticeIds /\ notice[n] = [to |-> u, isRead |-> FALSE]
      BY DEF UnreadOf
    <3>2. notice'[n] = [to |-> u, isRead |-> TRUE]
      BY <3>1
    <3>3. QED
      BY <3>1, <3>2 DEF NoticeRow
  <2>4. QED
    BY <2>1, <2>2, <2>3, NoticeRows
<1>11. QED
  BY <1>8, <1>9, <1>10 DEF InboxInv, ReaderInv

LEMMA ReadRow ==
  ASSUME NEW b \in [to : Owners, isRead : BOOLEAN]
  PROVE  [b EXCEPT !.isRead = TRUE] = [to |-> b.to, isRead |-> TRUE]
<1> DEFINE c == [b EXCEPT !.isRead = TRUE]
<1>1. c \in [to : Owners, isRead : BOOLEAN] /\ c.to = b.to /\ c.isRead = TRUE
  OBVIOUS
<1> HIDE DEF c
<1>2. c = [to |-> b.to, isRead |-> TRUE]
  BY <1>1
<1>3. QED
  BY <1>2 DEF c

\* What markAllRead writes, of any rows that are unread.
TurnsRows(r, u, rows) ==
  /\ notice' = [n \in NoticeIds |-> IF n \in rows THEN [notice[n] EXCEPT !.isRead = TRUE]
                                    ELSE notice[n]]
  /\ answered' = [answered EXCEPT ![u] = @ + Cardinality(rows)]
  /\ Now(r, Resting)
  /\ UNCHANGED opened

LEMMA RowsTurned ==
  ASSUME InboxInv, NEW r \in Readers, NEW u \in Owners, NEW rows \in SUBSET UnreadOf(u),
         TurnsRows(r, u, rows)
  PROVE  InboxInv'
<1>1. reader' = [reader EXCEPT ![r] = Resting] /\ UNCHANGED opened
      /\ answered' = [answered EXCEPT ![u] = @ + Cardinality(rows)]
  BY DEF TurnsRows, Now
<1>2. reader'[r] = Resting /\ \A x \in Readers : x # r => reader'[x] = reader[x]
  BY <1>1 DEF InboxInv, InboxTypes
<1>3. \A n \in rows : n \in NoticeIds /\ notice[n] = [to |-> u, isRead |-> FALSE]
  BY DEF UnreadOf
<1>4. ASSUME NEW n \in NoticeIds
      PROVE  notice'[n] = IF n \in rows THEN [to |-> u, isRead |-> TRUE] ELSE notice[n]
  <2>1. notice'[n] = IF n \in rows THEN [notice[n] EXCEPT !.isRead = TRUE] ELSE notice[n]
    BY DEF TurnsRows
  <2>2. CASE n \in rows
    <3>1. notice[n] = [to |-> u, isRead |-> FALSE]
      BY <1>3, <2>2
    <3>2. notice[n] \in [to : Owners, isRead : BOOLEAN] /\ notice[n].to = u
      BY <3>1
    <3>3. [notice[n] EXCEPT !.isRead = TRUE] = [to |-> u, isRead |-> TRUE]
      BY <3>2, ReadRow
    <3>4. QED
      BY <2>1, <2>2, <3>3, Zenon
  <2>3. QED
    BY <2>1, <2>2
<1>5. rows \subseteq NoticeIds /\ IsFiniteSet(rows) /\ Cardinality(rows) \in Nat
  <2>1. rows \subseteq NoticeIds
    BY <1>3
  <2>2. QED
    BY <2>1, FS_Subset, FS_CardinalityType, InboxAssumption
<1>6. InboxTypes'
  <2>1. [to |-> u, isRead |-> TRUE] \in NoticeRow
    BY DEF NoticeRow
  <2>2. \A n \in NoticeIds : notice'[n] \in {NoNotice} \cup NoticeRow
    BY <1>4, <2>1 DEF InboxInv, InboxTypes
  <2>3. notice' \in [NoticeIds -> {NoNotice} \cup NoticeRow]
    BY <2>2 DEF TurnsRows
  <2>4. answered' \in [Owners -> Nat]
    BY <1>1, <1>5 DEF InboxInv, InboxTypes
  <2>5. QED
    BY <1>1, <2>3, <2>4 DEF InboxInv, InboxTypes
<1>7. Reads(r, "resting")'
  BY <1>2, NoticeRows DEF Reads
<1>8. QED
  BY <1>1, <1>2, <1>4, <1>6, <1>7, InboxTurned

LEMMA InboxInvNext == InboxInv /\ [InboxNext]_inboxVars => InboxInv'
<1> SUFFICES ASSUME InboxInv, [InboxNext]_inboxVars PROVE InboxInv'
  OBVIOUS
<1>1. ASSUME NEW n \in NoticeIds, NEW u \in Owners, CreateNotice(n, u)
      PROVE  InboxInv'
  <2>1. [to |-> u, isRead |-> FALSE] \in NoticeRow
    BY DEF NoticeRow
  <2>2. notice[n] = NoNotice /\ notice' = [notice EXCEPT ![n] = [to |-> u, isRead |-> FALSE]]
        /\ UNCHANGED <<reader, answered, opened>>
    BY <1>1 DEF CreateNotice
  <2>3. notice'[n] = [to |-> u, isRead |-> FALSE]
        /\ \A x \in NoticeIds : x # n => notice'[x] = notice[x]
    BY <2>2 DEF InboxInv, InboxTypes
  <2>4. ASSUME NEW v \in Owners
        PROVE  {x \in NoticeIds : notice'[x] = [to |-> v, isRead |-> TRUE]} = ReadOf(v)
    <3>1. notice'[n] # [to |-> v, isRead |-> TRUE] /\ notice[n] # [to |-> v, isRead |-> TRUE]
      BY <2>2, <2>3 DEF NoNotice
    <3>2. QED
      BY <2>3, <3>1 DEF ReadOf
  <2>5. \A v \in Owners : ReadOf(v)' = ReadOf(v)
    BY <2>4 DEF ReadOf
  <2>6. InboxTypes'
    BY <2>1, <2>2 DEF InboxInv, InboxTypes
  <2>7. QED
    BY <2>2, <2>3, <2>5, <2>6, InboxCalm
<1>2. ASSUME NEW r \in Readers, NEW j \in [pc : {"turn"}, of : Owners, id : NoticeIds]
                                       \cup [pc : {"all"}, of : Owners, rows : SUBSET NoticeIds],
             j.pc = "turn" => notice[j.id] # NoNotice /\ notice[j.id].to = j.of,
             Now(r, j), UNCHANGED <<notice, answered, opened>>
      PROVE  InboxInv'
  <2>1. reader' = [reader EXCEPT ![r] = j]
    BY <1>2 DEF Now
  <2>2. reader'[r] = j /\ \A x \in Readers : x # r => reader'[x] = reader[x]
    BY <2>1 DEF InboxInv, InboxTypes
  <2>3. InboxTypes'
    BY <1>2, <2>1 DEF InboxInv, InboxTypes
  <2>4. \A u \in Owners : ReadOf(u)' = ReadOf(u)
    BY <1>2 DEF ReadOf
  <2>5. ASSUME NEW x \in Readers, Reads(x, "turn")'
        PROVE  \/ reader'[x] = reader[x]
               \/ notice'[reader'[x].id] # NoNotice /\ notice'[reader'[x].id].to = reader'[x].of
    BY <1>2, <2>2, <2>5 DEF Reads
  <2>6. QED
    BY <1>2, <2>3, <2>4, <2>5, InboxCalm
<1>3. ASSUME NEW r \in Readers, NEW u \in Owners, NEW n \in NoticeIds, ReadNotice(r, u, n)
      PROVE  InboxInv'
  <2> DEFINE j == [pc |-> "turn", of |-> u, id |-> n]
  <2>1. notice[n] # NoNotice /\ notice[n].to = u
    BY <1>3 DEF ReadNotice, UnreadOf, NoNotice
  <2>2. j \in [pc : {"turn"}, of : Owners, id : NoticeIds]
    OBVIOUS
  <2>3. Now(r, j) /\ UNCHANGED <<notice, answered, opened>>
    BY <1>3 DEF ReadNotice
  <2>4. QED
    BY <1>2, <2>1, <2>2, <2>3
<1>4. ASSUME NEW r \in Readers, NEW u \in Owners, ReadAll(r, u)
      PROVE  InboxInv'
  <2> DEFINE j == [pc |-> "all", of |-> u, rows |-> UnreadOf(u)]
  <2>1. j \in [pc : {"all"}, of : Owners, rows : SUBSET NoticeIds]
    BY DEF UnreadOf
  <2>2. Now(r, j) /\ UNCHANGED <<notice, answered, opened>>
    BY <1>4 DEF ReadAll
  <2>3. QED
    BY <1>2, <2>1, <2>2
<1>5. ASSUME NEW r \in Readers, TurnNotice(r)
      PROVE  InboxInv'
  <2> DEFINE n == reader[r].id
             u == reader[r].of
  <2>1. Reads(r, "turn") /\ n \in NoticeIds /\ u \in Owners
    BY <1>5, ReaderAt DEF TurnNotice, InboxInv
  <2>2. notice[n] \in NoticeRow /\ notice[n].to = u
    BY <2>1 DEF InboxInv, InboxTypes, ReaderInv
  <2>3. /\ notice' = [notice EXCEPT ![n].isRead = TRUE] /\ reader' = [reader EXCEPT ![r] = Resting]
        /\ UNCHANGED answered
        /\ opened' = IF notice[n].isRead THEN opened ELSE [opened EXCEPT ![u] = @ \cup {n}]
    BY <1>5 DEF TurnNotice, Now
  <2>4. reader'[r] = Resting /\ \A x \in Readers : x # r => reader'[x] = reader[x]
    BY <2>3 DEF InboxInv, InboxTypes
  <2>5. notice'[n] = [to |-> u, isRead |-> TRUE]
        /\ \A x \in NoticeIds : x # n => notice'[x] = notice[x]
    BY <2>1, <2>2, <2>3 DEF InboxInv, InboxTypes, NoticeRow
  <2>6. InboxTypes'
    <3>1. notice' \in [NoticeIds -> {NoNotice} \cup NoticeRow]
      BY <2>1, <2>2, <2>3 DEF InboxInv, InboxTypes, NoticeRow
    <3>2. reader' \in [Readers -> {Resting} \cup [pc : {"turn"}, of : Owners, id : NoticeIds]
                              \cup [pc : {"all"}, of : Owners, rows : SUBSET NoticeIds]]
      BY <2>3 DEF InboxInv, InboxTypes
    <3>3. opened' \in [Owners -> SUBSET NoticeIds]
      BY <2>1, <2>3 DEF InboxInv, InboxTypes
    <3>4. QED
      BY <2>3, <3>1, <3>2, <3>3 DEF InboxInv, InboxTypes
  <2>7. CASE notice[n].isRead
    <3>1. notice[n] = [to |-> u, isRead |-> TRUE]
      BY <2>2, <2>7 DEF NoticeRow
    <3>2. notice' = notice /\ UNCHANGED <<answered, opened>>
      <4>1. \A x \in NoticeIds : notice'[x] = notice[x]
        BY <2>5, <3>1
      <4>2. notice' = [x \in NoticeIds |-> notice'[x]] /\ notice = [x \in NoticeIds |-> notice[x]]
        BY <2>6 DEF InboxInv, InboxTypes
      <4>3. notice' = notice
        BY <4>1, <4>2
      <4>4. UNCHANGED <<answered, opened>>
        BY <2>3, <2>7 DEF InboxInv, InboxTypes
      <4> QED
        BY <4>3, <4>4
    <3>3. \A v \in Owners : ReadOf(v)' = ReadOf(v)
      BY <3>2 DEF ReadOf
    <3>4. QED
      BY <2>4, <2>6, <3>2, <3>3, NoticeRows, InboxCalm DEF Reads
  <2>8. CASE ~notice[n].isRead
    <3>1. notice[n] = [to |-> u, isRead |-> FALSE]
      BY <2>2, <2>8 DEF NoticeRow
    <3>2. {n} \in SUBSET UnreadOf(u)
      BY <2>1, <3>1 DEF UnreadOf
    <3>3. Reads(r, "resting")' /\ opened' = [opened EXCEPT ![u] = @ \cup {n}]
      BY <2>3, <2>4, <2>8, NoticeRows DEF Reads
    <3>4. \A x \in NoticeIds : notice'[x] = IF x \in {n} THEN [to |-> u, isRead |-> TRUE]
                                            ELSE notice[x]
      BY <2>5
    <3>5. UNCHANGED answered /\ \A x \in Readers : x # r => reader'[x] = reader[x]
      BY <2>3, <2>4
    <3>6. PICK rows \in SUBSET UnreadOf(u) : rows = {n}
      BY <3>2
    <3> HIDE DEF n, u
    <3>7. QED
      BY <2>1, <2>6, <3>3, <3>4, <3>5, <3>6, InboxTurned
  <2>9. QED
    BY <2>7, <2>8
<1>6. ASSUME NEW r \in Readers, TurnAll(r)
      PROVE  InboxInv'
  <2>1. reader[r].of \in Owners
    BY <1>6, ReaderAt DEF TurnAll, InboxInv
  <2>2. reader[r].rows \cap UnreadOf(reader[r].of) \in SUBSET UnreadOf(reader[r].of)
    OBVIOUS
  <2>3. TurnsRows(r, reader[r].of, reader[r].rows \cap UnreadOf(reader[r].of))
    BY <1>6 DEF TurnAll, TurnsRows
  <2>4. QED
    BY <2>1, <2>2, <2>3, RowsTurned
<1>7. ASSUME UNCHANGED inboxVars
      PROVE  InboxInv'
  BY <1>7 DEF inboxVars, InboxInv, InboxTypes, ReaderInv, CountsAddUp, ReadOf, Reads
<1>8. QED
  BY <1>1, <1>3, <1>4, <1>5, <1>6, <1>7 DEF InboxNext

(***************************************************************************)
(* Reports                                                                 *)
(***************************************************************************)

ReportRow == [by : Users, target : Target, status : Outcomes \cup {"open"},
              note : Given]
Resolution == [pc : {"resolve"}, id : ReportIds, status : Outcomes, note : Given,
               given : Given, fresh : BOOLEAN]

ReportTypes ==
  /\ report \in [ReportIds -> {NoReport} \cup ReportRow]
  /\ desk \in [Admins -> {[pc |-> "idle"]} \cup Resolution]

\* What a resolution is about to write: the note that it was given, or else the one that
\* the report had, and has still if nothing has overtaken the resolution.
WritesNote(j) ==
  IF j.given # NoNote THEN j.note = j.given ELSE j.fresh => j.note = report[j.id].note

FreshNotes ==
  \A a \in Admins : desk[a].pc = "resolve" => desk[a].id \in Filed /\ WritesNote(desk[a])

\* The inductive invariant of the reports.
ReportsInv == ReportTypes /\ FreshNotes

LEMMA ReportRows == NoReport \notin ReportRow
BY DEF NoReport, ReportRow, Given

LEMMA ReportsInvInit == ReportsInit => ReportsInv
BY DEF ReportsInit, ReportsInv, ReportTypes, FreshNotes

\* As long as an id is left, the next one is not in use.
LEMMA NextReportIsFree ==
  ASSUME Filed # ReportIds
  PROVE  NextReport \in ReportIds /\ NextReport \notin Filed
<1> DEFINE Left == ReportIds \ Filed
<1>1. Left \subseteq Nat /\ Left # {}
  BY ReportsAssumption DEF Filed
<1>2. PICK id \in Left : \A other \in Left : ~(<<other, id>> \in OpToRel(<, Nat))
  BY <1>1, WFMin, NatLessThanWellFounded, Zenon
<1>3. \A x, y \in Nat : x < y => <<x, y>> \in OpToRel(<, Nat)
  <2> SUFFICES ASSUME NEW x \in Nat, NEW y \in Nat, x < y
               PROVE  <<x, y>> \in {ss \in Nat \X Nat : ss[1] < ss[2]}
    BY Zenon DEF OpToRel
  <2> QED
    OBVIOUS
<1>4. \A other \in Left : ~(other < id)
  <2> SUFFICES ASSUME NEW other \in Left PROVE ~(other < id)
    OBVIOUS
  <2>1. other \in Nat /\ id \in Nat
    BY <1>1
  <2> QED
    BY <2>1, <1>2, <1>3, Zenon
<1>5. \A other \in Left : id <= other
  BY <1>1, <1>4
<1>6. QED
  BY <1>5 DEF NextReport

LEMMA OvertakenResolution ==
  ASSUME NEW r \in Resolution, NEW overtaken, overtaken = [r EXCEPT !.fresh = FALSE]
  PROVE  /\ overtaken \in Resolution /\ ~overtaken.fresh
         /\ overtaken.id = r.id /\ overtaken.note = r.note /\ overtaken.given = r.given
BY DEF Resolution

\* A step writes at most the row of one report, which is new or resolved.
LEMMA ReportsStep ==
  ASSUME ReportsInv, [ReportsNext]_reportVars
  PROVE  /\ ReportsInv'
         /\ \A id \in Filed : report'[id].note # report[id].note =>
              \E a \in Admins :
                /\ desk[a].pc = "resolve" /\ desk[a].id = id /\ desk'[a].pc = "idle"
                /\ IF desk[a].given = NoNote THEN ~desk[a].fresh
                   ELSE report'[id].note = desk[a].given
<1> DEFINE Explained(id) ==
             \E a \in Admins :
                /\ desk[a].pc = "resolve" /\ desk[a].id = id /\ desk'[a].pc = "idle"
                /\ IF desk[a].given = NoNote THEN ~desk[a].fresh
                   ELSE report'[id].note = desk[a].given
           Goal == /\ ReportsInv'
                   /\ \A id \in Filed : report'[id].note # report[id].note => Explained(id)
<1>1. ASSUME NEW u \in Users, NEW target \in Target, CreateReport(u, target)
      PROVE  Goal
  <2>1. NextReport \in ReportIds /\ NextReport \notin Filed
    BY <1>1, NextReportIsFree DEF CreateReport
  <2>2. PICK id \in ReportIds \ Filed :
          report' = [report EXCEPT ![id] = [by |-> u, target |-> target, status |-> "open",
                                            note |-> NoNote]]
    BY <1>1, <2>1 DEF CreateReport
  <2>3. [by |-> u, target |-> target, status |-> "open", note |-> NoNote] \in ReportRow
    BY DEF ReportRow, Given
  <2>4. desk' = desk
    BY <1>1 DEF CreateReport
  <2>5. \A x \in Filed : report'[x] = report[x] /\ x \in Filed'
    BY <2>2 DEF Filed, ReportsInv, ReportTypes
  <2>6. ReportTypes'
    BY <2>2, <2>3, <2>4 DEF ReportsInv, ReportTypes
  <2>7. FreshNotes'
    BY <2>4, <2>5 DEF ReportsInv, FreshNotes, WritesNote
  <2>8. QED
    BY <2>5, <2>6, <2>7 DEF ReportsInv
<1>2. ASSUME UNCHANGED report, NEW a \in Admins, NEW j \in {[pc |-> "idle"]} \cup Resolution,
             desk' = [desk EXCEPT ![a] = j],
             j.pc = "resolve" => j.id \in Filed /\ WritesNote(j)
      PROVE  Goal
  <2>1. desk'[a] = j /\ \A b \in Admins : b # a => desk'[b] = desk[b]
    BY <1>2 DEF ReportsInv, ReportTypes
  <2>2. ReportTypes'
    BY <1>2 DEF ReportsInv, ReportTypes
  <2>3. Filed' = Filed
    BY <1>2 DEF Filed
  <2>4. FreshNotes'
    BY <1>2, <2>1, <2>3 DEF ReportsInv, FreshNotes, WritesNote
  <2>5. QED
    BY <1>2, <2>2, <2>4 DEF ReportsInv
<1>3. ASSUME NEW a \in Admins, NEW id \in ReportIds, NEW status \in Outcomes,
             NEW note \in Given, ResolveRead(a, id, status, note)
      PROVE  Goal
  <2>1. id \in Filed /\ report[id] \in ReportRow
    BY <1>3 DEF ResolveRead, Filed, ReportsInv, ReportTypes
  <2>2. PICK j : /\ j = [pc |-> "resolve", id |-> id, status |-> status,
                         note |-> IF note = NoNote THEN report[id].note ELSE note,
                         given |-> note, fresh |-> TRUE]
                 /\ desk' = [desk EXCEPT ![a] = j]
    BY <1>3 DEF ResolveRead
  <2>3. j \in Resolution
    BY <2>1, <2>2 DEF Resolution, ReportRow
  <2>4. WritesNote(j)
    BY <2>2 DEF WritesNote
  <2>5. j.id \in Filed /\ report' = report
    BY <2>1, <2>2, <1>3 DEF ResolveRead
  <2>6. QED
    BY <1>2, <2>2, <2>3, <2>4, <2>5
<1>4. ASSUME NEW a \in Admins, ResolveFail(a)
      PROVE  Goal
  <2>1. desk' = [desk EXCEPT ![a] = [pc |-> "idle"]] /\ UNCHANGED report
    BY <1>4 DEF ResolveFail
  <2>2. QED
    BY <1>2, <2>1
<1>5. ASSUME NEW a \in Admins, ResolveWrite(a)
      PROVE  Goal
  <2>1. desk[a] \in Resolution /\ desk[a].pc = "resolve" /\ desk[a].id \in Filed
    BY <1>5 DEF ResolveWrite, ReportsInv, ReportTypes, FreshNotes
  <2>2. report[desk[a].id] \in ReportRow /\ desk[a].id \in ReportIds
    BY <2>1 DEF ReportsInv, ReportTypes, Filed
  <2>3. report' = [report EXCEPT ![desk[a].id] =
                     [@ EXCEPT !.status = desk[a].status, !.note = desk[a].note]]
    BY <1>5 DEF ResolveWrite
  <2>4. desk' = [b \in Admins |->
                   IF b = a THEN [pc |-> "idle"]
                   ELSE IF desk[b].pc = "resolve" /\ desk[b].id = desk[a].id
                     THEN [desk[b] EXCEPT !.fresh = FALSE] ELSE desk[b]]
    BY <1>5 DEF ResolveWrite
  <2>5. report'[desk[a].id] \in ReportRow /\ report'[desk[a].id].note = desk[a].note
    BY <2>1, <2>2, <2>3 DEF ReportsInv, ReportTypes, ReportRow, Resolution
  <2>6. \A id \in ReportIds : id # desk[a].id => report'[id] = report[id]
    BY <2>3 DEF ReportsInv, ReportTypes
  <2>7. \A id \in Filed : id \in Filed'
    BY <2>5, <2>6, ReportRows DEF Filed
  <2>8. ASSUME NEW b \in Admins
        PROVE  /\ desk'[b] \in {[pc |-> "idle"]} \cup Resolution
               /\ desk'[b].pc = "resolve" =>
                    /\ desk[b].pc = "resolve" /\ desk'[b].id = desk[b].id
                    /\ desk'[b].note = desk[b].note /\ desk'[b].given = desk[b].given
                    /\ desk'[b].fresh => desk[b].fresh /\ desk[b].id # desk[a].id
    <3>1. desk[b] \in {[pc |-> "idle"]} \cup Resolution
      BY DEF ReportsInv, ReportTypes
    <3>2. CASE b = a
      BY <2>4, <3>2
    <3>3. CASE b # a /\ desk[b].pc = "resolve" /\ desk[b].id = desk[a].id
      <4>1. desk[b] \in Resolution /\ desk'[b] = [desk[b] EXCEPT !.fresh = FALSE]
        BY <2>4, <3>1, <3>3
      <4>2. QED
        BY <4>1, <3>3, OvertakenResolution
    <3>4. CASE b # a /\ ~(desk[b].pc = "resolve" /\ desk[b].id = desk[a].id)
      BY <2>4, <3>1, <3>4
    <3>5. QED
      BY <3>2, <3>3, <3>4
  <2>9. ReportTypes'
    <3>1. desk' \in [Admins -> {[pc |-> "idle"]} \cup Resolution]
      BY <2>4, <2>8
    <3>2. report' \in [ReportIds -> {NoReport} \cup ReportRow]
      BY <2>3, <2>5, <2>6 DEF ReportsInv, ReportTypes
    <3>3. QED
      BY <3>1, <3>2 DEF ReportTypes
  <2>10. FreshNotes'
    <3>1. ASSUME NEW b \in Admins, desk'[b].pc = "resolve"
          PROVE  /\ desk'[b].id \in Filed'
                 /\ IF desk'[b].given # NoNote THEN desk'[b].note = desk'[b].given
                    ELSE desk'[b].fresh => desk'[b].note = report'[desk'[b].id].note
      <4>1. desk[b].pc = "resolve" /\ desk'[b].id = desk[b].id /\ desk'[b].note = desk[b].note
            /\ desk'[b].given = desk[b].given
            /\ (desk'[b].fresh => desk[b].fresh /\ desk[b].id # desk[a].id)
        BY <2>8, <3>1
      <4>2. desk[b].id \in Filed /\ desk[b].id \in ReportIds /\ WritesNote(desk[b])
        BY <4>1 DEF ReportsInv, FreshNotes, Filed
      <4>3. QED
        BY <4>1, <4>2, <2>6, <2>7 DEF WritesNote
    <3>2. QED
      BY <3>1 DEF FreshNotes, WritesNote
  <2>11. ASSUME NEW id \in Filed, report'[id].note # report[id].note
         PROVE  Explained(id)
    <3>1. id = desk[a].id /\ report'[id].note = desk[a].note
      BY <2>5, <2>6, <2>11 DEF Filed
    <3>2. IF desk[a].given = NoNote THEN ~desk[a].fresh ELSE report'[id].note = desk[a].given
      BY <2>1, <2>11, <3>1 DEF ReportsInv, FreshNotes, WritesNote
    <3>3. desk'[a].pc = "idle"
      BY <2>4
    <3>4. QED
      BY <2>1, <3>1, <3>2, <3>3
  <2>12. QED
    BY <2>9, <2>10, <2>11 DEF ReportsInv
<1>6. ASSUME UNCHANGED <<report, desk>>
      PROVE  Goal
  BY <1>6 DEF ReportsInv, ReportTypes, FreshNotes, WritesNote, Filed
<1> HIDE DEF Goal
<1>7. Goal
  BY <1>1, <1>3, <1>4, <1>5, <1>6
  DEF ReportsNext, reportVars, RemoveReview, TurnOpen, TurnCount, TurnPage
<1>8. QED
  BY <1>7 DEF Goal

(***************************************************************************)
(* Turning the pages of the list of reports                                *)
(***************************************************************************)

Turning == [pc : {"count", "page", "done"}, filter : Outcomes \cup {"open", All},
            page : Nat \ {0}, pages : Nat, seen : SUBSET ReportIds, due : SUBSET ReportIds,
            steady : BOOLEAN]

TurnTypes == IsFiniteSet(Filed) /\ turn \in {[pc |-> "none"]} \cup Turning

\* What is due and was not shown is still to come: it is on the list, and not before
\* the page in hand.
StillToCome ==
  turn.pc \in {"count", "page"} /\ turn.steady =>
    \A id \in turn.due :
      /\ id \in Listed(turn.filter)
      /\ id \in turn.seen \/ Cardinality(Ahead(id, Listed(turn.filter))) >= Offset(turn.page)

\* The pages that were counted hold the list.
PagesSuffice ==
  turn.pc = "page" /\ turn.steady =>
    Cardinality(Listed(turn.filter)) <= turn.pages * PageSize

\* The inductive invariant of the turning of pages.
TurnInv == TurnTypes /\ StillToCome /\ PagesSuffice /\ TurnsMissNothing

LEMMA TurnInvInit == ReportsInit => TurnInv
<1> SUFFICES ASSUME ReportsInit PROVE TurnInv
  OBVIOUS
<1>1. Filed = {}
  BY DEF ReportsInit, Filed
<1>2. IsFiniteSet(Filed)
  BY <1>1, FS_EmptySet
<1> QED
  BY <1>2 DEF ReportsInit, TurnInv, TurnTypes, StillToCome, PagesSuffice, TurnsMissNothing

\* The part of a list that is ahead of a report is smaller than the list, and grows
\* with it.
LEMMA AheadCount ==
  ASSUME NEW rows, IsFiniteSet(rows), NEW id \in rows, id \in Nat
  PROVE  /\ Cardinality(Ahead(id, rows)) \in Nat /\ Cardinality(rows) \in Nat
         /\ Cardinality(Ahead(id, rows)) < Cardinality(rows)
<1>1. Ahead(id, rows) \in SUBSET (rows \ {id})
  BY DEF Ahead
<1>2. IsFiniteSet(rows \ {id}) /\ Cardinality(rows \ {id}) = Cardinality(rows) - 1
  BY FS_RemoveElement
<1>3. IsFiniteSet(Ahead(id, rows)) /\ Cardinality(Ahead(id, rows)) <= Cardinality(rows \ {id})
  BY <1>1, <1>2, FS_Subset
<1>4. Cardinality(rows) \in Nat /\ Cardinality(Ahead(id, rows)) \in Nat
  BY <1>3, FS_CardinalityType
<1> QED
  BY <1>2, <1>3, <1>4

LEMMA AheadGrows ==
  ASSUME NEW more, IsFiniteSet(more), NEW rows \in SUBSET more, NEW id
  PROVE  /\ Cardinality(Ahead(id, rows)) \in Nat /\ Cardinality(Ahead(id, more)) \in Nat
         /\ Cardinality(Ahead(id, rows)) <= Cardinality(Ahead(id, more))
<1>1. Ahead(id, rows) \in SUBSET Ahead(id, more) /\ Ahead(id, more) \in SUBSET more
  BY DEF Ahead
<1>2. IsFiniteSet(Ahead(id, more))
  BY <1>1, FS_Subset
<1>3. IsFiniteSet(Ahead(id, rows)) /\ Cardinality(Ahead(id, rows)) <= Cardinality(Ahead(id, more))
  BY <1>1, <1>2, FS_Subset
<1> QED
  BY <1>2, <1>3, FS_CardinalityType

\* Rounding up, as the number of pages is computed, leaves nothing out.
LEMMA PagesHold ==
  ASSUME NEW total \in Nat, NEW size \in Nat \ {0}
  PROVE  /\ (total + size - 1) \div size \in Nat
         /\ total <= ((total + size - 1) \div size) * size
<1> DEFINE n == total + size - 1
           q == n \div size
<1>1. n \in Nat
  OBVIOUS
<1> HIDE DEF n
<1>2. q \in Nat /\ n = q * size + (n % size) /\ n % size \in 0 .. size - 1
  BY <1>1
<1> HIDE DEF q
<1>3. q * size \in Nat
  BY <1>2
<1>4. n < q * size + size
  BY <1>1, <1>2, <1>3
<1>5. total <= q * size
  BY <1>1, <1>3, <1>4 DEF n
<1> QED
  BY <1>2, <1>5 DEF q, n

LEMMA Offsets ==
  ASSUME NEW page \in Nat \ {0}
  PROVE  /\ Offset(page) \in Nat
         /\ Offset(page + 1) = Offset(page) + PageSize
         /\ Offset(1) = 0
         /\ \A pages \in Nat : pages <= page => pages * PageSize <= Offset(page) + PageSize
<1>1. PageSize \in Nat \ {0}
  BY ReportsAssumption
<1>2. Offset(page) \in Nat /\ Offset(1) = 0
  BY <1>1 DEF Offset
<1>3. Offset(page + 1) = Offset(page) + PageSize
  BY <1>1 DEF Offset
<1>4. ASSUME NEW pages \in Nat, pages <= page
      PROVE  pages * PageSize <= Offset(page) + PageSize
  <2>1. Offset(page) + PageSize = page * PageSize
    BY <1>1 DEF Offset
  <2>2. pages * PageSize <= page * PageSize
    BY <1>1, <1>4
  <2> QED
    BY <2>1, <2>2
<1> QED
  BY <1>2, <1>3, <1>4

\* One row is filed or resolved, and the turn is told.
TouchesRow(id) ==
  /\ report' \in [ReportIds -> {NoReport} \cup ReportRow]
  /\ report'[id] \in ReportRow
  /\ \A other \in ReportIds : other # id => report'[other] = report[other]
  /\ Disturbed(id, report'[id].status)

LEMMA ReportsTouch ==
  ASSUME ReportsInv, [ReportsNext]_reportVars
  PROVE  \/ UNCHANGED <<report, turn>>
         \/ \E id \in ReportIds : TouchesRow(id)
         \/ /\ UNCHANGED report
            /\ \/ \E filter \in Outcomes \cup {"open", All} : TurnOpen(filter)
               \/ TurnCount \/ TurnPage
<1>1. ASSUME NEW u \in Users, NEW target \in Target, CreateReport(u, target)
      PROVE  \E id \in ReportIds : TouchesRow(id)
  <2>1. NextReport \in ReportIds /\ NextReport \notin Filed
    BY <1>1, NextReportIsFree DEF CreateReport
  <2>2. PICK id \in ReportIds :
          /\ report' = [report EXCEPT ![id] = [by |-> u, target |-> target, status |-> "open",
                                               note |-> NoNote]]
          /\ Disturbed(id, "open")
    BY <1>1, <2>1 DEF CreateReport
  <2>3. [by |-> u, target |-> target, status |-> "open", note |-> NoNote] \in ReportRow
    BY DEF ReportRow, Given
  <2>4. report'[id] \in ReportRow /\ report'[id].status = "open"
    BY <2>2, <2>3 DEF ReportsInv, ReportTypes
  <2>5. TouchesRow(id)
    BY <2>2, <2>3, <2>4 DEF TouchesRow, ReportsInv, ReportTypes
  <2> QED
    BY <2>5
<1>2. ASSUME NEW a \in Admins, ResolveWrite(a)
      PROVE  \E id \in ReportIds : TouchesRow(id)
  <2>1. desk[a] \in Resolution /\ desk[a].id \in Filed
    BY <1>2 DEF ResolveWrite, ReportsInv, ReportTypes, FreshNotes
  <2>2. report[desk[a].id] \in ReportRow /\ desk[a].id \in ReportIds
    BY <2>1 DEF ReportsInv, ReportTypes, Filed
  <2>3. report' = [report EXCEPT ![desk[a].id] =
                     [@ EXCEPT !.status = desk[a].status, !.note = desk[a].note]]
        /\ Disturbed(desk[a].id, desk[a].status)
    BY <1>2 DEF ResolveWrite
  <2>4. report'[desk[a].id] \in ReportRow /\ report'[desk[a].id].status = desk[a].status
    BY <2>1, <2>2, <2>3 DEF ReportsInv, ReportTypes, ReportRow, Resolution
  <2>5. PICK id \in ReportIds : id = desk[a].id
    BY <2>2
  <2>6. \A other \in ReportIds : other # id => report'[other] = report[other]
    BY <2>3, <2>5 DEF ReportsInv, ReportTypes
  <2>7. report' \in [ReportIds -> {NoReport} \cup ReportRow]
    BY <2>3, <2>4, <2>5, <2>6 DEF ReportsInv, ReportTypes
  <2>8. TouchesRow(id)
    BY <2>3, <2>4, <2>5, <2>6, <2>7 DEF TouchesRow
  <2> QED
    BY <2>8
<1> QED
  BY <1>1, <1>2
  DEF ReportsNext, reportVars, RemoveReview, ResolveRead, ResolveFail, TurnOpen, TurnCount, TurnPage

\* A list gains or loses at most the report whose row is written.
LEMMA ListAfterTouch ==
  ASSUME ReportsInv, NEW id \in ReportIds, TouchesRow(id), NEW filter
  PROVE  /\ Filed' = Filed \cup {id}
         /\ Listed(filter)' = IF filter \in {All, report'[id].status}
                                THEN Listed(filter) \cup {id} ELSE Listed(filter) \ {id}
<1>1. report'[id] # NoReport
  BY ReportRows DEF TouchesRow
<1>2. Filed' = Filed \cup {id}
  BY <1>1 DEF Filed, TouchesRow
<1>3. Filed \subseteq ReportIds
  BY DEF Filed
<1>4. Listed(filter)' = {x \in Filed' : filter \in {All, report'[x].status}}
  BY DEF Listed
<1> QED
  BY <1>2, <1>3, <1>4 DEF Listed, TouchesRow

LEMMA TurnTouched ==
  ASSUME ReportsInv, TurnInv, NEW id \in ReportIds, TouchesRow(id)
  PROVE  TurnInv'
<1>1. IsFiniteSet(Filed')
  BY ListAfterTouch, FS_AddElement DEF TurnInv, TurnTypes
<1>2. CASE turn = [pc |-> "none"]
  <2>1. turn' = turn
    BY <1>2 DEF TouchesRow, Disturbed
  <2> QED
    BY <1>1, <1>2, <2>1 DEF TurnInv, TurnTypes, StillToCome, PagesSuffice, TurnsMissNothing
<1>3. CASE turn \in Turning
  <2> DEFINE f == turn.filter
  <2>1. /\ turn' \in Turning /\ turn'.filter = f
        /\ turn'.pc = turn.pc /\ turn'.page = turn.page /\ turn'.pages = turn.pages
        /\ turn'.seen = turn.seen /\ turn'.due = turn.due
        /\ turn'.steady => turn.steady
    BY <1>3 DEF TouchesRow, Disturbed, Turning
  <2>2. TurnTypes'
    BY <1>1, <2>1 DEF TurnTypes
  <2>3. PICK now : now = {x \in Filed' : f \in {All, report'[x].status}}
    OBVIOUS
  <2>4. Listed(turn.filter)' = now
    BY <2>1, <2>3 DEF Listed
  <2>5. now = IF f \in {All, report'[id].status} THEN Listed(f) \cup {id} ELSE Listed(f) \ {id}
    BY <2>3, ListAfterTouch DEF Listed
  <2>6. IsFiniteSet(now)
    BY <1>1, <2>3, FS_Subset
  <2>7. turn'.pc \in {"count", "page"} /\ turn'.steady
          => Listed(f) \subseteq now /\ (turn.pc = "page" => now = Listed(f))
    BY <1>3, <2>1, <2>5 DEF TouchesRow, Disturbed, Turning
  <2>8. StillToCome'
    <3> SUFFICES ASSUME turn'.pc \in {"count", "page"}, turn'.steady, NEW x \in turn'.due
                 PROVE  x \in now
                        /\ (x \in turn'.seen \/ Cardinality(Ahead(x, now)) >= Offset(turn'.page))
      BY <2>4 DEF StillToCome, Ahead, Offset
    <3>1. x \in Listed(f)
          /\ (x \in turn.seen \/ Cardinality(Ahead(x, Listed(f))) >= Offset(turn.page))
      BY <2>1 DEF TurnInv, StillToCome
    <3>2. Listed(f) \in SUBSET now
      BY <2>7
    <3>3. /\ Cardinality(Ahead(x, Listed(f))) \in Nat /\ Cardinality(Ahead(x, now)) \in Nat
          /\ Cardinality(Ahead(x, Listed(f))) <= Cardinality(Ahead(x, now))
      BY <2>6, <3>2, AheadGrows
    <3>4. Offset(turn.page) \in Nat
      BY <1>3, Offsets DEF Turning
    <3> QED
      BY <2>1, <3>1, <3>2, <3>3, <3>4
  <2>9. PagesSuffice'
    <3> SUFFICES ASSUME turn'.pc = "page", turn'.steady
                 PROVE  Cardinality(now) <= turn'.pages * PageSize
      BY <2>4 DEF PagesSuffice
    <3> QED
      BY <2>1, <2>7 DEF TurnInv, PagesSuffice
  <2>10. TurnsMissNothing'
    BY <2>1 DEF TurnInv, TurnsMissNothing
  <2> QED
    BY <2>2, <2>8, <2>9, <2>10 DEF TurnInv
<1> QED
  BY <1>2, <1>3 DEF TurnInv, TurnTypes

LEMMA TurnOpened ==
  ASSUME ReportsInv, TurnInv, UNCHANGED report, NEW filter \in Outcomes \cup {"open", All},
         TurnOpen(filter)
  PROVE  TurnInv'
<1>1. Filed' = Filed /\ IsFiniteSet(Filed)
  BY DEF Filed, TurnInv, TurnTypes
<1>2. /\ turn' = [pc |-> "count", filter |-> filter, page |-> 1, pages |-> 0, seen |-> {},
                  due |-> Listed(filter), steady |-> TRUE]
      /\ Listed(filter) \subseteq ReportIds
  BY DEF TurnOpen, Listed, Filed
<1>3. turn' \in Turning
  BY <1>2 DEF Turning
<1>4. Listed(turn.filter)' = Listed(filter)
  BY <1>1, <1>2 DEF Listed
<1>5. IsFiniteSet(Listed(filter))
  BY <1>1, FS_Subset DEF Listed
<1>6. StillToCome'
  <2> SUFFICES ASSUME NEW id \in Listed(filter)
               PROVE  Cardinality(Ahead(id, Listed(filter))) >= Offset(1)
    BY <1>2, <1>4 DEF StillToCome, Ahead, Offset
  <2> QED
    BY <1>5, AheadGrows, Offsets
<1> QED
  BY <1>1, <1>2, <1>3, <1>6 DEF TurnInv, TurnTypes, PagesSuffice, TurnsMissNothing

LEMMA TurnCounted ==
  ASSUME ReportsInv, TurnInv, UNCHANGED report, TurnCount
  PROVE  TurnInv'
<1> DEFINE total == Cardinality(Listed(turn.filter))
           pages == (total + PageSize - 1) \div PageSize
<1>1. Filed' = Filed /\ IsFiniteSet(Filed)
  BY DEF Filed, TurnInv, TurnTypes
<1>2. turn \in Turning /\ turn.pc = "count" /\ turn' = [turn EXCEPT !.pc = "page", !.pages = pages]
  BY DEF TurnCount, TurnInv, TurnTypes
<1>3. IsFiniteSet(Listed(turn.filter))
  BY <1>1, FS_Subset DEF Listed
<1>4. total \in Nat
  BY <1>3, FS_CardinalityType
<1>5. pages \in Nat /\ total <= pages * PageSize
  BY <1>4, PagesHold, ReportsAssumption
<1> HIDE DEF pages
<1>6. /\ turn' \in Turning /\ turn'.pc = "page" /\ turn'.pages = pages
      /\ \A f \in {"filter", "page", "seen", "due", "steady"} : turn'[f] = turn[f]
  BY <1>2, <1>5 DEF Turning
<1>7. Listed(turn.filter)' = Listed(turn.filter)
  BY <1>1, <1>6 DEF Listed
<1>8. StillToCome'
  BY <1>2, <1>6, <1>7 DEF TurnInv, StillToCome, Ahead, Offset
<1>9. PagesSuffice'
  BY <1>5, <1>6, <1>7 DEF PagesSuffice
<1> QED
  BY <1>1, <1>6, <1>8, <1>9 DEF TurnInv, TurnTypes, TurnsMissNothing

LEMMA TurnedPage ==
  ASSUME ReportsInv, TurnInv, UNCHANGED report, TurnPage
  PROVE  TurnInv'
<1> DEFINE rows == Listed(turn.filter)
           rank(id) == Cardinality(Ahead(id, rows))
           shown == PageOf(rows, turn.page)
<1>1. Filed' = Filed /\ IsFiniteSet(Filed)
  BY DEF Filed, TurnInv, TurnTypes
<1>2. turn \in Turning /\ turn.pc = "page"
  BY DEF TurnPage, TurnInv, TurnTypes
<1>3. shown \subseteq ReportIds /\ rows \subseteq Nat
  BY ReportsAssumption DEF PageOf, Listed, Filed
<1>4. /\ turn' = [turn EXCEPT !.pc = IF turn.page < turn.pages THEN "count" ELSE "done",
                              !.page = IF turn.page < turn.pages THEN turn.page + 1 ELSE turn.page,
                              !.seen = turn.seen \cup shown]
  BY <1>2 DEF TurnPage, Turning
<1>5. /\ turn' \in Turning /\ turn'.filter = turn.filter /\ turn'.due = turn.due
      /\ turn'.steady = turn.steady /\ turn'.seen = turn.seen \cup shown
      /\ turn.page < turn.pages => turn'.pc = "count" /\ turn'.page = turn.page + 1
      /\ ~(turn.page < turn.pages) => turn'.pc = "done"
  <2>1. turn.page \in Nat \ {0} /\ turn.page + 1 \in Nat \ {0}
    BY <1>2 DEF Turning
  <2>2. turn.seen \cup shown \in SUBSET ReportIds
    BY <1>2, <1>3 DEF Turning
  <2> HIDE DEF shown
  <2>3. turn' \in Turning
    BY <1>2, <1>4, <2>1, <2>2 DEF Turning
  <2> QED
    BY <1>2, <1>4, <2>3 DEF Turning
<1>6. Listed(turn.filter)' = rows
  BY <1>1, <1>5 DEF Listed
<1>7. IsFiniteSet(rows)
  BY <1>1, FS_Subset DEF Listed
<1>8. /\ turn.page \in Nat \ {0} /\ turn.pages \in Nat
      /\ Offset(turn.page) \in Nat /\ PageSize \in Nat
      /\ Offset(turn.page + 1) = Offset(turn.page) + PageSize
      /\ turn.pages <= turn.page => turn.pages * PageSize <= Offset(turn.page) + PageSize
  BY <1>2, Offsets, ReportsAssumption DEF Turning
\* What is due is shown on this page, or was shown before, or comes on a later page.
<1>9. ASSUME turn.steady, NEW id \in turn.due
      PROVE  /\ id \in rows /\ rank(id) \in Nat /\ rank(id) < Cardinality(rows)
             /\ id \in turn.seen \cup shown \/ rank(id) >= Offset(turn.page) + PageSize
  <2>1. id \in rows /\ (id \in turn.seen \/ rank(id) >= Offset(turn.page))
    BY <1>2, <1>9 DEF TurnInv, StillToCome
  <2>2. rank(id) \in Nat /\ rank(id) < Cardinality(rows)
    BY <1>3, <1>7, <2>1, AheadCount
  <2>3. rank(id) \in Offset(turn.page)..Offset(turn.page) + PageSize - 1 => id \in shown
    BY <2>1 DEF PageOf
  <2> QED
    BY <1>8, <2>1, <2>2, <2>3
<1>10. StillToCome'
  <2> SUFFICES ASSUME turn'.pc = "count", turn'.steady, NEW id \in turn'.due
               PROVE  id \in rows /\ (id \in turn'.seen \/ rank(id) >= Offset(turn'.page))
    BY <1>5, <1>6 DEF StillToCome, Ahead, Offset
  <2> QED
    BY <1>5, <1>8, <1>9
<1>11. TurnsMissNothing'
  <2> SUFFICES ASSUME turn'.pc = "done", turn'.steady, NEW id \in turn'.due
               PROVE  id \in turn'.seen
    BY DEF TurnsMissNothing
  <2>1. turn.pages <= turn.page
    BY <1>5, <1>8
  <2>2. Cardinality(rows) <= turn.pages * PageSize
    BY <1>2, <1>5 DEF TurnInv, PagesSuffice
  <2>3. Cardinality(rows) \in Nat /\ turn.pages * PageSize \in Nat
    BY <1>7, <1>8, FS_CardinalityType
  <2> QED
    BY <1>5, <1>8, <1>9, <2>1, <2>2, <2>3
<1> QED
  BY <1>1, <1>5, <1>10, <1>11 DEF TurnInv, TurnTypes, PagesSuffice

LEMMA TurnInvNext == ReportsInv /\ TurnInv /\ [ReportsNext]_reportVars => TurnInv'
<1> SUFFICES ASSUME ReportsInv, TurnInv, [ReportsNext]_reportVars PROVE TurnInv'
  OBVIOUS
<1>1. CASE UNCHANGED <<report, turn>>
  BY <1>1 DEF TurnInv, TurnTypes, StillToCome, PagesSuffice, TurnsMissNothing, Filed, Listed,
              Ahead, Offset
<1> QED
  BY <1>1, ReportsTouch, TurnTouched, TurnOpened, TurnCounted, TurnedPage

(***************************************************************************)
(* Induction, and sums over finite sets.  What a fold computes follows     *)
(* from the least element of a set of counterexamples (WFMin).             *)
(***************************************************************************)

\* Induction over the naturals.
LEMMA NatSetInduction ==
  ASSUME NEW N, 0 \in N, \A n \in Nat : n \in N => n + 1 \in N
  PROVE  Nat \subseteq N
<1> DEFINE Rest == Nat \ N
<1> SUFFICES ASSUME Rest # {} PROVE FALSE
  OBVIOUS
<1>1. Rest \subseteq Nat
  OBVIOUS
<1>2. PICK m \in Rest : \A k \in Rest : ~(<<k, m>> \in OpToRel(<, Nat))
  BY <1>1, WFMin, NatLessThanWellFounded, Zenon
<1>3. \A x, y \in Nat : x < y => <<x, y>> \in OpToRel(<, Nat)
  <2> SUFFICES ASSUME NEW x \in Nat, NEW y \in Nat, x < y
               PROVE  <<x, y>> \in {ss \in Nat \X Nat : ss[1] < ss[2]}
    BY Zenon DEF OpToRel
  <2> QED
    OBVIOUS
<1>4. m \in Nat /\ m \notin N
  OBVIOUS
<1>5. m # 0
  BY <1>4
<1>6. m - 1 \in Nat /\ m - 1 < m /\ (m - 1) + 1 = m
  BY <1>4, <1>5
<1>7. m - 1 \in N
  <2> SUFFICES ASSUME m - 1 \notin N PROVE FALSE
    OBVIOUS
  <2>1. m - 1 \in Rest
    BY <1>6
  <2> QED
    BY <2>1, <1>2, <1>3, <1>4, <1>6, Zenon
<1> QED
  BY <1>4, <1>6, <1>7

\* Induction over the subsets of a finite set, from those with an element less.
LEMMA RemovalInduction ==
  ASSUME NEW S, IsFiniteSet(S), NEW Good, {} \in Good,
         \A T \in SUBSET S : T # {} /\ (\A x \in T : T \ {x} \in Good) => T \in Good
  PROVE  \A T \in SUBSET S : T \in Good
<1> DEFINE N == {n \in Nat : \A T \in SUBSET S : Cardinality(T) = n => T \in Good}
<1>1. \A T \in SUBSET S : IsFiniteSet(T) /\ Cardinality(T) \in Nat
  BY FS_Subset, FS_CardinalityType
<1>2. 0 \in N
  BY <1>1, FS_EmptySet
<1>3. ASSUME NEW n \in Nat, n \in N
      PROVE  n + 1 \in N
  <2> SUFFICES ASSUME NEW T \in SUBSET S, Cardinality(T) = n + 1
               PROVE  T \in Good
    BY <1>3
  <2>1. IsFiniteSet(T) /\ T # {}
    BY <1>1, <1>3, FS_EmptySet
  <2>2. ASSUME NEW x \in T PROVE T \ {x} \in Good
    <3>1. Cardinality(T \ {x}) = Cardinality(T) - 1
      BY <2>1, FS_RemoveElement
    <3>2. Cardinality(T \ {x}) = n
      BY <3>1
    <3> QED
      BY <1>3, <3>2
  <2> QED
    BY <2>1, <2>2
<1> HIDE DEF N
<1>4. Nat \subseteq N
  BY <1>2, <1>3, NatSetInduction
<1> QED
  BY <1>1, <1>4 DEF N

\* One round of the recursion that a sum stands for.
Pick(s) == CHOOSE x \in s : TRUE
Round(f, S, g) ==
  [s \in SUBSET S |-> IF s = {} THEN 0 ELSE f[Pick(s)] + g[s \ {Pick(s)}]]

LEMMA Picked == ASSUME NEW s, s # {} PROVE Pick(s) \in s
BY DEF Pick

\* The recursion has a solution: after as many rounds as there are elements.
LEMMA SumExists ==
  ASSUME NEW f, NEW S, IsFiniteSet(S)
  PROVE  \E g : g = Round(f, S, g)
<1> DEFINE Solves(g, n) == \A s \in SUBSET S : Cardinality(s) <= n => g[s] = Round(f, S, g)[s]
           N == {n \in Nat : \E g : Solves(g, n)}
<1>1. \A s \in SUBSET S : IsFiniteSet(s) /\ Cardinality(s) \in Nat /\ (Cardinality(s) = 0 <=> s = {})
  BY FS_Subset, FS_CardinalityType, FS_EmptySet
<1>2. ASSUME NEW s \in SUBSET S, s # {}
      PROVE  /\ s \ {Pick(s)} \in SUBSET S
             /\ Cardinality(s \ {Pick(s)}) = Cardinality(s) - 1
  BY <1>1, <1>2, Picked, FS_RemoveElement
<1>3. ASSUME NEW g, NEW n \in Nat, Solves(g, n), NEW s \in SUBSET S, Cardinality(s) <= n + 1
      PROVE  Round(f, S, g)[s] = Round(f, S, Round(f, S, g))[s]
  <2>1. CASE s = {}
    BY <2>1 DEF Round
  <2>2. CASE s # {}
    <3>1. s \ {Pick(s)} \in SUBSET S /\ Cardinality(s \ {Pick(s)}) <= n
      BY <1>1, <1>2, <1>3, <2>2
    <3>2. g[s \ {Pick(s)}] = Round(f, S, g)[s \ {Pick(s)}]
      BY <1>3, <3>1
    <3>3. \A h : Round(f, S, h)[s] = f[Pick(s)] + h[s \ {Pick(s)}]
      BY <2>2 DEF Round
    <3> QED
      BY <3>2, <3>3
  <2> QED
    BY <2>1, <2>2
<1>4. 0 \in N
  <2> DEFINE g == Round(f, S, f)
  <2>1. Solves(g, 0)
    <3> SUFFICES ASSUME NEW s \in SUBSET S, Cardinality(s) <= 0
                 PROVE  g[s] = Round(f, S, g)[s]
      OBVIOUS
    <3>1. s = {}
      BY <1>1
    <3> QED
      BY <3>1 DEF Round
  <2> HIDE DEF g
  <2> QED
    BY <2>1
<1>5. ASSUME NEW n \in Nat, n \in N PROVE n + 1 \in N
  <2>1. PICK g : Solves(g, n)
    BY <1>5
  <2> DEFINE h == Round(f, S, g)
  <2>2. Solves(h, n + 1)
    BY <1>3, <2>1
  <2> HIDE DEF h
  <2> QED
    BY <2>2
<1>6. PICK g : Solves(g, Cardinality(S))
  <2> HIDE DEF N
  <2>1. Nat \subseteq N
    BY <1>4, <1>5, NatSetInduction
  <2> QED
    BY <1>1, <2>1 DEF N
<1> DEFINE h == Round(f, S, g)
<1>7. \A s \in SUBSET S : Cardinality(s) <= Cardinality(S) + 1
  BY <1>1, FS_Subset
<1>8. \A s \in SUBSET S : h[s] = Round(f, S, h)[s]
  BY <1>1, <1>3, <1>6, <1>7
<1>9. h = [s \in SUBSET S |-> h[s]] /\ Round(f, S, h) = [s \in SUBSET S |-> Round(f, S, h)[s]]
  BY DEF Round
<1> HIDE DEF h
<1>10. h = Round(f, S, h)
  BY <1>8, <1>9
<1> QED
  BY <1>10

LEMMA SumIs ==
  ASSUME NEW f, NEW S, IsFiniteSet(S)
  PROVE  \E g : g = Round(f, S, g) /\ SumFunctionOnSet(f, S) = g[S]
<1> DEFINE it == CHOOSE g : g = Round(f, S, g)
<1>1. it = Round(f, S, it)
  BY SumExists
<1>2. SumFunctionOnSet(f, S) = it[S]
  BY Zenon DEF SumFunctionOnSet, FoldFunctionOnSet, MapThenFoldSet, Round, Pick
<1> QED
  BY <1>1, <1>2

\* A sum is that of one element and of the others.
LEMMA SumOfPicked ==
  ASSUME NEW f, NEW S, IsFiniteSet(S)
  PROVE  /\ SumFunctionOnSet(f, {}) = 0
         /\ S # {} => SumFunctionOnSet(f, S) = f[Pick(S)] + SumFunctionOnSet(f, S \ {Pick(S)})
<1>1. IsFiniteSet({})
  BY FS_EmptySet
<1>2. SumFunctionOnSet(f, {}) = 0
  BY <1>1, SumIs DEF Round
<1>3. ASSUME S # {}
      PROVE  SumFunctionOnSet(f, S) = f[Pick(S)] + SumFunctionOnSet(f, S \ {Pick(S)})
  <2> DEFINE T == S \ {Pick(S)}
  <2>1. PICK g : g = Round(f, S, g) /\ SumFunctionOnSet(f, S) = g[S]
    BY SumIs
  <2>2. IsFiniteSet(T) /\ T \in SUBSET S
    BY FS_Subset
  <2>3. PICK h : h = Round(f, T, h) /\ SumFunctionOnSet(f, T) = h[T]
    BY <2>2, SumIs
  <2> DEFINE Same == {s \in SUBSET T : g[s] = h[s]}
  <2>4. {} \in Same
    <3>1. g[{}] = 0
      BY <2>1 DEF Round
    <3>2. h[{}] = 0
      BY <2>3 DEF Round
    <3> QED
      BY <3>1, <3>2
  <2>5. ASSUME NEW s \in SUBSET T, s # {}, \A x \in s : s \ {x} \in Same
        PROVE  s \in Same
    <3>1. s \ {Pick(s)} \in Same
      BY <2>5, Picked
    <3>2. g[s] = f[Pick(s)] + g[s \ {Pick(s)}]
      BY <2>1, <2>2, <2>5 DEF Round
    <3>3. h[s] = f[Pick(s)] + h[s \ {Pick(s)}]
      BY <2>3, <2>5 DEF Round
    <3> QED
      BY <3>1, <3>2, <3>3
  <2>6. T \in Same
    <3> HIDE DEF T, Same
    <3> QED
      BY <2>2, <2>4, <2>5, RemovalInduction
  <2>7. g[S] = f[Pick(S)] + g[T]
    BY <1>3, <2>1 DEF Round
  <2> QED
    BY <2>1, <2>3, <2>6, <2>7
<1> QED
  BY <1>2, <1>3

\* The same, whatever the element.
LEMMA SumNat ==
  ASSUME NEW S, IsFiniteSet(S), NEW f, \A x \in S : f[x] \in Nat
  PROVE  \A T \in SUBSET S : SumFunctionOnSet(f, T) \in Nat
<1> DEFINE Good == {T \in SUBSET S : SumFunctionOnSet(f, T) \in Nat}
<1>1. {} \in Good
  <2>1. SumFunctionOnSet(f, {}) = 0
    BY FS_EmptySet, SumOfPicked
  <2> QED
    BY <2>1
<1>2. ASSUME NEW T \in SUBSET S, T # {}, \A x \in T : T \ {x} \in Good
      PROVE  T \in Good
  <2>1. Pick(T) \in T
    BY <1>2, Picked
  <2>2. SumFunctionOnSet(f, T) = f[Pick(T)] + SumFunctionOnSet(f, T \ {Pick(T)})
    BY <1>2, FS_Subset, SumOfPicked
  <2> QED
    BY <1>2, <2>1, <2>2
<1> HIDE DEF Good
<1>3. \A T \in SUBSET S : T \in Good
  BY <1>1, <1>2, RemovalInduction
<1> QED
  BY <1>3 DEF Good

LEMMA SumRemove ==
  ASSUME NEW S, IsFiniteSet(S), NEW f, \A x \in S : f[x] \in Nat
  PROVE  \A x \in S : SumFunctionOnSet(f, S) = f[x] + SumFunctionOnSet(f, S \ {x})
<1> DEFINE Sum(T) == SumFunctionOnSet(f, T)
           Good == {T \in SUBSET S : \A x \in T : Sum(T) = f[x] + Sum(T \ {x})}
<1>1. \A T \in SUBSET S : Sum(T) \in Nat
  BY SumNat
<1>2. \A T \in SUBSET S : T # {} => Sum(T) = f[Pick(T)] + Sum(T \ {Pick(T)})
  BY FS_Subset, SumOfPicked
<1> HIDE DEF Sum
<1>3. {} \in Good
  OBVIOUS
<1>4. ASSUME NEW T \in SUBSET S, T # {}, \A x \in T : T \ {x} \in Good
      PROVE  T \in Good
  <2> DEFINE p == Pick(T)
  <2>1. p \in T /\ Sum(T) = f[p] + Sum(T \ {p})
    BY <1>2, <1>4, Picked
  <2> HIDE DEF p
  <2>2. ASSUME NEW x \in T, x # p
        PROVE  Sum(T) = f[x] + Sum(T \ {x})
    <3>1. Sum(T \ {p}) = f[x] + Sum((T \ {p}) \ {x})
      BY <1>4, <2>1, <2>2
    <3>2. Sum(T \ {x}) = f[p] + Sum((T \ {x}) \ {p})
      BY <1>4, <2>1, <2>2
    <3>3. (T \ {p}) \ {x} = (T \ {x}) \ {p}
      OBVIOUS
    <3>4. f[x] \in Nat /\ f[p] \in Nat /\ Sum((T \ {x}) \ {p}) \in Nat
      BY <1>1, <2>1
    <3> DEFINE c == Sum((T \ {x}) \ {p})
    <3>5. Sum(T) = f[p] + (f[x] + c)
      BY <2>1, <3>1, <3>3
    <3>6. Sum(T \ {x}) = f[p] + c /\ c \in Nat
      BY <3>2, <3>4
    <3> HIDE DEF c
    <3>7. f[p] + (f[x] + c) = f[x] + (f[p] + c)
      BY <3>4, <3>6
    <3> QED
      BY <3>5, <3>6, <3>7
  <2> QED
    BY <2>1, <2>2
<1> HIDE DEF Good
<1>5. \A T \in SUBSET S : T \in Good
  BY <1>3, <1>4, RemovalInduction
<1>6. S \in Good
  BY <1>5
<1> QED
  BY <1>6 DEF Good, Sum

\* Only the terms count.
LEMMA SumSame ==
  ASSUME NEW S, IsFiniteSet(S), NEW f, NEW g, \A x \in S : f[x] = g[x]
  PROVE  SumFunctionOnSet(f, S) = SumFunctionOnSet(g, S)
<1> DEFINE Good == {T \in SUBSET S : SumFunctionOnSet(f, T) = SumFunctionOnSet(g, T)}
<1>1. {} \in Good
  BY FS_EmptySet, SumOfPicked
<1>2. ASSUME NEW T \in SUBSET S, T # {}, \A x \in T : T \ {x} \in Good
      PROVE  T \in Good
  <2>1. Pick(T) \in T /\ IsFiniteSet(T)
    BY <1>2, Picked, FS_Subset
  <2>2. /\ SumFunctionOnSet(f, T) = f[Pick(T)] + SumFunctionOnSet(f, T \ {Pick(T)})
        /\ SumFunctionOnSet(g, T) = g[Pick(T)] + SumFunctionOnSet(g, T \ {Pick(T)})
    BY <1>2, <2>1, SumOfPicked
  <2> QED
    BY <1>2, <2>1, <2>2
<1> HIDE DEF Good
<1>3. S \in Good
  BY <1>1, <1>2, RemovalInduction
<1> QED
  BY <1>3 DEF Good

LEMMA SumZero ==
  ASSUME NEW S, IsFiniteSet(S), NEW f, \A x \in S : f[x] = 0
  PROVE  SumFunctionOnSet(f, S) = 0
<1> DEFINE Good == {T \in SUBSET S : SumFunctionOnSet(f, T) = 0}
<1>1. {} \in Good
  BY FS_EmptySet, SumOfPicked
<1>2. ASSUME NEW T \in SUBSET S, T # {}, \A x \in T : T \ {x} \in Good
      PROVE  T \in Good
  <2>1. Pick(T) \in T /\ IsFiniteSet(T)
    BY <1>2, Picked, FS_Subset
  <2>2. SumFunctionOnSet(f, T) = f[Pick(T)] + SumFunctionOnSet(f, T \ {Pick(T)})
    BY <1>2, <2>1, SumOfPicked
  <2> QED
    BY <1>2, <2>1, <2>2
<1> HIDE DEF Good
<1>3. S \in Good
  BY <1>1, <1>2, RemovalInduction
<1> QED
  BY <1>3 DEF Good

\* To count is to add ones.
LEMMA SumOfOnes ==
  ASSUME NEW S, IsFiniteSet(S), NEW f, \A x \in S : f[x] = 1
  PROVE  SumFunctionOnSet(f, S) = Cardinality(S)
<1> DEFINE Good == {T \in SUBSET S : SumFunctionOnSet(f, T) = Cardinality(T)}
<1>1. {} \in Good
  BY FS_EmptySet, SumOfPicked
<1>2. ASSUME NEW T \in SUBSET S, T # {}, \A x \in T : T \ {x} \in Good
      PROVE  T \in Good
  <2> DEFINE p == Pick(T)
  <2>1. p \in T /\ IsFiniteSet(T)
    BY <1>2, Picked, FS_Subset
  <2>2. SumFunctionOnSet(f, T) = f[p] + SumFunctionOnSet(f, T \ {p})
    BY <1>2, <2>1, SumOfPicked
  <2> HIDE DEF p
  <2>3. Cardinality(T \ {p}) = Cardinality(T) - 1 /\ Cardinality(T) \in Nat
    BY <2>1, FS_RemoveElement, FS_CardinalityType
  <2>4. f[p] = 1 /\ SumFunctionOnSet(f, T \ {p}) = Cardinality(T \ {p})
    BY <1>2, <2>1
  <2>5. SumFunctionOnSet(f, T) = Cardinality(T)
    BY <2>2, <2>3, <2>4
  <2> QED
    BY <2>5
<1> HIDE DEF Good
<1>3. S \in Good
  BY <1>1, <1>2, RemovalInduction
<1> QED
  BY <1>3 DEF Good

\* What is counted is counted once: the parts of a set add up to the set.  f is what
\* every element counts for, part where it belongs.
LEMMA PartsAddUp ==
  ASSUME NEW S, IsFiniteSet(S), NEW f, \A x \in S : f[x] \in Nat,
         NEW D, IsFiniteSet(D), NEW part, \A x \in S : part[x] \in D
  PROVE  SumFunction([d \in D |-> SumFunctionOnSet(f, {x \in S : part[x] = d})])
           = SumFunctionOnSet(f, S)
<1> DEFINE Of(T, d) == {x \in T : part[x] = d}
           By(T) == [d \in D |-> SumFunctionOnSet(f, Of(T, d))]
           Good == {T \in SUBSET S : SumFunctionOnSet(By(T), D) = SumFunctionOnSet(f, T)}
<1>1. \A T \in SUBSET S : /\ SumFunctionOnSet(f, T) \in Nat
                          /\ IsFiniteSet(T) /\ \A x \in T : f[x] \in Nat
                          /\ \A d \in D : By(T)[d] \in Nat
  <2>1. \A T \in SUBSET S : SumFunctionOnSet(f, T) \in Nat
    BY SumNat
  <2>2. \A T \in SUBSET S : IsFiniteSet(T)
    BY FS_Subset
  <2> QED
    BY <2>1, <2>2
<1>2. {} \in Good
  <2>1. SumFunctionOnSet(f, {}) = 0
    BY FS_EmptySet, SumOfPicked
  <2>2. \A d \in D : By({})[d] = 0
    <3>1. \A d \in D : Of({}, d) = {}
      OBVIOUS
    <3> QED
      BY <2>1, <3>1
  <2> HIDE DEF By
  <2>3. SumFunctionOnSet(By({}), D) = 0
    BY <2>2, SumZero
  <2> QED
    BY <2>1, <2>3
<1>3. ASSUME NEW T \in SUBSET S, T # {}, \A x \in T : T \ {x} \in Good
      PROVE  T \in Good
  <2> DEFINE x == Pick(T)
             U == T \ {x}
             e == part[x]
  <2>1. x \in T /\ x \in S /\ e \in D /\ f[x] \in Nat /\ U \in SUBSET S /\ U \in Good
    BY <1>3, Picked
  <2>2. SumFunctionOnSet(f, T) = f[x] + SumFunctionOnSet(f, U)
    BY <1>1, <2>1, SumRemove
  <2>3. By(T)[e] = f[x] + By(U)[e]
    <3>1. Of(T, e) \in SUBSET S /\ x \in Of(T, e) /\ Of(T, e) \ {x} = Of(U, e)
      BY <2>1
    <3>2. SumFunctionOnSet(f, Of(T, e)) = f[x] + SumFunctionOnSet(f, Of(T, e) \ {x})
      BY <1>1, <3>1, SumRemove
    <3> QED
      BY <2>1, <3>1, <3>2
  <2>4. \A d \in D \ {e} : By(T)[d] = By(U)[d]
    <3>1. \A d \in D \ {e} : Of(T, d) = Of(U, d)
      BY <2>1
    <3> QED
      BY <3>1
  <2> DEFINE t == By(T)
             u == By(U)
  <2>5. /\ \A d \in D : t[d] \in Nat /\ u[d] \in Nat
        /\ t[e] = f[x] + u[e] /\ \A d \in D \ {e} : t[d] = u[d]
    BY <1>1, <2>1, <2>3, <2>4
  <2>6. SumFunctionOnSet(u, D) = SumFunctionOnSet(f, U)
    BY <2>1
  <2> HIDE DEF x, U, e, t, u
  <2>7. /\ SumFunctionOnSet(t, D) = t[e] + SumFunctionOnSet(t, D \ {e})
        /\ SumFunctionOnSet(u, D) = u[e] + SumFunctionOnSet(u, D \ {e})
        /\ SumFunctionOnSet(u, D \ {e}) \in Nat
    BY <2>1, <2>5, SumRemove, SumNat
  <2>8. SumFunctionOnSet(t, D \ {e}) = SumFunctionOnSet(u, D \ {e})
    <3>1. IsFiniteSet(D \ {e})
      BY FS_Subset
    <3> QED
      BY <2>5, <3>1, SumSame
  <2>9. SumFunctionOnSet(t, D) = SumFunctionOnSet(f, T)
    BY <2>1, <2>2, <2>5, <2>6, <2>7, <2>8
  <2> QED
    BY <2>9 DEF t
<1> HIDE DEF Good
<1>4. S \in Good
  BY <1>2, <1>3, RemovalInduction
<1>5. SumFunction(By(S)) = SumFunctionOnSet(By(S), D)
  BY DEF SumFunction
<1> QED
  BY <1>4, <1>5 DEF Good
(***************************************************************************)
(* The figures of a range of days                                          *)
(***************************************************************************)

Figure == {"counts", "revenue", "bookings", "daily"}

FiguresTypes ==
  /\ placed \in [Orders -> {Absent} \cup [status : Statuses, at : Instants]]
  /\ paid \in [Orders -> {Absent} \cup [status : {"paid", "refunding"}, at : Instants]]
  /\ \/ figures = [pc |-> "none"]
     \/ /\ figures = [pc |-> figures.pc, from |-> figures.from, to |-> figures.to,
                      got |-> [field \in DOMAIN figures.got |-> figures.got[field]],
                      grown |-> figures.grown, moved |-> figures.moved]
        /\ figures.pc \in {"reading", "answered"}
        /\ figures.from \in Days /\ figures.to \in Days
        /\ DOMAIN figures.got \subseteq Figure
        /\ figures.grown \in BOOLEAN /\ figures.moved \in BOOLEAN

\* As long as no booking was made and no payment changed, every figure that was
\* computed adds up to what a query would still find.
FiguresHold ==
  figures.pc # "none" =>
    LET got == figures.got
        bookings == Placed(figures.from, figures.to)
        payments == Paid(figures.from, figures.to) IN
    /\ "counts" \in DOMAIN got /\ ~figures.grown => SumFunction(got.counts) = Cardinality(bookings)
    /\ "bookings" \in DOMAIN got =>
         /\ DOMAIN got.bookings = figures.from..figures.to
         /\ ~figures.grown => SumFunction(got.bookings) = Cardinality(bookings)
    /\ "revenue" \in DOMAIN got /\ ~figures.moved => got.revenue = Revenue(payments)
    /\ "daily" \in DOMAIN got /\ ~figures.moved => SumFunction(got.daily) = Revenue(payments)

AnsweredInFull == figures.pc = "answered" => DOMAIN figures.got = Figure

\* The inductive invariant of the figures.
FiguresInv == FiguresTypes /\ FiguresHold /\ AnsweredInFull

LEMMA FiguresInvInit == AnalyticsInit => FiguresInv
BY DEF AnalyticsInit, FiguresInv, FiguresTypes, FiguresHold, AnsweredInFull, Statuses

\* A row of the range lies on one of its days.
LEMMA OnADay ==
  ASSUME NEW t \in Nat, NEW from \in Nat, NEW to \in Nat, InRange(t, from, to)
  PROVE  Day(t) \in from..to
<1> DEFINE n == t + BangkokOffset
           q == n \div DayLength
<1>1. DayLength \in Nat \ {0} /\ BangkokOffset \in Nat
  BY AnalyticsAssumption
<1>2. n \in Nat /\ from * DayLength <= n /\ n < (to + 1) * DayLength
  BY <1>1 DEF InRange, StartOf
<1>3. Day(t) = q
  BY DEF Day
<1> HIDE DEF n
<1>4. q \in Nat /\ n = q * DayLength + (n % DayLength) /\ n % DayLength \in 0..DayLength - 1
  BY <1>1, <1>2
<1> HIDE DEF q
<1>5. q * DayLength <= n /\ n < (q + 1) * DayLength
  BY <1>1, <1>2, <1>4
<1>6. from < q + 1
  <2> SUFFICES ASSUME q + 1 <= from PROVE FALSE
    BY <1>4
  <2>1. (q + 1) * DayLength <= from * DayLength
    BY <1>1, <1>4
  <2> QED
    BY <1>1, <1>2, <1>4, <1>5, <2>1
<1>7. q < to + 1
  <2> SUFFICES ASSUME to + 1 <= q PROVE FALSE
    BY <1>4
  <2>1. (to + 1) * DayLength <= q * DayLength
    BY <1>1, <1>4
  <2> QED
    BY <1>1, <1>2, <1>4, <1>5, <2>1
<1> QED
  BY <1>3, <1>4, <1>6, <1>7

LEMMA RangesAreFinite ==
  \A from, to : IsFiniteSet(Placed(from, to)) /\ IsFiniteSet(Paid(from, to))
BY AnalyticsAssumption, FS_Subset DEF Placed, Paid

LEMMA DaysAreNumbers == Days \subseteq Nat /\ Instants \subseteq Nat
<1>1. DayLength \in Nat \ {0} /\ BangkokOffset \in Nat /\ LastInstant \in Nat
  BY AnalyticsAssumption
<1> QED
  BY <1>1 DEF Days, Instants

\* Rows that are counted part by part.
LEMMA CountsOfParts ==
  ASSUME NEW S, IsFiniteSet(S), NEW D, IsFiniteSet(D), NEW part, \A x \in S : part[x] \in D
  PROVE  SumFunction([d \in D |-> Cardinality({x \in S : part[x] = d})]) = Cardinality(S)
<1> DEFINE one == [x \in S |-> 1]
<1>1. SumFunction([d \in D |-> SumFunctionOnSet(one, {x \in S : part[x] = d})])
        = SumFunctionOnSet(one, S)
  BY PartsAddUp
<1>2. \A T \in SUBSET S : SumFunctionOnSet(one, T) = Cardinality(T)
  BY FS_Subset, SumOfOnes
<1>3. \A d \in D : SumFunctionOnSet(one, {x \in S : part[x] = d}) = Cardinality({x \in S : part[x] = d})
  BY <1>2
<1> HIDE DEF one
<1>4. [d \in D |-> SumFunctionOnSet(one, {x \in S : part[x] = d})]
        = [d \in D |-> Cardinality({x \in S : part[x] = d})]
  BY <1>3
<1> QED
  BY <1>1, <1>2, <1>4

\* A field that arrives leaves the rest.
LEMMA FieldArrives ==
  ASSUME FiguresInv, NEW field \in Figure, NEW value, Waits(field), Got(field, value)
  PROVE  /\ FiguresTypes' /\ figures.pc = "reading" /\ AnsweredInFull'
         /\ figures'.got[field] = value
         /\ \A other \in DOMAIN figures'.got \ {field} :
              other \in DOMAIN figures.got /\ figures'.got[other] = figures.got[other]
         /\ \A c \in {"pc", "from", "to", "grown", "moved"} : figures'[c] = figures[c]
<1>1. figures.pc = "reading" /\ figures # [pc |-> "none"]
  BY DEF Waits, Reading
<1> DEFINE got == [f \in DOMAIN figures.got \cup {field} |->
                     IF f = field THEN value ELSE figures.got[f]]
<1>2. figures' = [figures EXCEPT !.got = got] /\ placed' = placed /\ paid' = paid
  BY DEF Got
<1>3. figures' = [pc |-> figures.pc, from |-> figures.from, to |-> figures.to, got |-> got,
                  grown |-> figures.grown, moved |-> figures.moved]
  <2> HIDE DEF got
  <2> QED
    BY <1>1, <1>2 DEF FiguresInv, FiguresTypes
<1>4. /\ figures'.got = got /\ \A c \in {"pc", "from", "to", "grown", "moved"} : figures'[c] = figures[c]
  <2> HIDE DEF got
  <2> QED
    BY <1>3
<1>5. FiguresTypes'
  <2>1. got = [f \in DOMAIN got |-> got[f]] /\ DOMAIN got \subseteq Figure
    BY <1>1 DEF FiguresInv, FiguresTypes
  <2> HIDE DEF got
  <2>2. figures' = [pc |-> figures'.pc, from |-> figures'.from, to |-> figures'.to,
                    got |-> [f \in DOMAIN figures'.got |-> figures'.got[f]],
                    grown |-> figures'.grown, moved |-> figures'.moved]
    BY <1>3, <1>4, <2>1
  <2> QED
    BY <1>1, <1>2, <1>4, <2>1, <2>2 DEF FiguresInv, FiguresTypes
<1> QED
  BY <1>1, <1>4, <1>5 DEF AnsweredInFull

LEMMA CountsRight ==
  ASSUME FiguresInv, figures.pc = "reading"
  PROVE  SumFunction([s \in Statuses |->
            Cardinality({b \in Placed(figures.from, figures.to) : placed[b].status = s})])
           = Cardinality(Placed(figures.from, figures.to))
<1> DEFINE P == Placed(figures.from, figures.to)
           part == [b \in Orders |-> placed[b].status]
<1>1. IsFiniteSet(P)
  BY RangesAreFinite
<1>2. IsFiniteSet(Statuses)
  <2>1. IsFiniteSet({"pending"} \cup {"confirmed"}) /\ IsFiniteSet({"cancelled"} \cup {"completed"})
    BY FS_Singleton, FS_Union
  <2>2. Statuses = ({"pending"} \cup {"confirmed"}) \cup ({"cancelled"} \cup {"completed"})
    BY DEF Statuses
  <2> QED
    BY <2>1, <2>2, FS_Union
<1>3. \A b \in P : b \in Orders /\ part[b] = placed[b].status /\ part[b] \in Statuses
  BY DEF FiguresInv, FiguresTypes, Placed
<1> HIDE DEF P, part
<1>4. SumFunction([s \in Statuses |-> Cardinality({b \in P : part[b] = s})]) = Cardinality(P)
  BY <1>1, <1>2, <1>3, CountsOfParts
<1>5. \A s \in Statuses : {b \in P : part[b] = s} = {b \in P : placed[b].status = s}
  BY <1>3
<1>6. [s \in Statuses |-> Cardinality({b \in P : part[b] = s})]
        = [s \in Statuses |-> Cardinality({b \in P : placed[b].status = s})]
  BY <1>5
<1> QED
  BY <1>4, <1>6 DEF P

LEMMA RangeOfDays ==
  ASSUME FiguresInv, figures.pc = "reading"
  PROVE  /\ IsFiniteSet(figures.from..figures.to)
         /\ \A b \in Placed(figures.from, figures.to) : Day(placed[b].at) \in figures.from..figures.to
         /\ \A b \in Paid(figures.from, figures.to) : Day(paid[b].at) \in figures.from..figures.to
<1>1. figures.from \in Nat /\ figures.to \in Nat
  BY DaysAreNumbers DEF FiguresInv, FiguresTypes
<1>2. \A b \in Placed(figures.from, figures.to) :
        placed[b].at \in Nat /\ InRange(placed[b].at, figures.from, figures.to)
  BY DaysAreNumbers DEF FiguresInv, FiguresTypes, Placed
<1>3. \A b \in Paid(figures.from, figures.to) :
        paid[b].at \in Nat /\ InRange(paid[b].at, figures.from, figures.to)
  BY DaysAreNumbers DEF FiguresInv, FiguresTypes, Paid, Absent
<1>4. IsFiniteSet(figures.from..figures.to)
  BY <1>1, FS_Interval
<1> QED
  BY <1>1, <1>2, <1>3, <1>4, OnADay

LEMMA BookingsRight ==
  ASSUME FiguresInv, figures.pc = "reading"
  PROVE  LET byDay == PerDay(Placed(figures.from, figures.to), placed, figures.from, figures.to)
             value == [d \in DOMAIN byDay |-> Cardinality(byDay[d])]
         IN  /\ DOMAIN value = figures.from..figures.to
             /\ SumFunction(value) = Cardinality(Placed(figures.from, figures.to))
<1> DEFINE P == Placed(figures.from, figures.to)
           D == figures.from..figures.to
           part == [b \in P |-> Day(placed[b].at)]
<1>1. IsFiniteSet(P) /\ IsFiniteSet(D) /\ \A b \in P : part[b] \in D
  BY RangesAreFinite, RangeOfDays
<1>2. SumFunction([d \in D |-> Cardinality({b \in P : part[b] = d})]) = Cardinality(P)
  <2> HIDE DEF P, D, part
  <2> QED
    BY <1>1, CountsOfParts
<1>3. \A d \in D : {b \in P : part[b] = d} = {b \in P : Day(placed[b].at) = d}
  OBVIOUS
<1> HIDE DEF P, D, part
<1>4. [d \in D |-> Cardinality({b \in P : part[b] = d})]
        = [d \in D |-> Cardinality({b \in P : Day(placed[b].at) = d})]
  BY <1>3
<1>5. [d \in D |-> Cardinality([e \in D |-> {b \in P : Day(placed[b].at) = e}][d])]
        = [d \in D |-> Cardinality({b \in P : Day(placed[b].at) = d})]
  OBVIOUS
<1>6. PerDay(P, placed, figures.from, figures.to) = [e \in D |-> {b \in P : Day(placed[b].at) = e}]
  BY DEF PerDay, D
<1> DEFINE byDay == PerDay(P, placed, figures.from, figures.to)
<1>7. DOMAIN byDay = D
  BY <1>6
<1>8. [d \in DOMAIN byDay |-> Cardinality(byDay[d])]
        = [d \in D |-> Cardinality({b \in P : Day(placed[b].at) = d})]
  BY <1>5, <1>6, <1>7
<1>9. SumFunction([d \in DOMAIN byDay |-> Cardinality(byDay[d])]) = Cardinality(P)
  BY <1>2, <1>4, <1>8
<1>10. DOMAIN [d \in DOMAIN byDay |-> Cardinality(byDay[d])] = D
  BY <1>7
<1> QED
  BY <1>9, <1>10 DEF P, D

LEMMA RevenueRight ==
  ASSUME FiguresInv, figures.pc = "reading"
  PROVE  LET byDay == PerDay(Paid(figures.from, figures.to), paid, figures.from, figures.to)
         IN  SumFunction([d \in DOMAIN byDay |-> Revenue(byDay[d])])
               = Revenue(Paid(figures.from, figures.to))
<1> DEFINE P == Paid(figures.from, figures.to)
           D == figures.from..figures.to
           part == [b \in P |-> Day(paid[b].at)]
<1>1. IsFiniteSet(P) /\ IsFiniteSet(D) /\ \A b \in P : part[b] \in D
  BY RangesAreFinite, RangeOfDays
<1>2. \A b \in P : Amount[b] \in Nat
  BY AnalyticsAssumption DEF Paid
<1>3. SumFunction([d \in D |-> Revenue({b \in P : part[b] = d})]) = Revenue(P)
  <2>1. SumFunction([d \in D |-> SumFunctionOnSet(Amount, {b \in P : part[b] = d})])
          = SumFunctionOnSet(Amount, P)
    <3> HIDE DEF P, D, part
    <3> QED
      BY <1>1, <1>2, PartsAddUp
  <2> QED
    BY <2>1, Zenon DEF Revenue
<1>4. \A d \in D : {b \in P : part[b] = d} = {b \in P : Day(paid[b].at) = d}
  OBVIOUS
<1> HIDE DEF P, D, part
<1>5. [d \in D |-> Revenue({b \in P : part[b] = d})]
        = [d \in D |-> Revenue({b \in P : Day(paid[b].at) = d})]
  BY <1>4
<1>6. PerDay(P, paid, figures.from, figures.to) = [e \in D |-> {b \in P : Day(paid[b].at) = e}]
  BY DEF PerDay, D
<1> DEFINE byDay == PerDay(P, paid, figures.from, figures.to)
<1>7. DOMAIN byDay = D
  BY <1>6
<1>8. [d \in DOMAIN byDay |-> Revenue(byDay[d])]
        = [d \in D |-> Revenue({b \in P : Day(paid[b].at) = d})]
  BY <1>6, <1>7
<1> QED
  BY <1>3, <1>5, <1>8 DEF P

\* The rows of a range change only when a booking is made or a payment changes.
LEMMA RangeKept ==
  ASSUME NEW from, NEW to
  PROVE  /\ placed' = placed => Placed(from, to)' = Placed(from, to)
         /\ paid' = paid => Paid(from, to)' = Paid(from, to)
BY DEF Placed, Paid

LEMMA FiguresRead ==
  ASSUME FiguresInv, CountByStatus \/ SumRevenue \/ DailyBookings \/ DailyRevenue
  PROVE  FiguresInv'
<1>1. PICK field, value :
        /\ field \in Figure
        /\ Waits(field) /\ Got(field, value)
        /\ field = "counts" => SumFunction(value) = Cardinality(Placed(figures.from, figures.to))
        /\ field = "revenue" => value = Revenue(Paid(figures.from, figures.to))
        /\ field = "bookings" =>
             /\ DOMAIN value = figures.from..figures.to
             /\ SumFunction(value) = Cardinality(Placed(figures.from, figures.to))
        /\ field = "daily" => SumFunction(value) = Revenue(Paid(figures.from, figures.to))
  <2>1. CASE CountByStatus
    <3>1. figures.pc = "reading"
      BY <2>1 DEF CountByStatus, Waits, Reading
    <3> QED
      BY <2>1, <3>1, CountsRight DEF CountByStatus, Figure
  <2>2. CASE SumRevenue
    BY <2>2 DEF SumRevenue, Figure
  <2>3. CASE DailyBookings
    <3>1. figures.pc = "reading"
      BY <2>3 DEF DailyBookings, Waits, Reading
    <3> QED
      BY <2>3, <3>1, BookingsRight DEF DailyBookings, Figure
  <2>4. CASE DailyRevenue
    <3>1. figures.pc = "reading"
      BY <2>4 DEF DailyRevenue, Waits, Reading
    <3> QED
      BY <2>4, <3>1, RevenueRight DEF DailyRevenue, Figure
  <2> QED
    BY <2>1, <2>2, <2>3, <2>4
<1>2. /\ FiguresTypes' /\ figures.pc = "reading" /\ AnsweredInFull'
      /\ figures'.got[field] = value
      /\ \A other \in DOMAIN figures'.got \ {field} :
           other \in DOMAIN figures.got /\ figures'.got[other] = figures.got[other]
      /\ figures'.pc = figures.pc /\ figures'.from = figures.from /\ figures'.to = figures.to
      /\ figures'.grown = figures.grown /\ figures'.moved = figures.moved
  BY <1>1, FieldArrives
<1> DEFINE bookings == Placed(figures.from, figures.to)
           payments == Paid(figures.from, figures.to)
<1>3. /\ Placed(figures.from, figures.to)' = bookings /\ Paid(figures.from, figures.to)' = payments
  BY <1>1, <1>2 DEF Got, Placed, Paid
<1>4. Revenue(Paid(figures.from, figures.to))' = Revenue(payments)
  BY <1>3 DEF Revenue
<1>5. FiguresHold'
  BY <1>1, <1>2, <1>3, <1>4 DEF FiguresInv, FiguresHold
<1> QED
  BY <1>2, <1>5 DEF FiguresInv

\* What others do leaves the figures that were computed.
LEMMA FiguresAged ==
  ASSUME FiguresInv, figures.pc = "reading",
         figures' = [figures EXCEPT !.grown = TRUE] \/ figures' = [figures EXCEPT !.moved = TRUE]
         \/ figures' = figures \/ figures' = [figures EXCEPT !.pc = "answered"]
  PROVE  /\ figures' = [pc |-> figures'.pc, from |-> figures'.from, to |-> figures'.to,
                        got |-> [field \in DOMAIN figures'.got |-> figures'.got[field]],
                        grown |-> figures'.grown, moved |-> figures'.moved]
         /\ \A c \in {"from", "to", "got"} : figures'[c] = figures[c]
         /\ figures'.pc \in {"reading", "answered"}
         /\ figures'.grown \in BOOLEAN /\ figures'.moved \in BOOLEAN
         /\ ~figures'.grown => ~figures.grown
         /\ ~figures'.moved => ~figures.moved
         /\ figures' = [figures EXCEPT !.grown = TRUE] => figures'.grown
         /\ figures' = [figures EXCEPT !.moved = TRUE] => figures'.moved
         /\ figures'.pc = "reading" \/ figures' = [figures EXCEPT !.pc = "answered"]
<1> DEFINE got == [field \in DOMAIN figures.got |-> figures.got[field]]
           made(pc, grown, moved) == [pc |-> pc, from |-> figures.from, to |-> figures.to,
                                      got |-> got, grown |-> grown, moved |-> moved]
<1>1. figures = made(figures.pc, figures.grown, figures.moved)
      /\ figures.grown \in BOOLEAN /\ figures.moved \in BOOLEAN
  BY DEF FiguresInv, FiguresTypes
<1>2. got = [field \in DOMAIN got |-> got[field]] /\ figures.got = got
  BY <1>1
<1> HIDE DEF got
<1>3. PICK pc \in {"reading", "answered"}, grown \in BOOLEAN, moved \in BOOLEAN :
        /\ figures' = made(pc, grown, moved)
        /\ grown \in {figures.grown, TRUE} /\ moved \in {figures.moved, TRUE}
        /\ pc = "reading" \/ figures' = [figures EXCEPT !.pc = "answered"]
  <2>1. \A pc, grown, moved, v :
          /\ [made(pc, grown, moved) EXCEPT !.grown = v] = made(pc, v, moved)
          /\ [made(pc, grown, moved) EXCEPT !.moved = v] = made(pc, grown, v)
          /\ [made(pc, grown, moved) EXCEPT !.pc = v] = made(v, grown, moved)
    OBVIOUS
  <2>6. PICK p, g, m : figures = made(p, g, m) /\ p = figures.pc /\ g = figures.grown /\ m = figures.moved
    BY <1>1
  <2> HIDE DEF made
  <2>2. CASE figures' = [figures EXCEPT !.grown = TRUE]
    <3>1. PICK v : v = TRUE
      OBVIOUS
    <3>2. figures' = [made(p, g, m) EXCEPT !.grown = v]
      BY <2>2, <2>6, <3>1
    <3>3. figures' = made(p, v, m)
      BY <2>1, <3>2
    <3> QED
      BY <1>1, <2>6, <3>1, <3>3, Zenon
  <2>3. CASE figures' = [figures EXCEPT !.moved = TRUE]
    <3>1. PICK v : v = TRUE
      OBVIOUS
    <3>2. figures' = [made(p, g, m) EXCEPT !.moved = v]
      BY <2>3, <2>6, <3>1
    <3>3. figures' = made(p, g, v)
      BY <2>1, <3>2
    <3> QED
      BY <1>1, <2>6, <3>1, <3>3, Zenon
  <2>4. CASE figures' = figures
    BY <1>1, <2>4, Zenon
  <2>5. CASE figures' = [figures EXCEPT !.pc = "answered"]
    <3>1. figures' = made("answered", g, m)
      BY <2>1, <2>5, <2>6
    <3> QED
      BY <1>1, <2>5, <2>6, <3>1, Zenon
  <2> QED
    BY <2>2, <2>3, <2>4, <2>5
<1>4. figures'.got = got /\ figures'.grown = grown /\ figures'.moved = moved /\ figures'.pc = pc
      /\ figures'.from = figures.from /\ figures'.to = figures.to
  BY <1>3
<1>5. figures' = [pc |-> figures'.pc, from |-> figures'.from, to |-> figures'.to,
                  got |-> [field \in DOMAIN figures'.got |-> figures'.got[field]],
                  grown |-> figures'.grown, moved |-> figures'.moved]
  BY <1>2, <1>3, <1>4
<1>6. figures' = [figures EXCEPT !.grown = TRUE] => figures'.grown
  BY <1>1
<1>7. figures' = [figures EXCEPT !.moved = TRUE] => figures'.moved
  BY <1>1
<1> QED
  BY <1>2, <1>3, <1>4, <1>5, <1>6, <1>7

LEMMA FiguresStand ==
  ASSUME FiguresInv, figures.pc = "reading",
         figures' = [figures EXCEPT !.grown = TRUE] \/ figures' = [figures EXCEPT !.moved = TRUE]
         \/ figures' = figures \/ figures' = [figures EXCEPT !.pc = "answered"],
         placed' \in [Orders -> {Absent} \cup [status : Statuses, at : Instants]],
         paid' \in [Orders -> {Absent} \cup [status : {"paid", "refunding"}, at : Instants]],
         ~figures'.grown => Placed(figures.from, figures.to)' = Placed(figures.from, figures.to),
         ~figures'.moved => Paid(figures.from, figures.to)' = Paid(figures.from, figures.to),
         figures'.pc = "answered" => DOMAIN figures.got = Figure
  PROVE  FiguresInv'
<1>1. FiguresTypes'
  BY FiguresAged DEF FiguresInv, FiguresTypes, Days
<1>2. FiguresHold'
  <2>1. ~figures'.moved => Revenue(Paid(figures.from, figures.to))' = Revenue(Paid(figures.from, figures.to))
    BY DEF Revenue
  <2> QED
    BY <2>1, FiguresAged DEF FiguresInv, FiguresHold
<1>3. AnsweredInFull'
  BY FiguresAged DEF AnsweredInFull
<1> QED
  BY <1>1, <1>2, <1>3 DEF FiguresInv

LEMMA FiguresInvNext == FiguresInv /\ [AnalyticsNext]_analyticsVars => FiguresInv'
<1> SUFFICES ASSUME FiguresInv, [AnalyticsNext]_analyticsVars PROVE FiguresInv'
  OBVIOUS
<1>1. ASSUME NEW from \in Days, NEW to \in Days, Ask(from, to)
      PROVE  FiguresInv'
  <2>1. /\ figures' = [pc |-> "reading", from |-> from, to |-> to, got |-> << >>,
                       grown |-> FALSE, moved |-> FALSE]
        /\ UNCHANGED <<placed, paid>>
    BY <1>1 DEF Ask
  <2>2. DOMAIN << >> = {} /\ << >> = [field \in {} |-> 0]
    OBVIOUS
  <2>3. figures'.got = [field \in DOMAIN figures'.got |-> figures'.got[field]]
        /\ DOMAIN figures'.got = {}
    BY <2>1, <2>2
  <2>4. FiguresTypes'
    BY <2>1, <2>3 DEF FiguresInv, FiguresTypes, Days
  <2>5. FiguresHold' /\ AnsweredInFull'
    BY <2>1, <2>3 DEF FiguresHold, AnsweredInFull
  <2> QED
    BY <2>4, <2>5 DEF FiguresInv
<1>2. CASE CountByStatus \/ SumRevenue \/ DailyBookings \/ DailyRevenue
  BY <1>2, FiguresRead
<1>3. CASE Answer
  <2>1. /\ figures.pc = "reading" /\ figures' = [figures EXCEPT !.pc = "answered"]
        /\ placed' = placed /\ paid' = paid
        /\ Figure \subseteq DOMAIN figures.got
    BY <1>3 DEF Answer, Reading, Waits, Figure
  <2>2. DOMAIN figures.got = Figure
    <3>1. figures # [pc |-> "none"]
      BY <2>1
    <3>2. DOMAIN figures.got \subseteq Figure
      BY <3>1, Zenon DEF FiguresInv, FiguresTypes
    <3> QED
      BY <2>1, <3>2, Zenon
  <2>3. Placed(figures.from, figures.to)' = Placed(figures.from, figures.to)
        /\ Paid(figures.from, figures.to)' = Paid(figures.from, figures.to)
    <3>1. figures'.from = figures.from /\ figures'.to = figures.to
      BY <2>1, FiguresAged
    <3> QED
      BY <2>1, <3>1 DEF Placed, Paid
  <2> QED
    BY <2>1, <2>2, <2>3, FiguresStand DEF FiguresInv, FiguresTypes
<1>4. ASSUME NEW b \in Orders, Place(b)
      PROVE  FiguresInv'
  <2>1. /\ figures.pc = "reading" /\ figures' = [figures EXCEPT !.grown = TRUE] /\ paid' = paid
        /\ placed' = [placed EXCEPT ![b] = [status |-> "pending", at |-> LastInstant]]
    BY <1>4 DEF Place, Reading
  <2>2. [status |-> "pending", at |-> LastInstant] \in [status : Statuses, at : Instants]
    BY AnalyticsAssumption DEF Statuses, Instants
  <2>3. placed' \in [Orders -> {Absent} \cup [status : Statuses, at : Instants]]
    BY <2>1, <2>2 DEF FiguresInv, FiguresTypes
  <2>4. figures'.pc = "reading" /\ figures'.grown
    BY <2>1, FiguresAged
  <2>5. Paid(figures.from, figures.to)' = Paid(figures.from, figures.to)
    <3>1. figures'.from = figures.from /\ figures'.to = figures.to
      BY <2>1, FiguresAged
    <3> QED
      BY <2>1, <3>1 DEF Paid
  <2> QED
    BY <2>1, <2>3, <2>4, <2>5, FiguresStand DEF FiguresInv, FiguresTypes
<1>5. ASSUME NEW b \in Orders, NEW s \in Statuses, Decide(b, s)
      PROVE  FiguresInv'
  <2>1. /\ figures.pc = "reading" /\ figures' = figures /\ paid' = paid /\ placed[b] # Absent
        /\ placed' = [placed EXCEPT ![b].status = s]
    BY <1>5 DEF Decide, Reading
  <2>2. placed[b] \in [status : Statuses, at : Instants]
    BY <2>1 DEF FiguresInv, FiguresTypes
  <2>3. /\ placed' \in [Orders -> {Absent} \cup [status : Statuses, at : Instants]]
        /\ placed'[b] \in [status : Statuses, at : Instants] /\ placed'[b].at = placed[b].at
        /\ \A c \in Orders \ {b} : placed'[c] = placed[c]
    BY <2>1, <2>2 DEF FiguresInv, FiguresTypes
  <2>4. Absent \notin [status : Statuses, at : Instants]
    BY DEF Absent, Statuses
  <2>5. Placed(figures.from, figures.to)' = Placed(figures.from, figures.to)
    <3>1. \A c \in Orders : placed'[c].at = placed[c].at /\ (placed'[c] # Absent <=> placed[c] # Absent)
      BY <2>1, <2>3, <2>4
    <3> QED
      BY <2>1, <3>1 DEF Placed
  <2>6. Paid(figures.from, figures.to)' = Paid(figures.from, figures.to)
    BY <2>1 DEF Paid
  <2> QED
    BY <2>1, <2>3, <2>5, <2>6, FiguresStand DEF FiguresInv, FiguresTypes
<1>6. ASSUME NEW b \in Orders, Pay(b) \/ Refund(b)
      PROVE  FiguresInv'
  <2>1. /\ figures.pc = "reading" /\ figures' = [figures EXCEPT !.moved = TRUE] /\ placed' = placed
    BY <1>6 DEF Pay, Refund, Reading
  <2>2. paid' \in [Orders -> {Absent} \cup [status : {"paid", "refunding"}, at : Instants]]
    <3>1. CASE Pay(b)
      <4>1. [status |-> "paid", at |-> LastInstant] \in [status : {"paid", "refunding"}, at : Instants]
        BY AnalyticsAssumption DEF Instants
      <4> QED
        BY <3>1, <4>1 DEF Pay, FiguresInv, FiguresTypes
    <3>2. CASE Refund(b)
      <4>1. paid[b].status = "paid" /\ paid' = [paid EXCEPT ![b].status = "refunding"]
        BY <3>2 DEF Refund
      <4>2. paid[b] \in [status : {"paid", "refunding"}, at : Instants]
        BY <4>1 DEF FiguresInv, FiguresTypes, Absent
      <4>3. [paid[b] EXCEPT !.status = "refunding"] \in [status : {"paid", "refunding"}, at : Instants]
        BY <4>2
      <4> QED
        BY <4>1, <4>3 DEF FiguresInv, FiguresTypes
    <3> QED
      BY <1>6, <3>1, <3>2
  <2>3. figures'.pc = "reading" /\ figures'.moved
    BY <2>1, FiguresAged
  <2>4. Placed(figures.from, figures.to)' = Placed(figures.from, figures.to)
    <3>1. figures'.from = figures.from /\ figures'.to = figures.to
      BY <2>1, FiguresAged
    <3> QED
      BY <2>1, <3>1 DEF Placed
  <2> QED
    BY <2>1, <2>2, <2>3, <2>4, FiguresStand DEF FiguresInv, FiguresTypes
<1>7. CASE UNCHANGED analyticsVars
  <2>1. placed' = placed /\ paid' = paid /\ figures' = figures
    BY <1>7 DEF analyticsVars
  <2> QED
    BY <2>1 DEF FiguresInv, FiguresTypes, FiguresHold, AnsweredInFull, Placed, Paid, Revenue, Days, Instants
<1> QED
  BY <1>1, <1>2, <1>3, <1>4, <1>5, <1>6, <1>7 DEF AnalyticsNext

\* What is answered adds up.
LEMMA FiguresAddUp == FiguresInv => DaysAddUp
BY DEF FiguresInv, FiguresHold, AnsweredInFull, DaysAddUp, Figure

(***************************************************************************)
(* The parts side by side                                                  *)
(***************************************************************************)

\* The inductive invariant.
BackofficeInv == AccountsInv /\ ReportsInv /\ TurnInv /\ FiguresInv /\ InboxInv

LEMMA BackofficeInvInit == Init => BackofficeInv
BY AccountsInvInit, ReportsInvInit, TurnInvInit, FiguresInvInit, InboxInvInit DEF Init, BackofficeInv

\* A step of one part is a stutter of the others.
LEMMA Parts ==
  ASSUME [Next]_vars
  PROVE  /\ [AccountsNext]_accountVars /\ [ReportsNext]_reportVars
         /\ [AnalyticsNext]_analyticsVars /\ [InboxNext]_inboxVars
BY DEF Next, vars, accountVars, reportVars, analyticsVars, inboxVars

LEMMA BackofficeInvNext == BackofficeInv /\ [Next]_vars => BackofficeInv'
BY Parts, AccountsInvNext, ReportsStep, TurnInvNext, FiguresInvNext, InboxInvNext
DEF BackofficeInv

\* The accounts, the reports, the figures and the notifications keep their invariants, whatever
\* requests of the other parts run (Backoffice).
THEOREM BackofficeInvariant == Spec => []BackofficeInv
<1>1. Init => BackofficeInv
  BY BackofficeInvInit
<1>2. BackofficeInv /\ [Next]_vars => BackofficeInv'
  BY BackofficeInvNext
<1>3. QED
  BY <1>1, <1>2, PTL DEF Spec

\* Every account is found by its address, in any spelling, and no other one
\* (register, changeEmail, login).
THEOREM LoginTheorem == Spec => []LoginFindsOwner
<1>1. BackofficeInv => LoginFindsOwner
  BY OwnerIsFound DEF BackofficeInv
<1>2. QED
  BY <1>1, BackofficeInvariant, PTL

\* An answer 409 always has a reason (register, changeEmail).
THEOREM RefusalTheorem == Spec => []RefusalHasReason
<1>1. BackofficeInv => RefusalHasReason
  BY DEF BackofficeInv, AccountsInv
<1>2. QED
  BY <1>1, BackofficeInvariant, PTL

\* The counts that markAllRead and markRead add up to are the notifications read,
\* for any number of requests that cross (notifications.service.ts).
THEOREM CountsTheorem == Spec => []CountsAddUp
<1>1. BackofficeInv => CountsAddUp
  BY DEF BackofficeInv, InboxInv
<1>2. QED
  BY <1>1, BackofficeInvariant, PTL

\* An admin who turns the pages of the reports, while others file and resolve them, is
\* shown every report that was on the list at the start and stayed on it, for every size
\* of a page and any number of reports (listReports).
THEOREM TurnsTheorem == Spec => []TurnsMissNothing
<1>1. BackofficeInv => TurnsMissNothing
  BY DEF BackofficeInv, TurnInv
<1>2. QED
  BY <1>1, BackofficeInvariant, PTL

\* The days of the figures add up to their totals, whatever is decided between their
\* queries, for every length of the range and of a day (getAnalytics).
THEOREM DaysTheorem == Spec => []DaysAddUp
<1>1. BackofficeInv => DaysAddUp
  BY FiguresAddUp DEF BackofficeInv
<1>2. QED
  BY <1>1, BackofficeInvariant, PTL

\* The note of a report changes only to the note of a resolution or in one that was
\* overtaken (resolveReport).
THEOREM NoteTheorem == Spec => NoteLostNeedsRace
<1>1. BackofficeInv /\ [Next]_vars =>
        [\A id \in Filed : report'[id].note # report[id].note =>
           \E a \in Admins :
             /\ desk[a].pc = "resolve" /\ desk[a].id = id /\ desk'[a].pc = "idle"
             /\ IF desk[a].given = NoNote THEN ~desk[a].fresh
                ELSE report'[id].note = desk[a].given]_reportVars
  BY Parts, ReportsStep DEF BackofficeInv
<1>2. QED
  BY <1>1, BackofficeInvariant, PTL DEF Spec, NoteLostNeedsRace
=============================================================================
