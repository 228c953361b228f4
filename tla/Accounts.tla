------------------------------ MODULE Accounts ------------------------------
(***************************************************************************)
(* The rows of the User table: register (auth.service.ts), changeEmail and *)
(* updateProfile (users.service.ts) and verifyUser (admin.service.ts).     *)
(*                                                                         *)
(* An address is normalised in three places, which must agree, and looked  *)
(* up in one statement and written in a later one; the unique key over the *)
(* column decides between two requests that both found it free.  Rows are  *)
(* never deleted.  Passwords and sessions are in module Sessions.          *)
(***************************************************************************)
EXTENDS Integers, FiniteSets

CONSTANTS Workers,      \* requests that can be in flight at the same time
          UserIds,
          Addresses,    \* e-mail addresses in lower case, without blanks
          Spellings,    \* other ways to write the same address
          Names

VARIABLES user,         \* the User table
          job           \* what every worker is doing

accountVars == <<user, job>>

Plain == "plain"
Email == [address : Addresses, spelling : Spellings \cup {Plain}]

NoUser == [state |-> "none"]
Idle == [pc |-> "idle"]
Roles == {"renter", "mate"}

\* held is history: somebody else has had the address since the request came.
RegisterJob == [pc : {"insert"}, email : Email, role : Roles, held : BOOLEAN]
ChangeJob == [pc : {"look", "write"}, id : UserIds, email : Email, held : BOOLEAN]
\* An answer 409, which the client has until it asks again.
Conflict == [pc : {"conflict"}, held : BOOLEAN]

Known == {id \in UserIds : user[id] # NoUser}
Holders(email) == {id \in Known : user[id].email = email}

\* trim().toLowerCase()
Normal(email) == [email EXCEPT !.spelling = Plain]

Ready(w) == job[w].pc \in {"idle", "conflict"}
At(w, pc) == job[w].pc = pc
Begin(w, j) == job' = [job EXCEPT ![w] = j]
Leave(w) == Begin(w, Idle)
Refuse(w, held) == Begin(w, [pc |-> "conflict", held |-> held])

\* A row has a new address: the requests that want it are no longer the first.
Take(w, id, email) ==
  job' = [v \in Workers |->
            IF v = w THEN Idle
            ELSE IF Ready(v) THEN job[v]
            ELSE [job[v] EXCEPT !.held = @ \/ /\ job[v].email = email
                                              /\ At(v, "insert") \/ job[v].id # id]]

AccountsInit ==
  /\ user = [id \in UserIds |-> NoUser]
  /\ job = [w \in Workers |-> Idle]

(***************************************************************************)
(* register                                                                *)
(***************************************************************************)

RegisterLook(w, email, role) ==
  /\ Ready(w)
  /\ IF Holders(Normal(email)) # {} THEN Refuse(w, TRUE)
     ELSE Begin(w, [pc |-> "insert", email |-> Normal(email), role |-> role, held |-> FALSE])
  /\ UNCHANGED user

\* Mutant of RegisterInsert: the unique key is missing.
RegisterInsertAnyway(w, id, name) ==
  /\ At(w, "insert")
  /\ user[id] = NoUser
  /\ user' = [user EXCEPT ![id] = [email |-> job[w].email, role |-> job[w].role,
                                   name |-> name, verified |-> FALSE]]
  /\ Take(w, id, job[w].email)

\* The password has been hashed in the meantime.
RegisterInsert(w, id, name) ==
  /\ At(w, "insert")
  /\ user[id] = NoUser
  /\ IF Holders(job[w].email) # {}
       THEN /\ Refuse(w, job[w].held)
            /\ UNCHANGED user
       ELSE /\ user' = [user EXCEPT ![id] = [email |-> job[w].email, role |-> job[w].role,
                                             name |-> name, verified |-> FALSE]]
            /\ Take(w, id, job[w].email)

(***************************************************************************)
(* changeEmail                                                             *)
(***************************************************************************)

\* Mutant of ChangeRead: the address is stored as it was typed.
ChangeReadTyped(w, id, email) ==
  /\ Ready(w)
  /\ id \in Known
  /\ Begin(w, [pc |-> "look", id |-> id, email |-> email,
               held |-> Holders(Normal(email)) \ {id} # {}])
  /\ UNCHANGED user

\* The account and its password are read; a wrong password is refused at once.
ChangeRead(w, id, email) ==
  /\ Ready(w)
  /\ id \in Known
  /\ Begin(w, [pc |-> "look", id |-> id, email |-> Normal(email),
               held |-> Holders(Normal(email)) \ {id} # {}])
  /\ UNCHANGED user

\* Mutant of ChangeLook: it is not asked whose the address is.
ChangeLookAny(w) ==
  /\ At(w, "look")
  /\ IF Holders(job[w].email) # {} THEN Refuse(w, job[w].held)
     ELSE job' = [job EXCEPT ![w].pc = "write"]
  /\ UNCHANGED user

ChangeLook(w) ==
  /\ At(w, "look")
  /\ IF Holders(job[w].email) \ {job[w].id} # {} THEN Refuse(w, job[w].held)
     ELSE job' = [job EXCEPT ![w].pc = "write"]
  /\ UNCHANGED user

ChangeWrite(w) ==
  /\ At(w, "write")
  /\ LET j == job[w] IN
     IF Holders(j.email) \ {j.id} # {}
       THEN /\ Refuse(w, j.held)
            /\ UNCHANGED user
       ELSE /\ user' = [user EXCEPT ![j.id].email = j.email]
            /\ Take(w, j.id, j.email)

(***************************************************************************)
(* updateProfile, verifyUser                                               *)
(***************************************************************************)

\* Each writes columns of its own; nothing that it reads before can change.
UpdateProfile(id, name) ==
  /\ id \in Known
  /\ user' = [user EXCEPT ![id].name = name]
  /\ UNCHANGED job

VerifyUser(id) ==
  /\ id \in Known
  /\ user[id].role = "mate"
  /\ user' = [user EXCEPT ![id].verified = TRUE]
  /\ UNCHANGED job

\* A request dies between two of its steps.
AccountFail(w) ==
  /\ ~Ready(w)
  /\ Leave(w)
  /\ UNCHANGED user

AccountsNext ==
  \/ \E w \in Workers :
       \/ \E e \in Email : \/ \E role \in Roles : RegisterLook(w, e, role)
                           \/ \E id \in UserIds : ChangeRead(w, id, e)
       \/ \E id \in UserIds, name \in Names : RegisterInsert(w, id, name)
       \/ ChangeLook(w) \/ ChangeWrite(w) \/ AccountFail(w)
  \/ \E id \in UserIds : VerifyUser(id) \/ \E name \in Names : UpdateProfile(id, name)

(***************************************************************************)
(* Properties                                                              *)
(***************************************************************************)

\* login looks up the normal form of what is typed: every account is found, and no
\* other one, by its address in any spelling, however registrations and changes of
\* address crossed (AUTH-02, USER-04).
LoginFindsOwner ==
  \A id \in Known : \A spelling \in Spellings :
    Holders(Normal([address |-> user[id].email.address, spelling |-> spelling])) = {id}

\* A request is refused with 409 only if somebody else has had the address while it
\* was in flight: never for one's own address, nor because of a request that in the
\* end did not get it (AUTH-02, USER-05).
RefusalHasReason == \A w \in Workers : At(w, "conflict") => job[w].held
=============================================================================
