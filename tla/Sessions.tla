------------------------------- MODULE Sessions -------------------------------
(***************************************************************************)
(* The refresh tokens of one account: login, refresh and logout            *)
(* (auth.service.ts), the change of the password (users.service.ts) and    *)
(* the ban by an admin (admin.service.ts).  Accounts share no state.       *)
(*                                                                         *)
(* A login is answered from a read of the user that is old by the time its *)
(* token is inserted.  A refresh revokes its token on the condition that   *)
(* it is not revoked yet, and inserts the next one, in one transaction.  A *)
(* password change and a ban sweep the tokens: they list the active ones   *)
(* and revoke these one by one, in no transaction; the change writes the   *)
(* password before its sweep, the ban writes the flag after it.            *)
(*                                                                         *)
(* User.isActive is not modelled: no code of the program clears it.        *)
(***************************************************************************)
EXTENDS Integers

CONSTANTS Tokens,       \* jti values of refresh tokens
          Workers,      \* requests that can be in flight at the same time
          MaxPassword,  \* bound on the changes of the password
          MaxFailures   \* bound on the requests that fail half-way

ASSUME BoundsAssumption == MaxPassword \in Nat /\ MaxFailures \in Nat

VARIABLES password,  \* version of the password of the User row
          banned,    \* User.isBanned
          token,     \* the RefreshToken table
          worker,    \* what every worker is doing
          failures,  \* requests that failed so far
          finished,  \* history: passwords whose change was answered
          spared     \* history: sessions opened or renewed behind a sweep

vars == <<password, banned, token, worker, failures, finished, spared>>

Version == 0 .. MaxPassword

\* A session is named by the token of its login ("root"); "epoch" is the
\* password that login presented.
NoToken == [root |-> "none"]
Token == [root : Tokens, epoch : Version, revoked : BOOLEAN]

Idle == [pc |-> "idle"]
LoginJob == [pc : {"login-issue"}, epoch : Version]
RefreshJob == [pc : {"refresh-user", "refresh-commit"}, token : Tokens]
SweepJob == [pc : {"change-update", "list", "sweep", "ban-write"}, op : {"change", "ban"},
             version : Version, todo : SUBSET Tokens]

Exists(t) == token[t] # NoToken
Live(t) == Exists(t) /\ ~token[t].revoked

Init ==
  /\ password = 0
  /\ banned = FALSE
  /\ token = [t \in Tokens |-> NoToken]
  /\ worker = [w \in Workers |-> Idle]
  /\ failures = 0
  /\ finished = {}
  /\ spared = {}

At(w, pc) == worker[w].pc = pc
Become(w, job) == worker' = [worker EXCEPT ![w] = job]
Goto(w, pc) == worker' = [worker EXCEPT ![w].pc = pc]
Finish(w) == Become(w, Idle)

\* A sweep has listed the tokens it revokes, or a sweep is over that should
\* have ended a session of this epoch: a token inserted now is spared.
Sweeping == \E w \in Workers : At(w, "sweep") \/ At(w, "ban-write")
Behind(epoch) == \/ Sweeping
                 \/ banned
                 \/ epoch # password /\ password \in finished
Spare(s, epoch) == spared' = IF Behind(epoch) THEN spared \cup {s} ELSE spared

(***************************************************************************)
(* login, refresh, logout                                                  *)
(***************************************************************************)

\* The user is read, and the presented password verified against this read.
LoginRead(w) ==
  /\ worker[w] = Idle
  /\ ~banned
  /\ Become(w, [pc |-> "login-issue", epoch |-> password])
  /\ UNCHANGED <<password, banned, token, failures, finished, spared>>

LoginIssue(w, t) ==
  /\ At(w, "login-issue")
  /\ ~Exists(t)
  /\ token' = [token EXCEPT ![t] =
                 [root |-> t, epoch |-> worker[w].epoch, revoked |-> FALSE]]
  /\ Spare(t, worker[w].epoch)
  /\ Finish(w)
  /\ UNCHANGED <<password, banned, failures, finished>>

\* A token that is revoked, expired or unknown is refused at once.
RefreshRead(w, t) ==
  /\ worker[w] = Idle
  /\ Live(t)
  /\ Become(w, [pc |-> "refresh-user", token |-> t])
  /\ UNCHANGED <<password, banned, token, failures, finished, spared>>

RefreshUser(w) ==
  /\ At(w, "refresh-user")
  /\ IF banned THEN Finish(w) ELSE Goto(w, "refresh-commit")
  /\ UNCHANGED <<password, banned, token, failures, finished, spared>>

\* Mutant of RefreshCommit: the number of revoked rows is not looked at.
RefreshCommitUncounted(w, new) ==
  /\ At(w, "refresh-commit")
  /\ ~Exists(new)
  /\ LET t == worker[w].token IN
       /\ token' = [token EXCEPT
            ![t].revoked = TRUE,
            ![new] = [root |-> token[t].root, epoch |-> token[t].epoch, revoked |-> FALSE]]
       /\ Spare(token[t].root, token[t].epoch)
  /\ Finish(w)
  /\ UNCHANGED <<password, banned, failures, finished>>

\* UPDATE ... WHERE jti AND revokedAt IS NULL, which must hit one row, and the
\* insert of the next token.  The row lock makes the two and the commit one
\* step for everyone else.
RefreshCommit(w, new) ==
  /\ At(w, "refresh-commit")
  /\ LET t == worker[w].token IN
       \/ /\ Live(t)
          /\ ~Exists(new)
          /\ token' = [token EXCEPT
               ![t].revoked = TRUE,
               ![new] = [root |-> token[t].root, epoch |-> token[t].epoch, revoked |-> FALSE]]
          /\ Spare(token[t].root, token[t].epoch)
       \/ /\ ~Live(t)
          /\ UNCHANGED <<token, spared>>
  /\ Finish(w)
  /\ UNCHANGED <<password, banned, failures, finished>>

\* Revoke(t) is the update with the condition: it hits no row that is revoked.
Revoke(t) == token' = IF Live(t) THEN [token EXCEPT ![t].revoked = TRUE] ELSE token

Logout(t) ==
  /\ Live(t)
  /\ Revoke(t)
  /\ UNCHANGED <<password, banned, worker, failures, finished, spared>>

(***************************************************************************)
(* changePassword and banUser                                              *)
(***************************************************************************)

\* The current password is verified against a read outside any transaction.
ChangeRead(w) ==
  /\ worker[w] = Idle
  /\ ~banned                     \* JwtStrategy refuses a banned account
  /\ Become(w, [pc |-> "change-update", op |-> "change", version |-> 0, todo |-> {}])
  /\ UNCHANGED <<password, banned, token, failures, finished, spared>>

\* Every change writes a password of its own.
ChangeUpdate(w) ==
  /\ At(w, "change-update")
  /\ password < MaxPassword
  /\ password' = password + 1
  /\ worker' = [worker EXCEPT ![w].pc = "list", ![w].version = password + 1]
  /\ UNCHANGED <<banned, token, failures, finished, spared>>

BanStart(w) ==
  /\ worker[w] = Idle
  /\ Become(w, [pc |-> "list", op |-> "ban", version |-> 0, todo |-> {}])
  /\ UNCHANGED <<password, banned, token, failures, finished, spared>>

\* Mutant of List: only the first active token is found.
ListFirst(w) ==
  /\ At(w, "list")
  /\ \E todo \in SUBSET {t \in Tokens : Live(t)} :
       /\ \A t, u \in todo : t = u
       /\ worker' = [worker EXCEPT ![w].pc = "sweep", ![w].todo = todo]
  /\ UNCHANGED <<password, banned, token, failures, finished, spared>>

List(w) ==
  /\ At(w, "list")
  /\ worker' = [worker EXCEPT ![w].pc = "sweep", ![w].todo = {t \in Tokens : Live(t)}]
  /\ UNCHANGED <<password, banned, token, failures, finished, spared>>

Sweep(w, t) ==
  /\ At(w, "sweep")
  /\ t \in worker[w].todo
  /\ worker' = [worker EXCEPT ![w].todo = @ \ {t}]
  /\ Revoke(t)
  /\ UNCHANGED <<password, banned, failures, finished, spared>>

Swept(w) ==
  /\ At(w, "sweep")
  /\ worker[w].todo = {}
  /\ IF worker[w].op = "ban"
       THEN Goto(w, "ban-write") /\ UNCHANGED finished
       ELSE Finish(w) /\ finished' = finished \cup {worker[w].version}
  /\ UNCHANGED <<password, banned, token, failures, spared>>

BanWrite(w) ==
  /\ At(w, "ban-write")
  /\ banned' = TRUE
  /\ Finish(w)
  /\ UNCHANGED <<password, token, failures, finished, spared>>

Unban ==
  /\ banned
  /\ banned' = FALSE
  /\ UNCHANGED <<password, token, worker, failures, finished, spared>>

\* Whatever a request has committed stays; the rest does not happen.
Fail(w) ==
  /\ worker[w] # Idle
  /\ failures < MaxFailures
  /\ failures' = failures + 1
  /\ Finish(w)
  /\ UNCHANGED <<password, banned, token, finished, spared>>

Step(w) ==
  \/ LoginRead(w)
  \/ \E t \in Tokens : LoginIssue(w, t)
  \/ \E t \in Tokens : RefreshRead(w, t)
  \/ RefreshUser(w)
  \/ \E t \in Tokens : RefreshCommit(w, t)
  \/ ChangeRead(w) \/ ChangeUpdate(w) \/ BanStart(w)
  \/ List(w)
  \/ \E t \in Tokens : Sweep(w, t)
  \/ Swept(w) \/ BanWrite(w)
  \/ Fail(w)

Next == (\E w \in Workers : Step(w)) \/ (\E t \in Tokens : Logout(t)) \/ Unban

Spec == Init /\ [][Next]_vars

(***************************************************************************)
(* Properties                                                              *)
(***************************************************************************)

\* The types of the account, the tokens and the jobs; a refresh in flight is
\* about a stored token.
TypeOK ==
  /\ password \in Version
  /\ banned \in BOOLEAN
  /\ token \in [Tokens -> Token \cup {NoToken}]
  /\ worker \in [Workers -> {Idle} \cup LoginJob \cup RefreshJob \cup SweepJob]
  /\ \A w \in Workers : worker[w] \in RefreshJob => Exists(worker[w].token)
  /\ failures \in 0 .. MaxFailures
  /\ finished \subseteq Version
  /\ spared \subseteq Tokens

\* However many requests present a refresh token at once, one rotation
\* succeeds: a session never has two tokens that can be refreshed (AUTH-23).
OneTokenPerSession ==
  \A t, u \in Tokens : Live(t) /\ Live(u) /\ token[t].root = token[u].root => t = u

\* A session that should have ended, because its account is banned or because
\* the password it was opened with was changed and the change answered, is alive
\* only if it was opened or renewed behind the listing of the sweep: by a refresh
\* or a login under way.  A change that failed half-way promises nothing.
EndedUnlessSpared ==
  \A t \in Tokens : Live(t) =>
    /\ banned => token[t].root \in spared
    /\ token[t].epoch # password /\ password \in finished => token[t].root \in spared

\* A session is live while it has a token that is not revoked; a refresh that
\* races a logout, a password change or a ban never brings a session back that
\* has ended, and an unban restores none (ADMIN-06).
Session == [s \in Tokens |->
              IF \E t \in Tokens : Live(t) /\ token[t].root = s THEN "live"
              ELSE IF Exists(s) /\ token[s].root = s THEN "ended" ELSE "none"]
Registry == INSTANCE SessionRegistry WITH session <- Session
ImplementsRegistry == Registry!RegistrySpec

\* After a change of the password every earlier session is over (USER-08).
PasswordChangeEndsSessions ==
  \A t \in Tokens : Live(t) /\ password \in finished => token[t].epoch = password
===============================================================================
