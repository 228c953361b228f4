---------------------------- MODULE SessionsProofs ----------------------------
(***************************************************************************)
(* Theorems about Sessions, for every set of tokens and workers and any    *)
(* number of password changes and failed requests.                         *)
(***************************************************************************)
EXTENDS Sessions, TLAPS

\* The job a worker at a program point is doing.
LEMMA JobAt ==
  ASSUME TypeOK, NEW w \in Workers
  PROVE  /\ At(w, "login-issue") => worker[w] \in LoginJob
         /\ At(w, "refresh-user") \/ At(w, "refresh-commit") => worker[w] \in RefreshJob
         /\ At(w, "change-update") \/ At(w, "list") \/ At(w, "sweep") \/ At(w, "ban-write")
              => worker[w] \in SweepJob
BY DEF TypeOK, At, Idle, LoginJob, RefreshJob, SweepJob

\* A refresh in flight keeps its token when no token disappears.
LEMMA RefreshKept ==
  ASSUME TypeOK,
         \A t \in Tokens : token[t] # NoToken => token'[t] # NoToken,
         \A w \in Workers : worker'[w] \in RefreshJob => worker'[w] = worker[w]
  PROVE  \A w \in Workers : worker'[w] \in RefreshJob => token'[worker'[w].token] # NoToken
<1> SUFFICES ASSUME NEW w \in Workers, worker'[w] \in RefreshJob
             PROVE  token'[worker'[w].token] # NoToken
  OBVIOUS
<1>1. worker[w] \in RefreshJob /\ worker'[w] = worker[w]
  OBVIOUS
<1>2. token[worker[w].token] # NoToken
  BY <1>1 DEF TypeOK, Exists
<1>3. worker[w].token \in Tokens
  BY <1>1 DEF RefreshJob
<1> QED
  BY <1>1, <1>2, <1>3

LEMMA TypeInit == Init => TypeOK
<1>1. Idle \notin RefreshJob
  BY DEF Idle, RefreshJob
<1>2. 0 \in Version /\ 0 \in 0 .. MaxFailures
  BY BoundsAssumption DEF Version
<1> QED BY <1>1, <1>2 DEF Init, TypeOK

LEMMA TypeNext == TypeOK /\ [Next]_vars => TypeOK'
<1> SUFFICES ASSUME TypeOK, [Next]_vars PROVE TypeOK'
  OBVIOUS
<1> USE BoundsAssumption
<1>1. ASSUME NEW w \in Workers, LoginRead(w)
      PROVE  TypeOK'
  BY <1>1 DEF LoginRead, TypeOK, Become, LoginJob, RefreshJob, Exists
<1>2. ASSUME NEW w \in Workers, NEW t \in Tokens, LoginIssue(w, t)
      PROVE  TypeOK'
  <2>1. worker[w].epoch \in Version
    BY <1>2, JobAt DEF LoginIssue, LoginJob
  <2>2. token' \in [Tokens -> Token \cup {NoToken}] /\ spared' \subseteq Tokens
    BY <1>2, <2>1 DEF LoginIssue, TypeOK, Token, Spare
  <2>3. worker' = [worker EXCEPT ![w] = Idle]
    BY <1>2 DEF LoginIssue, Finish, Become
  <2>4. \A u \in Tokens : token[u] # NoToken => token'[u] # NoToken
    BY <1>2, <2>1 DEF LoginIssue, TypeOK, Exists, NoToken, Token
  <2>5. \A v \in Workers : worker'[v] \in RefreshJob => worker'[v] = worker[v]
    BY <2>3 DEF TypeOK, Idle, RefreshJob
  <2>6. \A v \in Workers : worker'[v] \in RefreshJob => token'[worker'[v].token] # NoToken
    BY <2>4, <2>5, RefreshKept
  <2> QED BY <1>2, <2>2, <2>3, <2>6 DEF LoginIssue, TypeOK, Exists
<1>3. ASSUME NEW w \in Workers, NEW t \in Tokens, RefreshRead(w, t)
      PROVE  TypeOK'
  BY <1>3 DEF RefreshRead, TypeOK, Become, RefreshJob, Live, Exists
<1>4. ASSUME NEW w \in Workers, RefreshUser(w)
      PROVE  TypeOK'
  <2>1. worker[w] \in RefreshJob
    BY <1>4, JobAt DEF RefreshUser
  <2> QED BY <1>4, <2>1 DEF RefreshUser, TypeOK, Finish, Become, Goto, RefreshJob, Idle, Exists
<1>5. ASSUME NEW w \in Workers, NEW t \in Tokens, RefreshCommit(w, t)
      PROVE  TypeOK'
  <2>1. worker[w].token \in Tokens
    BY <1>5, JobAt DEF RefreshCommit, RefreshJob
  <2>2. /\ token' \in [Tokens -> Token \cup {NoToken}] /\ spared' \subseteq Tokens
        /\ \A u \in Tokens : token[u] # NoToken => token'[u] # NoToken
    <3>1. CASE UNCHANGED <<token, spared>>
      BY <3>1 DEF TypeOK
    <3>2. CASE ~UNCHANGED <<token, spared>>
      <4>1. /\ token[worker[w].token] \in Token
            /\ token' = [token EXCEPT
                 ![worker[w].token].revoked = TRUE,
                 ![t] = [root |-> token[worker[w].token].root,
                         epoch |-> token[worker[w].token].epoch, revoked |-> FALSE]]
            /\ Spare(token[worker[w].token].root, token[worker[w].token].epoch)
        BY <1>5, <2>1, <3>2 DEF RefreshCommit, TypeOK, Live, Exists
      <4> QED BY <4>1, <2>1 DEF Spare, TypeOK, Token, NoToken
    <3> QED BY <3>1, <3>2
  <2>3. worker' = [worker EXCEPT ![w] = Idle]
    BY <1>5 DEF RefreshCommit, Finish, Become
  <2>4. \A v \in Workers : worker'[v] \in RefreshJob => worker'[v] = worker[v]
    BY <2>3 DEF TypeOK, Idle, RefreshJob
  <2>5. \A v \in Workers : worker'[v] \in RefreshJob => token'[worker'[v].token] # NoToken
    BY <2>2, <2>4, RefreshKept
  <2> QED BY <1>5, <2>2, <2>3, <2>5 DEF RefreshCommit, TypeOK, Exists
<1>6. ASSUME NEW w \in Workers, ChangeRead(w) \/ BanStart(w)
      PROVE  TypeOK'
  BY <1>6 DEF ChangeRead, BanStart, TypeOK, Become, SweepJob, RefreshJob, Version, Exists
<1>7. ASSUME NEW w \in Workers, ChangeUpdate(w)
      PROVE  TypeOK'
  <2>1. worker[w] \in SweepJob
    BY <1>7, JobAt DEF ChangeUpdate
  <2>2. password + 1 \in Version
    BY <1>7 DEF ChangeUpdate, TypeOK, Version
  <2> QED BY <1>7, <2>1, <2>2 DEF ChangeUpdate, TypeOK, SweepJob, RefreshJob, Exists
<1>8. ASSUME NEW w \in Workers, List(w)
      PROVE  TypeOK'
  <2>1. worker[w] \in SweepJob
    BY <1>8, JobAt DEF List
  <2> QED BY <1>8, <2>1 DEF List, TypeOK, SweepJob, RefreshJob, Exists
<1>9. ASSUME NEW w \in Workers, NEW t \in Tokens, Sweep(w, t)
      PROVE  TypeOK'
  <2>1. worker[w] \in SweepJob
    BY <1>9, JobAt DEF Sweep
  <2>2. /\ token' \in [Tokens -> Token \cup {NoToken}]
        /\ \A u \in Tokens : token[u] # NoToken => token'[u] # NoToken
    BY <1>9 DEF Sweep, Revoke, TypeOK, Live, Exists, Token, NoToken
  <2>3. worker' \in [Workers -> {Idle} \cup LoginJob \cup RefreshJob \cup SweepJob]
        /\ worker'[w] \notin RefreshJob
    BY <1>9, <2>1 DEF Sweep, TypeOK, SweepJob, RefreshJob
  <2>4. \A v \in Workers : v # w => worker'[v] = worker[v]
    BY <1>9 DEF Sweep, TypeOK
  <2>5. \A v \in Workers : worker'[v] \in RefreshJob => token'[worker'[v].token] # NoToken
    BY <2>2, <2>3, <2>4, RefreshKept
  <2> QED BY <1>9, <2>2, <2>3, <2>5 DEF Sweep, TypeOK, Exists
<1>10. ASSUME NEW w \in Workers, Swept(w)
       PROVE  TypeOK'
  <2>1. worker[w] \in SweepJob
    BY <1>10, JobAt DEF Swept
  <2> QED BY <1>10, <2>1
          DEF Swept, TypeOK, SweepJob, RefreshJob, Goto, Finish, Become, Idle, Exists
<1>11. ASSUME NEW w \in Workers, BanWrite(w) \/ Fail(w)
       PROVE  TypeOK'
  <2>1. worker' = [worker EXCEPT ![w] = Idle] /\ failures' \in 0 .. MaxFailures
    BY <1>11 DEF BanWrite, Fail, TypeOK, Finish, Become
  <2>2. \A v \in Workers : worker'[v] \in RefreshJob => worker'[v] = worker[v]
    BY <2>1 DEF TypeOK, Idle, RefreshJob
  <2>3. token' = token /\ banned' \in BOOLEAN
    BY <1>11 DEF BanWrite, Fail, TypeOK
  <2>4. \A v \in Workers : worker'[v] \in RefreshJob => token'[worker'[v].token] # NoToken
    BY <2>2, <2>3, RefreshKept
  <2> QED BY <1>11, <2>1, <2>3, <2>4 DEF BanWrite, Fail, TypeOK, Exists
<1>12. ASSUME NEW t \in Tokens, Logout(t)
       PROVE  TypeOK'
  BY <1>12 DEF Logout, Revoke, TypeOK, Live, Exists, Token, NoToken, RefreshJob
<1>13. CASE Unban \/ UNCHANGED vars
  BY <1>13 DEF Unban, TypeOK, vars, Exists
<1> QED
  BY <1>1, <1>2, <1>3, <1>4, <1>5, <1>6, <1>7, <1>8, <1>9, <1>10, <1>11, <1>12, <1>13
  DEF Next, Step

\* Types of the account, the tokens and the jobs.
THEOREM TypeCorrect == Spec => []TypeOK
BY TypeInit, TypeNext, PTL DEF Spec

(***************************************************************************)
(* What a step does to the token table: it opens a session, rotates a      *)
(* token, revokes one, or leaves the table alone.                          *)
(***************************************************************************)

Opens(t) ==
  /\ ~Exists(t)
  /\ \E e \in Version :
       /\ e <= password
       /\ token' = [token EXCEPT ![t] = [root |-> t, epoch |-> e, revoked |-> FALSE]]
       /\ Spare(t, e)

Rotates(t, new) ==
  /\ Live(t)
  /\ ~Exists(new)
  /\ token' = [token EXCEPT
       ![t].revoked = TRUE,
       ![new] = [root |-> token[t].root, epoch |-> token[t].epoch, revoked |-> FALSE]]
  /\ Spare(token[t].root, token[t].epoch)

Revokes(t) ==
  /\ Live(t)
  /\ token' = [token EXCEPT ![t].revoked = TRUE]
  /\ UNCHANGED spared

\* A presented password is one the account has had, and so is a swept version.
Bounded ==
  /\ \A w \in Workers : worker[w] \in LoginJob => worker[w].epoch <= password
  /\ \A w \in Workers : worker[w] \in SweepJob => worker[w].version <= password
  /\ \A v \in finished : v <= password

\* The first token of a session stays in the table.
RootStored ==
  \A t \in Tokens : Exists(t) => /\ Exists(token[t].root)
                                 /\ token[token[t].root].root = token[t].root

LEMMA Effects ==
  ASSUME TypeOK, Bounded, [Next]_vars
  PROVE  \/ \E t \in Tokens : Opens(t) \/ Revokes(t)
         \/ \E t, new \in Tokens : Rotates(t, new)
         \/ UNCHANGED <<token, spared>>
<1>1. ASSUME NEW w \in Workers, NEW t \in Tokens, LoginIssue(w, t)
      PROVE  Opens(t)
  <2>1. worker[w] \in LoginJob
    BY <1>1, JobAt DEF LoginIssue
  <2>2. worker[w].epoch \in Version /\ worker[w].epoch <= password
    BY <2>1 DEF LoginJob, Bounded
  <2> QED BY <1>1, <2>2 DEF LoginIssue, Opens
<1>2. ASSUME NEW w \in Workers, NEW new \in Tokens, RefreshCommit(w, new)
      PROVE  \/ \E t \in Tokens : Rotates(t, new)
             \/ UNCHANGED <<token, spared>>
  <2>1. worker[w].token \in Tokens
    BY <1>2, JobAt DEF RefreshCommit, RefreshJob
  <2> QED BY <1>2, <2>1 DEF RefreshCommit, Rotates
<1>3. ASSUME NEW t \in Tokens, Revoke(t), UNCHANGED spared
      PROVE  Revokes(t) \/ UNCHANGED <<token, spared>>
  BY <1>3 DEF Revoke, Revokes
<1>4. CASE \E w \in Workers : Step(w)
  <2> PICK w \in Workers : Step(w)
    BY <1>4
  <2>1. CASE \E t \in Tokens : LoginIssue(w, t)
    BY <2>1, <1>1
  <2>2. CASE \E t \in Tokens : RefreshCommit(w, t)
    BY <2>2, <1>2
  <2>3. CASE \E t \in Tokens : Sweep(w, t)
    BY <2>3, <1>3 DEF Sweep
  <2>4. CASE \/ LoginRead(w) \/ \E t \in Tokens : RefreshRead(w, t)
             \/ RefreshUser(w) \/ ChangeRead(w) \/ ChangeUpdate(w) \/ BanStart(w)
             \/ List(w) \/ Swept(w) \/ BanWrite(w) \/ Fail(w)
    BY <2>4 DEF LoginRead, RefreshRead, RefreshUser, ChangeRead, ChangeUpdate, BanStart,
                List, Swept, BanWrite, Fail
  <2> QED BY <2>1, <2>2, <2>3, <2>4 DEF Step
<1>5. CASE \E t \in Tokens : Logout(t)
  BY <1>5, <1>3 DEF Logout
<1>6. CASE Unban \/ UNCHANGED vars
  BY <1>6 DEF Unban, vars
<1> QED BY <1>4, <1>5, <1>6 DEF Next

LEMMA BoundedNext ==
  ASSUME TypeOK, Bounded, [Next]_vars
  PROVE  Bounded'
<1>1. password \in Nat /\ password' \in Nat
  BY TypeNext, BoundsAssumption DEF TypeOK, Version
<1>2. ASSUME NEW w \in Workers, ChangeUpdate(w)
      PROVE  Bounded'
  <2>1. worker[w] \in SweepJob /\ password' = password + 1
    BY <1>2, JobAt DEF ChangeUpdate
  <2>2. /\ worker'[w].version = password + 1 /\ worker'[w] \in SweepJob
        /\ worker'[w] \notin LoginJob
        /\ \A v \in Workers : v # w => worker'[v] = worker[v]
    BY <1>1, <1>2, <2>1, TypeNext DEF ChangeUpdate, TypeOK, SweepJob, LoginJob
  <2>3. /\ \A v \in Workers : worker[v] \in LoginJob => worker[v].epoch \in Nat
        /\ \A v \in Workers : worker[v] \in SweepJob => worker[v].version \in Nat
        /\ \A v \in finished : v \in Nat
    BY BoundsAssumption DEF LoginJob, SweepJob, Version, TypeOK
  <2>4. finished' = finished
    BY <1>2 DEF ChangeUpdate
  <2>5. \A v \in Workers : worker'[v] \in LoginJob => worker'[v].epoch <= password'
    BY <1>1, <2>1, <2>2, <2>3 DEF Bounded
  <2>6. \A v \in Workers : worker'[v] \in SweepJob => worker'[v].version <= password'
    BY <1>1, <2>1, <2>2, <2>3 DEF Bounded
  <2>7. \A v \in finished' : v <= password'
    BY <1>1, <2>1, <2>3, <2>4 DEF Bounded
  <2> QED BY <2>5, <2>6, <2>7 DEF Bounded
<1>3. ASSUME NEW w \in Workers, NEW job,
             password' = password, finished' = finished, worker' = [worker EXCEPT ![w] = job],
             job \in LoginJob => job.epoch <= password,
             job \in SweepJob => job.version <= password
      PROVE  Bounded'
  BY <1>3 DEF Bounded, TypeOK
<1>4. ASSUME NEW w \in Workers, worker' = [worker EXCEPT ![w] = Idle],
             password' = password,
             finished' = finished \/ (worker[w] \in SweepJob
                                      /\ finished' = finished \cup {worker[w].version})
      PROVE  Bounded'
  <2>1. Idle \notin LoginJob /\ Idle \notin SweepJob
    BY DEF Idle, LoginJob, SweepJob
  <2> QED BY <1>4, <2>1 DEF Bounded, TypeOK
<1>5. ASSUME NEW w \in Workers, LoginRead(w) \/ ChangeRead(w) \/ BanStart(w)
      PROVE  Bounded'
  <2>1. PICK job : /\ job \in {[pc |-> "login-issue", epoch |-> password],
                               [pc |-> "change-update", op |-> "change", version |-> 0, todo |-> {}],
                               [pc |-> "list", op |-> "ban", version |-> 0, todo |-> {}]}
                   /\ worker' = [worker EXCEPT ![w] = job]
                   /\ password' = password /\ finished' = finished
    BY <1>5 DEF LoginRead, ChangeRead, BanStart, Become
  <2>2. /\ job \in LoginJob => job.epoch <= password
        /\ job \in SweepJob => job.version <= password
    BY <1>1, <2>1 DEF LoginJob, SweepJob
  <2> QED BY <1>3, <2>1, <2>2
<1>6. ASSUME NEW w \in Workers, NEW t \in Tokens, RefreshRead(w, t)
      PROVE  Bounded'
  <2>1. /\ [pc |-> "refresh-user", token |-> t] \notin LoginJob
        /\ [pc |-> "refresh-user", token |-> t] \notin SweepJob
    BY DEF LoginJob, SweepJob
  <2> QED BY <1>3, <1>6, <2>1 DEF RefreshRead, Become
<1>7. ASSUME NEW w \in Workers, NEW t \in Tokens, LoginIssue(w, t) \/ RefreshCommit(w, t)
      PROVE  Bounded'
  BY <1>4, <1>7 DEF LoginIssue, RefreshCommit, Finish, Become
<1>8. ASSUME NEW w \in Workers, RefreshUser(w)
      PROVE  Bounded'
  <2>1. worker[w] \in RefreshJob
    BY <1>8, JobAt DEF RefreshUser
  <2>2. CASE banned
    BY <1>4, <1>8, <2>2 DEF RefreshUser, Finish, Become
  <2>3. CASE ~banned
    <3>1. /\ [worker[w] EXCEPT !.pc = "refresh-commit"] \notin LoginJob
          /\ [worker[w] EXCEPT !.pc = "refresh-commit"] \notin SweepJob
      BY <2>1 DEF RefreshJob, LoginJob, SweepJob
    <3> QED BY <1>3, <1>8, <2>3, <3>1 DEF RefreshUser, Goto
  <2> QED BY <2>2, <2>3
<1>9. ASSUME NEW w \in Workers, NEW job, worker[w] \in SweepJob,
             job \in SweepJob, job.version = worker[w].version,
             worker' = [worker EXCEPT ![w] = job], password' = password, finished' = finished
      PROVE  Bounded'
  <2>1. job \notin LoginJob
    BY <1>9 DEF SweepJob, LoginJob
  <2> QED BY <1>3, <1>9, <2>1 DEF Bounded
<1>10. ASSUME NEW w \in Workers, List(w)
       PROVE  Bounded'
  <2> DEFINE live == {t \in Tokens : Live(t)}
             job == [worker[w] EXCEPT !.pc = "sweep", !.todo = live]
  <2>1. worker[w] \in SweepJob
    BY <1>10, JobAt DEF List
  <2> HIDE DEF live
  <2>2. live \subseteq Tokens
    BY DEF live
  <2>3. job \in SweepJob /\ job.version = worker[w].version
    BY <2>1, <2>2 DEF SweepJob
  <2>4. worker' = [worker EXCEPT ![w] = job] /\ UNCHANGED <<password, finished>>
    BY <1>10 DEF List, live
  <2> HIDE DEF job
  <2> QED BY <1>9, <2>1, <2>3, <2>4
<1>11. ASSUME NEW w \in Workers, NEW t \in Tokens, Sweep(w, t)
       PROVE  Bounded'
  <2> DEFINE job == [worker[w] EXCEPT !.todo = @ \ {t}]
  <2>1. worker[w] \in SweepJob
    BY <1>11, JobAt DEF Sweep
  <2>2. job \in SweepJob /\ job.version = worker[w].version
    BY <2>1 DEF SweepJob
  <2>3. worker' = [worker EXCEPT ![w] = job] /\ UNCHANGED <<password, finished>>
    BY <1>11 DEF Sweep
  <2> HIDE DEF job
  <2> QED BY <1>9, <2>1, <2>2, <2>3
<1>12. ASSUME NEW w \in Workers, Swept(w)
       PROVE  Bounded'
  <2> DEFINE job == [worker[w] EXCEPT !.pc = "ban-write"]
  <2>1. worker[w] \in SweepJob
    BY <1>12, JobAt DEF Swept
  <2>2. job \in SweepJob /\ job.version = worker[w].version
    BY <2>1 DEF SweepJob
  <2>3. \/ worker' = [worker EXCEPT ![w] = job] /\ UNCHANGED <<password, finished>>
        \/ /\ worker' = [worker EXCEPT ![w] = Idle] /\ password' = password
           /\ finished' = finished \cup {worker[w].version}
    BY <1>12 DEF Swept, Goto, Finish, Become
  <2> HIDE DEF job
  <2> QED BY <1>4, <1>9, <2>1, <2>2, <2>3
<1>13. ASSUME NEW w \in Workers, BanWrite(w) \/ Fail(w)
       PROVE  Bounded'
  BY <1>4, <1>13 DEF BanWrite, Fail, Finish, Become
<1>14. CASE (\E t \in Tokens : Logout(t)) \/ Unban \/ UNCHANGED vars
  BY <1>14 DEF Logout, Unban, vars, Bounded
<1> QED
  BY <1>2, <1>5, <1>6, <1>7, <1>8, <1>10, <1>11, <1>12, <1>13, <1>14 DEF Next, Step

(***************************************************************************)
(* What every effect leaves of the table.                                  *)
(***************************************************************************)

LEMMA OpensTable ==
  ASSUME TypeOK, NEW t \in Tokens, Opens(t)
  PROVE  /\ Live(t)' /\ token'[t].root = t /\ ~Exists(t)
         /\ token'[t].epoch \in Version
         /\ Behind(token'[t].epoch) => t \in spared'
         /\ spared \subseteq spared'
         /\ \A u \in Tokens : u # t => token'[u] = token[u]
<1>1. PICK e \in Version :
        /\ token' = [token EXCEPT ![t] = [root |-> t, epoch |-> e, revoked |-> FALSE]]
        /\ Spare(t, e)
  BY DEF Opens
<1>2. token'[t] = [root |-> t, epoch |-> e, revoked |-> FALSE]
  BY <1>1 DEF TypeOK
<1>3. Live(t)'
  BY <1>2 DEF Live, Exists, NoToken
<1>4. \A u \in Tokens : u # t => token'[u] = token[u]
  BY <1>1 DEF TypeOK
<1>5. (Behind(e) => t \in spared') /\ spared \subseteq spared'
  BY <1>1 DEF Spare
<1> QED BY <1>2, <1>3, <1>4, <1>5 DEF Opens

LEMMA RotatesTable ==
  ASSUME TypeOK, NEW t \in Tokens, NEW new \in Tokens, Rotates(t, new)
  PROVE  /\ t # new /\ Live(t) /\ ~Exists(new)
         /\ Exists(t)' /\ ~Live(t)'
         /\ token'[t].root = token[t].root /\ token'[t].epoch = token[t].epoch
         /\ Live(new)'
         /\ token'[new].root = token[t].root /\ token'[new].epoch = token[t].epoch
         /\ Behind(token[t].epoch) => token[t].root \in spared'
         /\ spared \subseteq spared'
         /\ \A u \in Tokens : u # t /\ u # new => token'[u] = token[u]
<1>1. t # new /\ token[t] \in Token
  BY DEF Rotates, Live, Exists, TypeOK
<1>2. /\ token'[t] = [token[t] EXCEPT !.revoked = TRUE]
      /\ token'[new] = [root |-> token[t].root, epoch |-> token[t].epoch, revoked |-> FALSE]
      /\ \A u \in Tokens : u # t /\ u # new => token'[u] = token[u]
  BY <1>1 DEF Rotates, TypeOK
<1>3. Exists(t)' /\ ~Live(t)' /\ Live(new)'
  BY <1>1, <1>2 DEF Live, Exists, NoToken, Token
<1>4. token'[t].root = token[t].root /\ token'[t].epoch = token[t].epoch
  BY <1>1, <1>2 DEF Token
<1>5. /\ Behind(token[t].epoch) => token[t].root \in spared'
      /\ spared \subseteq spared'
  BY DEF Rotates, Spare
<1>6. /\ Live(t) /\ ~Exists(new)
      /\ token'[new].root = token[t].root /\ token'[new].epoch = token[t].epoch
  BY <1>2 DEF Rotates
<1> QED BY <1>1, <1>2, <1>3, <1>4, <1>5, <1>6

LEMMA RevokesTable ==
  ASSUME TypeOK, NEW t \in Tokens, Revokes(t)
  PROVE  /\ Live(t) /\ Exists(t)' /\ ~Live(t)'
         /\ token'[t].root = token[t].root
         /\ spared' = spared
         /\ \A u \in Tokens : u # t => token'[u] = token[u]
<1>1. token[t] \in Token
  BY DEF Revokes, Live, Exists, TypeOK
<1>2. /\ token'[t] = [token[t] EXCEPT !.revoked = TRUE]
      /\ \A u \in Tokens : u # t => token'[u] = token[u]
  BY DEF Revokes, TypeOK
<1>3. Exists(t)' /\ ~Live(t)' /\ token'[t].root = token[t].root
  BY <1>1, <1>2 DEF Live, Exists, NoToken, Token
<1> QED BY <1>2, <1>3 DEF Revokes

LEMMA SameLive ==
  ASSUME NEW u \in Tokens, token'[u] = token[u]
  PROVE  (Live(u)' <=> Live(u)) /\ (Exists(u)' <=> Exists(u))
BY DEF Live, Exists

(***************************************************************************)
(* One usable token per session.                                           *)
(***************************************************************************)

Rooted == TypeOK /\ Bounded /\ RootStored /\ OneTokenPerSession

LEMMA RootType ==
  ASSUME TypeOK, NEW t \in Tokens, Exists(t)
  PROVE  token[t] \in Token /\ token[t].root \in Tokens /\ token[t].epoch \in Version
BY DEF TypeOK, Exists, Token

LEMMA RootedInit == Init => Rooted
<1> SUFFICES ASSUME Init PROVE Rooted
  OBVIOUS
<1>1. TypeOK
  BY TypeInit
<1>2. \A t \in Tokens : ~Exists(t) /\ ~Live(t)
  BY DEF Init, Exists, Live
<1>3. Bounded
  BY DEF Init, Bounded, Idle, LoginJob, SweepJob
<1> QED BY <1>1, <1>2, <1>3 DEF Rooted, RootStored, OneTokenPerSession

LEMMA RootedNext == Rooted /\ [Next]_vars => Rooted'
<1> SUFFICES ASSUME Rooted, [Next]_vars PROVE Rooted'
  OBVIOUS
<1> USE DEF Rooted
<1>1. TypeOK' /\ Bounded'
  BY TypeNext, BoundedNext
<1>2. ASSUME NEW t \in Tokens, Opens(t)
      PROVE  RootStored' /\ OneTokenPerSession'
  <2>1. \A u \in Tokens : u # t => (Live(u)' <=> Live(u)) /\ (Exists(u)' <=> Exists(u))
    BY <1>2, OpensTable, SameLive
  <2>2. \A u \in Tokens : Exists(u) => token[u].root # t /\ token[u].root \in Tokens
    BY <1>2, OpensTable, RootType DEF RootStored
  <2>3. Live(t)' /\ Exists(t)' /\ token'[t].root = t
    BY <1>2, OpensTable DEF Live
  <2>4. \A u \in Tokens : u # t => token'[u] = token[u]
    BY <1>2, OpensTable
  <2>5. RootStored'
    BY <2>1, <2>2, <2>3, <2>4 DEF RootStored
  <2>6. \A u \in Tokens : Live(u) => Exists(u)
    BY DEF Live
  <2>7. OneTokenPerSession'
    BY <2>1, <2>2, <2>3, <2>4, <2>6 DEF OneTokenPerSession
  <2> QED BY <2>5, <2>7
<1>3. ASSUME NEW t \in Tokens, NEW new \in Tokens, Rotates(t, new)
      PROVE  RootStored' /\ OneTokenPerSession'
  <2>1. \A u \in Tokens : u # t /\ u # new => /\ (Live(u)' <=> Live(u))
                                              /\ (Exists(u)' <=> Exists(u))
                                              /\ token'[u] = token[u]
    BY <1>3, RotatesTable, SameLive
  <2>2. \A u \in Tokens : Exists(u) => token[u].root # new /\ token[u].root \in Tokens
    BY <1>3, RotatesTable, RootType DEF RootStored
  <2>3. /\ t # new /\ Live(t) /\ Exists(t) /\ ~Exists(new)
        /\ Exists(t)' /\ ~Live(t)' /\ Exists(new)' /\ Live(new)'
        /\ token'[t].root = token[t].root /\ token'[new].root = token[t].root
    BY <1>3, RotatesTable DEF Live
  <2>4. \A u \in Tokens : u # new => token'[u].root = token[u].root /\ (Exists(u)' <=> Exists(u))
    BY <2>1, <2>3
  <2>5. RootStored'
    BY <2>2, <2>3, <2>4 DEF RootStored
  <2>6. OneTokenPerSession'
    BY <2>1, <2>3 DEF OneTokenPerSession
  <2> QED BY <2>5, <2>6
<1>4. ASSUME NEW t \in Tokens, Revokes(t)
      PROVE  RootStored' /\ OneTokenPerSession'
  <2>1. \A u \in Tokens : u # t => /\ (Live(u)' <=> Live(u))
                                   /\ (Exists(u)' <=> Exists(u))
                                   /\ token'[u] = token[u]
    BY <1>4, RevokesTable, SameLive
  <2>2. /\ Exists(t) /\ Exists(t)' /\ ~Live(t)' /\ token'[t].root = token[t].root
    BY <1>4, RevokesTable DEF Live
  <2>3. \A u \in Tokens : token'[u].root = token[u].root /\ (Exists(u)' <=> Exists(u))
    BY <2>1, <2>2
  <2>4. \A u \in Tokens : Exists(u) => token[u].root \in Tokens
    BY RootType
  <2>5. RootStored'
    BY <2>3, <2>4 DEF RootStored
  <2>6. OneTokenPerSession'
    BY <2>1, <2>2 DEF OneTokenPerSession
  <2> QED BY <2>5, <2>6
<1>5. ASSUME UNCHANGED <<token, spared>>
      PROVE  RootStored' /\ OneTokenPerSession'
  BY <1>5 DEF RootStored, OneTokenPerSession, Live, Exists
<1>6. RootStored' /\ OneTokenPerSession'
  <2>1. \/ \E t \in Tokens : Opens(t) \/ Revokes(t)
        \/ \E t, new \in Tokens : Rotates(t, new)
        \/ UNCHANGED <<token, spared>>
    BY Effects
  <2> HIDE DEF Rooted
  <2> QED BY <1>2, <1>3, <1>4, <1>5, <2>1
<1> QED BY <1>1, <1>6

LEMMA RootedAlways == Spec => []Rooted
BY RootedInit, RootedNext, PTL DEF Spec

\* However many requests present a refresh token at once, a session never has
\* two tokens that can be refreshed.
THEOREM OneTokenTheorem == Spec => []OneTokenPerSession
<1>1. Rooted => OneTokenPerSession
  BY DEF Rooted
<1> QED BY <1>1, RootedAlways, PTL

(***************************************************************************)
(* Only spared sessions survive a sweep.                                   *)
(***************************************************************************)

\* While a sweep is revoking, and between the sweep of a ban and its flag, a
\* token it does not have on its list belongs to a spared session.
Covered ==
  /\ \A w \in Workers : At(w, "sweep") =>
       \A t \in Tokens : Live(t) => t \in worker[w].todo \/ token[t].root \in spared
  /\ \A w \in Workers : At(w, "ban-write") =>
       \A t \in Tokens : Live(t) => token[t].root \in spared

Swepts == Rooted /\ Covered /\ EndedUnlessSpared

\* A live token was live before, or it was inserted now.
LEMMA LiveFate ==
  ASSUME Rooted, [Next]_vars
  PROVE  /\ spared \subseteq spared'
         /\ \A u \in Tokens : Live(u)' =>
              \/ Live(u) /\ token'[u] = token[u]
              \/ Behind(token'[u].epoch) => token'[u].root \in spared'
<1> DEFINE Fate == /\ spared \subseteq spared'
                   /\ \A u \in Tokens : Live(u)' =>
                        \/ Live(u) /\ token'[u] = token[u]
                        \/ Behind(token'[u].epoch) => token'[u].root \in spared'
<1>0. TypeOK /\ Bounded
  BY DEF Rooted
<1>1. ASSUME NEW t \in Tokens, Opens(t)
      PROVE  Fate
  BY <1>0, <1>1, OpensTable, SameLive
<1>2. ASSUME NEW t \in Tokens, NEW new \in Tokens, Rotates(t, new)
      PROVE  Fate
  BY <1>0, <1>2, RotatesTable, SameLive
<1>3. ASSUME NEW t \in Tokens, Revokes(t)
      PROVE  Fate
  BY <1>0, <1>3, RevokesTable, SameLive
<1>4. ASSUME UNCHANGED <<token, spared>>
      PROVE  Fate
  BY <1>4, SameLive
<1> HIDE DEF Fate
<1>5. Fate
  BY <1>0, <1>1, <1>2, <1>3, <1>4, Effects
<1> QED BY <1>5 DEF Fate

\* No sweep moves on in this step.
Elsewhere ==
  /\ \A v \in Workers : At(v, "sweep")' => At(v, "sweep") /\ worker'[v] = worker[v]
  /\ \A v \in Workers : At(v, "ban-write")' => At(v, "ban-write")

LEMMA BecomesElsewhere ==
  ASSUME NEW w \in Workers, \A v \in Workers : v # w => worker'[v] = worker[v],
         worker'[w].pc # "sweep", worker'[w].pc # "ban-write"
  PROVE  Elsewhere
BY DEF At, Elsewhere

LEMMA GoesElsewhere ==
  ASSUME TypeOK, [Next]_vars
  PROVE  \/ Elsewhere
         \/ \E w \in Workers : List(w) \/ (\E t \in Tokens : Sweep(w, t)) \/ Swept(w)
<1>1. ASSUME NEW w \in Workers,
             \/ \E t \in Tokens : LoginIssue(w, t) \/ RefreshCommit(w, t)
             \/ BanWrite(w) \/ Fail(w)
      PROVE  Elsewhere
  <2>1. worker' = [worker EXCEPT ![w] = Idle]
    BY <1>1 DEF LoginIssue, RefreshCommit, BanWrite, Fail, Finish, Become
  <2>2. worker'[w].pc = "idle" /\ \A v \in Workers : v # w => worker'[v] = worker[v]
    BY <2>1 DEF TypeOK, Idle
  <2> QED BY <2>2, BecomesElsewhere
<1>2. ASSUME NEW w \in Workers,
             LoginRead(w) \/ (\E t \in Tokens : RefreshRead(w, t)) \/ ChangeRead(w) \/ BanStart(w)
      PROVE  Elsewhere
  <2>1. /\ worker'[w].pc \in {"login-issue", "refresh-user", "change-update", "list"}
        /\ \A v \in Workers : v # w => worker'[v] = worker[v]
    BY <1>2 DEF LoginRead, RefreshRead, ChangeRead, BanStart, Become, TypeOK
  <2> QED BY <2>1, BecomesElsewhere
<1>3. ASSUME NEW w \in Workers, RefreshUser(w)
      PROVE  Elsewhere
  <2>1. worker[w] \in RefreshJob
    BY <1>3, JobAt DEF RefreshUser
  <2>2. /\ worker'[w].pc \in {"idle", "refresh-commit"}
        /\ \A v \in Workers : v # w => worker'[v] = worker[v]
    BY <1>3, <2>1 DEF RefreshUser, Finish, Become, Goto, Idle, TypeOK, RefreshJob
  <2> QED BY <2>2, BecomesElsewhere
<1>4. ASSUME NEW w \in Workers, ChangeUpdate(w)
      PROVE  Elsewhere
  <2>1. worker[w] \in SweepJob
    BY <1>4, JobAt DEF ChangeUpdate
  <2>2. /\ worker'[w].pc = "list"
        /\ \A v \in Workers : v # w => worker'[v] = worker[v]
    BY <1>4, <2>1 DEF ChangeUpdate, TypeOK, SweepJob
  <2> QED BY <2>2 DEF Elsewhere, At
<1>5. CASE (\E t \in Tokens : Logout(t)) \/ Unban \/ UNCHANGED vars
  BY <1>5 DEF Logout, Unban, vars, Elsewhere, At
<1> QED BY <1>1, <1>2, <1>3, <1>4, <1>5 DEF Next, Step

LEMMA CoveredNext ==
  ASSUME Swepts, [Next]_vars
  PROVE  Covered'
<1>0. TypeOK /\ Rooted /\ Covered
  BY DEF Swepts, Rooted
<1>1. ASSUME Elsewhere
      PROVE  Covered'
  <2>1. ASSUME NEW v \in Workers, At(v, "sweep")', NEW t \in Tokens, Live(t)'
        PROVE  t \in worker'[v].todo \/ token'[t].root \in spared'
    <3>1. At(v, "sweep") /\ worker'[v] = worker[v]
      BY <1>1, <2>1 DEF Elsewhere
    <3>2. Behind(token'[t].epoch)
      BY <3>1 DEF Behind, Sweeping
    <3>3. CASE Live(t) /\ token'[t] = token[t]
      BY <1>0, <3>1, <3>3, LiveFate DEF Covered
    <3> QED BY <1>0, <2>1, <3>2, <3>3, LiveFate
  <2>2. ASSUME NEW v \in Workers, At(v, "ban-write")', NEW t \in Tokens, Live(t)'
        PROVE  token'[t].root \in spared'
    <3>1. At(v, "ban-write")
      BY <1>1, <2>2 DEF Elsewhere
    <3>2. Behind(token'[t].epoch)
      BY <3>1 DEF Behind, Sweeping
    <3>3. CASE Live(t) /\ token'[t] = token[t]
      BY <1>0, <3>1, <3>3, LiveFate DEF Covered
    <3> QED BY <1>0, <2>2, <3>2, <3>3, LiveFate
  <2> QED BY <2>1, <2>2 DEF Covered
<1>2. ASSUME NEW w \in Workers, List(w)
      PROVE  Covered'
  <2>1. worker[w] \in SweepJob
    BY <1>0, <1>2, JobAt DEF List
  <2>2. /\ worker'[w].todo = {t \in Tokens : Live(t)} /\ ~At(w, "ban-write")'
        /\ \A v \in Workers : v # w => worker'[v] = worker[v]
    BY <1>0, <1>2, <2>1 DEF List, TypeOK, SweepJob, At
  <2>3. UNCHANGED <<token, spared>>
    BY <1>2 DEF List
  <2>4. \A t \in Tokens : Live(t)' <=> Live(t)
    BY <2>3, SameLive
  <2> QED BY <1>0, <2>2, <2>3, <2>4 DEF Covered, At
<1>3. ASSUME NEW w \in Workers, NEW t \in Tokens, Sweep(w, t)
      PROVE  Covered'
  <2>1. worker[w] \in SweepJob /\ worker[w].pc = "sweep"
    BY <1>0, <1>3, JobAt DEF Sweep, At
  <2>2. /\ worker'[w].todo = worker[w].todo \ {t} /\ worker'[w].pc = "sweep"
        /\ \A v \in Workers : v # w => worker'[v] = worker[v]
    BY <1>0, <1>3, <2>1 DEF Sweep, TypeOK, SweepJob
  <2>3. spared' = spared
    BY <1>3 DEF Sweep
  <2>4. /\ ~Live(t)'
        /\ \A u \in Tokens : u # t => token'[u] = token[u]
    <3>1. CASE Live(t)
      BY <1>0, <1>3, <3>1, RevokesTable DEF Sweep, Revoke, Revokes
    <3>2. CASE ~Live(t)
      BY <1>3, <3>2, SameLive DEF Sweep, Revoke
    <3> QED BY <3>1, <3>2
  <2>5. \A u \in Tokens : Live(u)' => u # t /\ Live(u) /\ token'[u] = token[u]
    BY <2>4, SameLive
  <2> QED BY <1>0, <2>1, <2>2, <2>3, <2>5 DEF Covered, At
<1>4. ASSUME NEW w \in Workers, Swept(w)
      PROVE  Covered'
  <2>1. worker[w] \in SweepJob /\ worker[w].pc = "sweep" /\ worker[w].todo = {}
    BY <1>0, <1>4, JobAt DEF Swept, At
  <2>2. /\ worker'[w].pc \in {"idle", "ban-write"}
        /\ \A v \in Workers : v # w => worker'[v] = worker[v]
    BY <1>0, <1>4, <2>1 DEF Swept, Goto, Finish, Become, Idle, TypeOK, SweepJob
  <2>3. UNCHANGED <<token, spared>>
    BY <1>4 DEF Swept
  <2>4. \A t \in Tokens : Live(t)' <=> Live(t)
    BY <2>3, SameLive
  <2>5. \A t \in Tokens : Live(t) => token[t].root \in spared
    BY <1>0, <2>1 DEF Covered, At
  <2> QED BY <1>0, <2>2, <2>3, <2>4, <2>5 DEF Covered, At
<1> QED BY <1>0, <1>1, <1>2, <1>3, <1>4, GoesElsewhere

LEMMA EndedNext ==
  ASSUME Swepts, [Next]_vars
  PROVE  EndedUnlessSpared'
<1>0. TypeOK /\ Rooted /\ Covered /\ EndedUnlessSpared /\ Bounded
  BY DEF Swepts, Rooted
<1>1. ASSUME NEW w \in Workers, Swept(w)
      PROVE  EndedUnlessSpared'
  <2>1. worker[w].todo = {} /\ At(w, "sweep")
    BY <1>1 DEF Swept
  <2>2. \A t \in Tokens : Live(t) => token[t].root \in spared
    BY <1>0, <2>1 DEF Covered
  <2>3. UNCHANGED <<token, spared>>
    BY <1>1 DEF Swept
  <2> QED BY <2>2, <2>3, SameLive DEF EndedUnlessSpared
<1>2. ASSUME NEW w \in Workers, BanWrite(w)
      PROVE  EndedUnlessSpared'
  <2>1. \A t \in Tokens : Live(t) => token[t].root \in spared
    BY <1>0, <1>2 DEF BanWrite, Covered
  <2>2. UNCHANGED <<token, spared>>
    BY <1>2 DEF BanWrite
  <2> QED BY <2>1, <2>2, SameLive DEF EndedUnlessSpared
<1>3. ASSUME NEW w \in Workers, ChangeUpdate(w)
      PROVE  EndedUnlessSpared'
  <2>1. UNCHANGED <<token, spared, banned, finished>> /\ password' = password + 1
    BY <1>3 DEF ChangeUpdate
  <2>2. password \in Nat
    BY <1>0, BoundsAssumption DEF TypeOK, Version
  <2>3. password + 1 \notin finished
    BY <1>0, <2>2 DEF Bounded
  <2> QED BY <1>0, <2>1, <2>3, SameLive DEF EndedUnlessSpared
<1>4. ASSUME UNCHANGED <<password, finished>>, banned' => banned
      PROVE  EndedUnlessSpared'
  <2> SUFFICES ASSUME NEW t \in Tokens, Live(t)',
                      banned' \/ (token'[t].epoch # password' /\ password' \in finished')
               PROVE  token'[t].root \in spared'
    BY DEF EndedUnlessSpared
  <2>1. banned \/ (token'[t].epoch # password /\ password \in finished)
    BY <1>4
  <2>2. Behind(token'[t].epoch)
    BY <2>1 DEF Behind
  <2>3. CASE Live(t) /\ token'[t] = token[t]
    BY <1>0, <2>1, <2>3, LiveFate DEF EndedUnlessSpared
  <2> QED BY <1>0, <2>2, <2>3, LiveFate
<1>5. \/ UNCHANGED <<password, finished>> /\ (banned' => banned)
      \/ \E w \in Workers : Swept(w) \/ BanWrite(w) \/ ChangeUpdate(w)
  BY DEF Next, Step, LoginRead, LoginIssue, RefreshRead, RefreshUser, RefreshCommit,
         ChangeRead, BanStart, List, Sweep, Fail, Logout, Unban, vars
<1> QED BY <1>1, <1>2, <1>3, <1>4, <1>5

LEMMA SweptsAlways == Spec => []Swepts
<1>1. Init => Swepts
  <2> SUFFICES ASSUME Init PROVE Swepts
    OBVIOUS
  <2>1. \A t \in Tokens : ~Live(t)
    BY DEF Init, Live, Exists
  <2> QED BY <2>1, RootedInit DEF Swepts, Covered, EndedUnlessSpared
<1>2. Swepts /\ [Next]_vars => Swepts'
  <2>1. Swepts => Rooted
    BY DEF Swepts
  <2> QED BY <2>1, RootedNext, CoveredNext, EndedNext DEF Swepts
<1> QED BY <1>1, <1>2, PTL DEF Spec

\* When an account is banned, or its password was changed, only sessions that
\* were opened or renewed behind the listing of a sweep are alive.
THEOREM EndedTheorem == Spec => []EndedUnlessSpared
<1>1. Swepts => EndedUnlessSpared
  BY DEF Swepts
<1> QED BY <1>1, SweptsAlways, PTL

(***************************************************************************)
(* Refinement of the session registry.                                     *)
(***************************************************************************)

\* A session of the table is live, ended or none.
HasLive(s) == \E t \in Tokens : Live(t) /\ token[t].root = s
Opened(s) == Exists(s) /\ token[s].root = s

LEMMA SessionIs ==
  ASSUME NEW s \in Tokens
  PROVE  /\ HasLive(s) => Session[s] = "live"
         /\ ~HasLive(s) /\ Opened(s) => Session[s] = "ended"
         /\ ~HasLive(s) /\ ~Opened(s) => Session[s] = "none"
BY DEF Session, HasLive, Opened

LEMMA SessionWas ==
  ASSUME NEW s \in Tokens
  PROVE  /\ HasLive(s)' => Session'[s] = "live"
         /\ ~HasLive(s)' /\ Opened(s)' => Session'[s] = "ended"
         /\ ~HasLive(s)' /\ ~Opened(s)' => Session'[s] = "none"
BY DEF Session, HasLive, Opened

LEMMA SessionKept ==
  ASSUME NEW s \in Tokens, HasLive(s)' <=> HasLive(s), Opened(s)' <=> Opened(s)
  PROVE  Session'[s] = Session[s]
BY SessionIs, SessionWas

LEMMA RegistryStep ==
  ASSUME Rooted, [Next]_vars
  PROVE  [Registry!RegistryNext]_Session
<1>0. TypeOK /\ Bounded /\ RootStored /\ OneTokenPerSession
  BY DEF Rooted
<1>1. ASSUME NEW s \in Tokens, NEW v, Session'[s] = v,
             \A r \in Tokens : r # s => Session'[r] = Session[r]
      PROVE  Session' = [Session EXCEPT ![s] = v]
  <2>1. Session = [r \in Tokens |-> Session[r]] /\ Session' = [r \in Tokens |-> Session'[r]]
    BY DEF Session
  <2> QED BY <1>1, <2>1
<1>2. ASSUME \A r \in Tokens : Session'[r] = Session[r]
      PROVE  Session' = Session
  BY <1>2 DEF Session
<1>3. ASSUME NEW t \in Tokens, Opens(t)
      PROVE  Registry!RegistryNext
  <2>1. \A u \in Tokens : u # t => /\ token'[u] = token[u]
                                   /\ (Live(u)' <=> Live(u)) /\ (Exists(u)' <=> Exists(u))
    BY <1>0, <1>3, OpensTable, SameLive
  <2>2. Live(t)' /\ token'[t].root = t /\ ~Exists(t) /\ ~Live(t)
    BY <1>0, <1>3, OpensTable DEF Live
  <2>3. ~HasLive(t) /\ ~Opened(t)
    BY <1>0, <2>2 DEF HasLive, Opened, RootStored, Live
  <2>4. HasLive(t)'
    BY <2>2 DEF HasLive
  <2>5. ASSUME NEW r \in Tokens, r # t
        PROVE  Session'[r] = Session[r]
    BY <2>1, <2>2, <2>5, SessionKept DEF HasLive, Opened
  <2>6. Session[t] = "none" /\ Session' = [Session EXCEPT ![t] = "live"]
    BY <1>1, <2>3, <2>4, <2>5, SessionIs, SessionWas
  <2> QED BY <2>6 DEF Registry!RegistryNext, Registry!Open
<1>4. ASSUME NEW t \in Tokens, NEW new \in Tokens, Rotates(t, new)
      PROVE  Session' = Session
  <2>1. \A u \in Tokens : u # t /\ u # new => /\ token'[u] = token[u]
                                              /\ (Live(u)' <=> Live(u))
                                              /\ (Exists(u)' <=> Exists(u))
    BY <1>0, <1>4, RotatesTable, SameLive
  <2>2. /\ t # new /\ Live(t) /\ Exists(t) /\ ~Exists(new) /\ ~Live(new)
        /\ Exists(t)' /\ ~Live(t)' /\ Exists(new)' /\ Live(new)'
        /\ token'[t].root = token[t].root /\ token'[new].root = token[t].root
    BY <1>0, <1>4, RotatesTable DEF Live
  <2>3. token[t].root # new
    BY <1>0, <2>2 DEF RootStored
  <2>4. ASSUME NEW r \in Tokens
        PROVE  Session'[r] = Session[r]
    <3>1. HasLive(r)' <=> HasLive(r)
      BY <2>1, <2>2 DEF HasLive
    <3>2. Opened(r)' <=> Opened(r)
      BY <2>1, <2>2, <2>3 DEF Opened
    <3> QED BY <3>1, <3>2, SessionKept
  <2> QED BY <1>2, <2>4
<1>5. ASSUME NEW t \in Tokens, Revokes(t)
      PROVE  Registry!RegistryNext
  <2>0. PICK s \in Tokens : s = token[t].root
    BY <1>0, <1>5, RevokesTable, RootType DEF Live
  <2>1. \A u \in Tokens : u # t => /\ token'[u] = token[u]
                                   /\ (Live(u)' <=> Live(u)) /\ (Exists(u)' <=> Exists(u))
    BY <1>0, <1>5, RevokesTable, SameLive
  <2>2. /\ Live(t) /\ Exists(t) /\ Exists(t)' /\ ~Live(t)' /\ token'[t].root = s
    BY <1>0, <1>5, <2>0, RevokesTable DEF Live
  <2>3. s \in Tokens /\ Opened(s)
    BY <1>0, <2>0, <2>2 DEF RootStored, Opened
  <2>4. \A r \in Tokens : Opened(r)' <=> Opened(r)
    BY <2>0, <2>1, <2>2 DEF Opened
  <2>5. HasLive(s)
    BY <2>0, <2>2 DEF HasLive
  <2>6. ~HasLive(s)'
    <3>1. ASSUME NEW u \in Tokens, Live(u)', token'[u].root = s
          PROVE  FALSE
      <4>1. u # t /\ Live(u) /\ token[u].root = s
        BY <2>1, <2>2, <3>1
      <4> QED BY <1>0, <2>0, <2>2, <4>1 DEF OneTokenPerSession
    <3> QED BY <3>1 DEF HasLive
  <2>7. ASSUME NEW r \in Tokens, r # s
        PROVE  Session'[r] = Session[r]
    <3>1. HasLive(r)' <=> HasLive(r)
      BY <2>0, <2>1, <2>2, <2>7 DEF HasLive
    <3> QED BY <2>4, <3>1, SessionKept
  <2>8. Session[s] = "live" /\ Session'[s] = "ended"
    BY <2>3, <2>4, <2>5, <2>6, SessionIs, SessionWas
  <2>9. Session' = [Session EXCEPT ![s] = "ended"]
    BY <1>1, <2>3, <2>7, <2>8
  <2> QED BY <2>3, <2>8, <2>9 DEF Registry!RegistryNext, Registry!End
<1>6. ASSUME UNCHANGED <<token, spared>>
      PROVE  Session' = Session
  BY <1>6 DEF Session, Live, Exists
<1>7. \/ \E t \in Tokens : Opens(t) \/ Revokes(t)
      \/ \E t, new \in Tokens : Rotates(t, new)
      \/ UNCHANGED <<token, spared>>
  BY <1>0, Effects
<1> QED BY <1>3, <1>4, <1>5, <1>6, <1>7

LEMMA RegistryStart ==
  ASSUME Init
  PROVE  Registry!RegistryInit
<1>1. \A t \in Tokens : ~Live(t) /\ ~Exists(t)
  BY DEF Init, Live, Exists
<1> QED BY <1>1 DEF Session, Registry!RegistryInit

\* The component implements the session registry: a refresh keeps the session
\* it belongs to, and a session that has ended never comes back.
THEOREM RegistryRefinement == Spec => ImplementsRegistry
<1>1. Init => Registry!RegistryInit
  BY RegistryStart
<1>2. Rooted /\ [Next]_vars => [Registry!RegistryNext]_Session
  BY RegistryStep
<1> QED BY <1>1, <1>2, RootedAlways, PTL DEF Spec, ImplementsRegistry, Registry!RegistrySpec
===============================================================================
