---------------------------- MODULE MateProfile ----------------------------
(***************************************************************************)
(* The profile of one mate (mate-profile.service.ts): create, update and   *)
(* deactivate, and the activation by an admin.                             *)
(*                                                                         *)
(* Each is one transaction under READ COMMITTED.  update validates the     *)
(* province and district that it was given together with those it read;    *)
(* by the time it writes the fields it was given, the others may have      *)
(* changed.  It replaces the links to activities by a DELETE of what that  *)
(* statement sees and by INSERTs.  The links to interests are written in   *)
(* the same way to a table of their own and are not repeated here.         *)
(***************************************************************************)
EXTENDS Integers, FiniteSets

CONSTANTS Workers,      \* requests that can be in flight at the same time
          Provinces,
          Districts,
          ProvinceOf,   \* the province of each district
          Activities

ASSUME ProvinceOfAssumption == ProvinceOf \in [Districts -> Provinces]

VARIABLES mate,         \* the Mate row, if there is one
          links,        \* the MateActivity rows of the mate
          job,          \* what every worker is doing
          raced         \* history: the location was written on an outdated read

profileVars == <<mate, links, raced>>

NoMate == [state |-> "none"]
Idle == [pc |-> "idle"]
Keep == "keep"     \* a field that a request does not give

CreateJob == [pc : {"create"}, province : Provinces, district : Districts,
              list : SUBSET Activities]
\* fields: the Mate row is written, and holds: it is written and not committed;
\* rows: the links that the DELETE found.  History: nobody has changed the
\* location since it was read (fresh), nor the links since they were (alone).
UpdateJob == [pc : {"row", "links", "delete", "commit"}, fields : BOOLEAN, relink : BOOLEAN,
              province : Provinces \cup {Keep}, district : Districts \cup {Keep},
              list : SUBSET Activities, rows : SUBSET Activities,
              holds : BOOLEAN, fresh : BOOLEAN, alone : BOOLEAN]
DeactivateJob == [pc : {"deactivate"}]
ProfileJobs == {Idle} \cup CreateJob \cup UpdateJob \cup DeactivateJob

At(w, pc) == job[w].pc = pc
Updating(j) == j.pc \in {"row", "links", "delete", "commit"}
Begin(w, j) == job' = [job EXCEPT ![w] = j]
Leave(w) == Begin(w, Idle)

Exists == mate # NoMate
Active == Exists /\ mate.active

\* The Mate row is not held by the transaction of somebody else.
RowFree(w) == \A v \in Workers \ {w} : Updating(job[v]) => ~job[v].holds
\* Links that others have deleted and not committed.
LockedFor(w) == UNION {job[v].rows : v \in {u \in Workers \ {w} : At(u, "commit")}}

\* validateLookups
ValidLocation(province, district) == ProvinceOf[district] = province

Given(field, old) == IF field = Keep THEN old ELSE field
Moved(j) == [mate EXCEPT !.province = Given(j.province, @), !.district = Given(j.district, @)]

\* What the others have read is outdated by a change of the location, and by rows
\* of links that are replaced, be it by equal ones.
Overtake(w, newMate, deleted) ==
  job' = [v \in Workers |->
            IF v = w THEN Idle
            ELSE IF ~Updating(job[v]) THEN job[v]
            ELSE [job[v] EXCEPT
                    !.rows = @ \ deleted,
                    !.fresh = @ /\ newMate.province = mate.province
                                /\ newMate.district = mate.district,
                    !.alone = @ /\ ~job[w].relink]]

\* Both fields given are valid together; otherwise it depends on the read.
Mark(j) == raced' = IF Keep \notin {j.province, j.district} \/ j.fresh THEN FALSE
                    ELSE IF {j.province, j.district} = {Keep} THEN raced
                    ELSE TRUE

ProfileInit ==
  /\ mate = NoMate
  /\ links = {}
  /\ job = [w \in Workers |-> Idle]
  /\ raced = FALSE

(***************************************************************************)
(* create                                                                  *)
(***************************************************************************)

CreateCheck(w, province, district, list) ==
  /\ job[w] = Idle
  /\ ~Exists
  /\ ValidLocation(province, district)
  /\ Begin(w, [pc |-> "create", province |-> province, district |-> district, list |-> list])
  /\ UNCHANGED profileVars

\* The unique key over userId refuses a second profile of the user.
CreateCommit(w) ==
  /\ At(w, "create")
  /\ Leave(w)
  /\ \/ /\ ~Exists
        /\ mate' = [province |-> job[w].province, district |-> job[w].district,
                    active |-> TRUE, dated |-> FALSE]
        /\ links' = job[w].list
     \/ /\ Exists
        /\ UNCHANGED <<mate, links>>
  /\ UNCHANGED raced

(***************************************************************************)
(* update                                                                  *)
(***************************************************************************)

\* Mutant of UpdateRead: only the fields that are given are validated.
UpdateReadPartly(w, fields, province, district, relink, list) ==
  /\ job[w] = Idle
  /\ Active
  /\ fields \/ relink
  /\ Keep \notin {province, district} => ValidLocation(province, district)
  /\ Begin(w, [pc |-> IF fields THEN "row" ELSE "links", fields |-> fields,
               relink |-> relink, province |-> province, district |-> district,
               list |-> list, rows |-> {}, holds |-> FALSE, fresh |-> TRUE, alone |-> TRUE])
  /\ UNCHANGED profileVars

UpdateRead(w, fields, province, district, relink, list) ==
  /\ job[w] = Idle
  /\ Active
  /\ fields \/ relink
  /\ ValidLocation(Given(province, mate.province), Given(district, mate.district))
  /\ Begin(w, [pc |-> IF fields THEN "row" ELSE "links", fields |-> fields,
               relink |-> relink, province |-> province, district |-> district,
               list |-> list, rows |-> {}, holds |-> FALSE, fresh |-> TRUE, alone |-> TRUE])
  /\ UNCHANGED profileVars

\* The row is written, or waited for.  If there are no links to replace, the
\* transaction commits.
UpdateRow(w) ==
  /\ At(w, "row")
  /\ RowFree(w)
  /\ \/ /\ job[w].relink
        /\ job' = [job EXCEPT ![w].pc = "links", ![w].holds = TRUE]
        /\ UNCHANGED profileVars
     \/ /\ ~job[w].relink
        /\ mate' = Moved(job[w])
        /\ Mark(job[w])
        /\ Overtake(w, mate', {})
        /\ UNCHANGED links

\* The snapshot of the DELETE.
UpdateLinks(w) ==
  /\ At(w, "links")
  /\ job' = [job EXCEPT ![w].pc = "delete", ![w].rows = links, ![w].alone = TRUE]
  /\ UNCHANGED profileVars

\* Links that somebody else has deleted are waited for, and gone if that commits.
UpdateDelete(w) ==
  /\ At(w, "delete")
  /\ job[w].rows \cap LockedFor(w) = {}
  /\ job' = [job EXCEPT ![w].pc = "commit"]
  /\ UNCHANGED profileVars

\* Mutant of UpdateCommit: the links that were found are not deleted.
UpdateCommitKeeps(w) ==
  /\ At(w, "commit")
  /\ job[w].list \cap LockedFor(w) = {}
  /\ LET j == job[w] IN
       \/ /\ links' = links \cup j.list
          /\ IF j.fields THEN mate' = Moved(j) /\ Mark(j) ELSE UNCHANGED <<mate, raced>>
          /\ Overtake(w, mate', j.rows)

\* The INSERTs and the commit.  A link that was not deleted is a duplicate of the
\* primary key, which rolls everything back.
UpdateCommit(w) ==
  /\ At(w, "commit")
  /\ job[w].list \cap LockedFor(w) = {}
  /\ LET j == job[w] IN
       \/ /\ j.list \cap (links \ j.rows) = {}
          /\ links' = (links \ j.rows) \cup j.list
          /\ IF j.fields THEN mate' = Moved(j) /\ Mark(j) ELSE UNCHANGED <<mate, raced>>
          /\ Overtake(w, mate', j.rows)
       \/ /\ j.list \cap (links \ j.rows) # {}
          /\ Leave(w)
          /\ UNCHANGED profileVars

(***************************************************************************)
(* deactivate, and activateUser of the admin                               *)
(***************************************************************************)

DeactivateRead(w) ==
  /\ job[w] = Idle
  /\ Active
  /\ Begin(w, [pc |-> "deactivate"])
  /\ UNCHANGED profileVars

DeactivateWrite(w) ==
  /\ At(w, "deactivate")
  /\ RowFree(w)
  /\ mate' = [mate EXCEPT !.active = FALSE, !.dated = TRUE]
  /\ Leave(w)
  /\ UNCHANGED <<links, raced>>

\* The date of the deactivation is left as it is.
Activate ==
  /\ Exists
  /\ \A w \in Workers : RowFree(w)
  /\ mate' = [mate EXCEPT !.active = TRUE]
  /\ UNCHANGED <<links, job, raced>>

\* An exception, or the victim of a deadlock: the transaction is rolled back.
ProfileFail(w) ==
  /\ At(w, "create") \/ Updating(job[w]) \/ At(w, "deactivate")
  /\ Leave(w)
  /\ UNCHANGED profileVars

ProfileCall(w) ==
  \/ \E p \in Provinces, d \in Districts, list \in SUBSET Activities : CreateCheck(w, p, d, list)
  \/ \E p \in Provinces \cup {Keep}, d \in Districts \cup {Keep} :
       \E list \in SUBSET Activities :
         \/ UpdateRead(w, TRUE, p, d, TRUE, list)
         \/ list = {} /\ UpdateRead(w, TRUE, p, d, FALSE, list)
         \/ p = Keep /\ d = Keep /\ UpdateRead(w, FALSE, p, d, TRUE, list)
  \/ DeactivateRead(w)

ProfileStep(w) ==
  \/ CreateCommit(w) \/ UpdateRow(w) \/ UpdateLinks(w) \/ UpdateDelete(w) \/ UpdateCommit(w)
  \/ DeactivateWrite(w) \/ ProfileFail(w)

ProfileNext == (\E w \in Workers : ProfileCall(w) \/ ProfileStep(w)) \/ Activate

(***************************************************************************)
(* Properties                                                              *)
(***************************************************************************)

\* The district of a profile lies in its province unless two updates crossed, one
\* of which had validated its half against what the other replaced (MATE-06, MATE-08).
LocationNeedsRace == Exists /\ ~raced => ValidLocation(mate.province, mate.district)

\* An update whose DELETE nobody overtook leaves its activities and no others
\* (MATE-07); one that fails leaves those that were there.
LinksAreWhole ==
  [][\A w \in Workers : At(w, "commit") /\ job[w].alone /\ job'[w] = Idle /\ links' # links
       => links' = job[w].list]_<<mate, links, job, raced>>
===============================================================================
