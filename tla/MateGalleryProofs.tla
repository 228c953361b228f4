--------------------------- MODULE MateGalleryProofs ---------------------------
(***************************************************************************)
(* The profile and the gallery of a mate, for any number of requests,      *)
(* photos and activities, and any size of the gallery.                     *)
(***************************************************************************)
EXTENDS MateGallery, FiniteSetTheorems, WellFoundedInduction, TLAPS

(***************************************************************************)
(* The profile                                                             *)
(***************************************************************************)

ProfileRow == [province : Provinces, district : Districts, active : BOOLEAN, dated : BOOLEAN]

ProfileTypes ==
  /\ mate \in {NoMate} \cup ProfileRow
  /\ links \subseteq Activities
  /\ raced \in BOOLEAN
  /\ Exists => mate.active \/ mate.dated

JobTypes == job \in [Workers -> ProfileJobs \cup GalleryJobs]

\* What an update will write is valid, as long as nobody has moved the mate since it
\* was read, or if it gives both fields; and what it deletes is all there is, as long
\* as nobody has replaced the links since.
GoodUpdate(j) ==
  /\ Exists
  /\ j.fresh => ValidLocation(Given(j.province, mate.province), Given(j.district, mate.district))
  /\ Keep \notin {j.province, j.district} => ValidLocation(j.province, j.district)
  /\ j.pc # "row" => j.relink
  /\ j.pc \in {"delete", "commit"} /\ j.alone => j.rows = links

GoodJob(j) ==
  /\ j.pc = "create" => ValidLocation(j.province, j.district)
  /\ j.pc = "deactivate" => Exists
  /\ Updating(j) => GoodUpdate(j)

\* The inductive invariant of the profile.
ProfileInv == ProfileTypes /\ JobTypes /\ LocationNeedsRace /\ \A w \in Workers : GoodJob(job[w])

ProfilePcs == {"create", "row", "links", "delete", "commit"}

LEMMA Pcs ==
  ASSUME JobTypes, NEW w \in Workers
  PROVE  /\ Idle.pc = "idle"
         /\ At(w, "create") => job[w] \in CreateJob
         /\ Updating(job[w]) => job[w] \in UpdateJob
BY DEF JobTypes, At, Idle, ProfileJobs, GalleryJobs, CreateJob, UpdateJob, DeactivateJob, ListJob,
   StoreJob, InsertUrlJob, InsertJob, OnPhotoJob, Updating

LEMMA MateRow == ASSUME ProfileTypes, Exists PROVE mate \in ProfileRow
BY DEF ProfileTypes, Exists

LEMMA NoRow == NoMate \notin ProfileRow
BY DEF NoMate, ProfileRow

\* The row as the requests write it.
LEMMA MovedRow ==
  ASSUME NEW m \in ProfileRow, NEW p \in Provinces, NEW d \in Districts
  PROVE  [m EXCEPT !.province = p, !.district = d] =
           [province |-> p, district |-> d, active |-> m.active, dated |-> m.dated]
<1> DEFINE c == [m EXCEPT !.province = p, !.district = d]
<1>1. c \in ProfileRow /\ c.province = p /\ c.district = d /\ c.active = m.active /\ c.dated = m.dated
  BY DEF ProfileRow
<1> HIDE DEF c
<1>2. c = [province |-> p, district |-> d, active |-> m.active, dated |-> m.dated]
  BY <1>1 DEF ProfileRow
<1>3. QED
  BY <1>2 DEF c

LEMMA SwitchedRow ==
  ASSUME NEW m \in ProfileRow
  PROVE  /\ [m EXCEPT !.active = FALSE, !.dated = TRUE] =
              [province |-> m.province, district |-> m.district, active |-> FALSE, dated |-> TRUE]
         /\ [m EXCEPT !.active = TRUE] =
              [province |-> m.province, district |-> m.district, active |-> TRUE, dated |-> m.dated]
<1> DEFINE c == [m EXCEPT !.active = FALSE, !.dated = TRUE]
           e == [m EXCEPT !.active = TRUE]
<1>1. c \in ProfileRow /\ c.province = m.province /\ c.district = m.district /\ ~c.active /\ c.dated
  BY DEF ProfileRow
<1>2. e \in ProfileRow /\ e.province = m.province /\ e.district = m.district /\ e.active
      /\ e.dated = m.dated
  BY DEF ProfileRow
<1> HIDE DEF c, e
<1>3. c = [province |-> m.province, district |-> m.district, active |-> FALSE, dated |-> TRUE]
  BY <1>1 DEF ProfileRow
<1>4. e = [province |-> m.province, district |-> m.district, active |-> TRUE, dated |-> m.dated]
  BY <1>2 DEF ProfileRow
<1>5. QED
  BY <1>3, <1>4 DEF c, e

\* A request that begins, goes on or ends, and writes nothing of the profile.
LEMMA ProfileCalm ==
  ASSUME ProfileInv, UNCHANGED <<mate, links>>, raced' = raced, NEW w \in Workers,
         NEW j \in ProfileJobs \cup GalleryJobs, job' = [job EXCEPT ![w] = j], GoodJob(j)
  PROVE  ProfileInv'
<1>1. JobTypes'
  BY DEF ProfileInv, JobTypes
<1>2. ProfileTypes' /\ LocationNeedsRace'
  BY DEF ProfileInv, ProfileTypes, LocationNeedsRace, Exists
<1>3. ASSUME NEW v \in Workers
      PROVE  GoodJob(job'[v])
  BY <1>3 DEF ProfileInv, JobTypes
<1>4. \A v \in Workers : GoodJob(job[v])'
  BY <1>3 DEF GoodJob, GoodUpdate, Exists
<1>5. QED
  BY <1>1, <1>2, <1>4 DEF ProfileInv

\* The row is switched on or off; a request may end with it.
LEMMA SwitchKeeps ==
  ASSUME ProfileInv, Exists, NEW active \in BOOLEAN, NEW dated \in BOOLEAN, active \/ dated,
         mate' = [province |-> mate.province, district |-> mate.district,
                  active |-> active, dated |-> dated],
         UNCHANGED <<links, raced>>, JobTypes', \A w \in Workers : job'[w] = job[w] \/ job'[w] = Idle
  PROVE  ProfileInv'
<1>1. mate' \in ProfileRow /\ Exists' /\ mate'.province = mate.province
      /\ mate'.district = mate.district /\ (mate'.active \/ mate'.dated)
  BY MateRow, NoRow DEF ProfileInv, ProfileRow, Exists
<1>2. ProfileTypes' /\ LocationNeedsRace'
  BY <1>1 DEF ProfileInv, ProfileTypes, LocationNeedsRace
<1>3. ASSUME NEW w \in Workers
      PROVE  GoodJob(job[w])'
  <2>1. CASE job'[w] = Idle
    BY <2>1, Pcs DEF ProfileInv, GoodJob, Updating, Idle
  <2>2. CASE job'[w] = job[w]
    BY <2>2, <1>1 DEF ProfileInv, GoodJob, GoodUpdate
  <2>3. QED
    BY <2>1, <2>2
<1>4. QED
  BY <1>2, <1>3 DEF ProfileInv

LEMMA IdleIsGood == Idle \in ProfileJobs /\ GoodJob(Idle)
BY DEF ProfileJobs, GoodJob, Idle, Updating

LEMMA LeaveKeeps ==
  ASSUME ProfileInv, NEW w \in Workers, Leave(w), UNCHANGED profileVars
  PROVE  ProfileInv'
BY IdleIsGood, ProfileCalm DEF Leave, Begin, profileVars

LEMMA CreateKeeps ==
  ASSUME ProfileInv, NEW w \in Workers,
         CreateCommit(w) \/ \E p \in Provinces, d \in Districts, list \in SUBSET Activities :
                              CreateCheck(w, p, d, list)
  PROVE  ProfileInv'
<1>1. ASSUME NEW p \in Provinces, NEW d \in Districts, NEW list \in SUBSET Activities,
             CreateCheck(w, p, d, list)
      PROVE  ProfileInv'
  <2> DEFINE j == [pc |-> "create", province |-> p, district |-> d, list |-> list]
  <2>1. j \in ProfileJobs /\ GoodJob(j)
    BY <1>1 DEF CreateCheck, ProfileJobs, CreateJob, GoodJob, Updating
  <2>2. job' = [job EXCEPT ![w] = j] /\ UNCHANGED <<mate, links>> /\ raced' = raced
    BY <1>1 DEF CreateCheck, Begin, profileVars
  <2> HIDE DEF j
  <2>3. QED
    BY <2>1, <2>2, ProfileCalm
<1>2. ASSUME CreateCommit(w)
      PROVE  ProfileInv'
  <2>1. CASE Exists
    BY <1>2, <2>1, LeaveKeeps DEF CreateCommit, profileVars
  <2>2. CASE ~Exists
    <3>1. job[w] \in CreateJob /\ ValidLocation(job[w].province, job[w].district)
      BY <1>2, Pcs DEF CreateCommit, ProfileInv, GoodJob, At
    <3>2. /\ mate' = [province |-> job[w].province, district |-> job[w].district,
                      active |-> TRUE, dated |-> FALSE]
          /\ links' = job[w].list /\ job' = [job EXCEPT ![w] = Idle] /\ raced' = raced
      BY <1>2, <2>2 DEF CreateCommit, Leave, Begin
    <3>3. mate' \in ProfileRow /\ mate'.active /\ mate'.province = job[w].province
          /\ mate'.district = job[w].district /\ links' \subseteq Activities
      BY <3>1, <3>2 DEF ProfileRow, CreateJob
    <3>4. ProfileTypes' /\ LocationNeedsRace'
      BY <3>1, <3>2, <3>3 DEF ProfileInv, ProfileTypes, LocationNeedsRace
    <3>5. JobTypes'
      BY <3>2, IdleIsGood DEF ProfileInv, JobTypes
    <3>6. ASSUME NEW v \in Workers
          PROVE  GoodJob(job[v])'
      <4>1. job'[v] = job[v] \/ job'[v] = Idle
        BY <3>2 DEF ProfileInv, JobTypes
      <4>2. ~Updating(job[v])
        BY <2>2 DEF ProfileInv, GoodJob, GoodUpdate
      <4>3. job[v].pc # "deactivate" /\ (job[v].pc = "create" =>
                                          ValidLocation(job[v].province, job[v].district))
        BY <2>2 DEF ProfileInv, GoodJob
      <4>4. QED
        BY <4>1, <4>2, <4>3 DEF GoodJob, Idle, Updating
    <3>7. QED
      BY <3>4, <3>5, <3>6 DEF ProfileInv
  <2>3. QED
    BY <2>1, <2>2
<1>3. QED
  BY <1>1, <1>2

LEMMA UpdateJobs ==
  ASSUME NEW j \in UpdateJob
  PROVE  /\ j.province \in Provinces \cup {Keep} /\ j.district \in Districts \cup {Keep}
         /\ j.list \subseteq Activities /\ j.rows \subseteq Activities
         /\ j.fresh \in BOOLEAN /\ j.alone \in BOOLEAN /\ j.relink \in BOOLEAN
         /\ Updating(j) /\ j.pc \in {"row", "links", "delete", "commit"}
BY DEF UpdateJob, Updating

\* The fields of an update are valid with what they meet, unless it is marked.
LEMMA MovedIsValid ==
  ASSUME ProfileInv, NEW w \in Workers, Updating(job[w]), mate' = Moved(job[w]), Mark(job[w])
  PROVE  /\ mate' \in ProfileRow /\ Exists' /\ raced' \in BOOLEAN
         /\ mate'.active \/ mate'.dated
         /\ LocationNeedsRace'
<1> DEFINE j == job[w]
<1>1. j \in UpdateJob /\ GoodUpdate(j) /\ mate \in ProfileRow /\ (mate.active \/ mate.dated)
  BY Pcs, MateRow DEF ProfileInv, GoodJob, GoodUpdate, ProfileTypes
<1>2. PICK p \in Provinces : p = Given(j.province, mate.province)
  BY <1>1 DEF UpdateJob, ProfileRow, Given
<1>3. PICK d \in Districts : d = Given(j.district, mate.district)
  BY <1>1 DEF UpdateJob, ProfileRow, Given
<1>4. mate' = [mate EXCEPT !.province = p, !.district = d]
  BY <1>2, <1>3 DEF Moved
<1>5. mate' = [province |-> p, district |-> d, active |-> mate.active, dated |-> mate.dated]
  BY <1>1, <1>4, MovedRow
<1>6. /\ mate' \in ProfileRow /\ mate'.province = p /\ mate'.district = d
      /\ mate'.active = mate.active /\ mate'.dated = mate.dated
  BY <1>1, <1>5 DEF ProfileRow
<1>7. raced' \in BOOLEAN
  BY DEF Mark, ProfileInv, ProfileTypes
<1>8. ASSUME ~raced'
      PROVE  ValidLocation(p, d)
  <2>1. CASE Keep \notin {j.province, j.district}
    BY <2>1, <1>1, <1>2, <1>3 DEF GoodUpdate, Given
  <2>2. CASE j.fresh
    BY <2>2, <1>1, <1>2, <1>3 DEF GoodUpdate
  <2>3. CASE Keep \in {j.province, j.district} /\ ~j.fresh
    <3>1. {j.province, j.district} = {Keep} /\ ~raced
      BY <2>3, <1>8 DEF Mark
    <3>2. p = mate.province /\ d = mate.district
      BY <3>1, <1>2, <1>3 DEF Given
    <3>3. QED
      BY <3>1, <3>2, <1>1 DEF ProfileInv, LocationNeedsRace, GoodUpdate
  <2>4. QED
    BY <2>1, <2>2, <2>3
<1>9. QED
  BY <1>1, <1>6, <1>7, <1>8, NoRow DEF Exists, LocationNeedsRace

\* An update commits: the others are overtaken.
LEMMA OvertakeKeeps ==
  ASSUME ProfileInv, NEW w \in Workers, Updating(job[w]), NEW deleted,
         Overtake(w, mate', deleted),
         mate' \in ProfileRow, mate'.active \/ mate'.dated, raced' \in BOOLEAN,
         LocationNeedsRace', links' \subseteq Activities,
         ~job[w].relink => links' = links /\ deleted = {}
  PROVE  ProfileInv'
<1> DEFINE same == mate'.province = mate.province /\ mate'.district = mate.district
<1>1. /\ job'[w] = Idle
      /\ \A v \in Workers : v # w /\ ~Updating(job[v]) => job'[v] = job[v]
      /\ \A v \in Workers : v # w /\ Updating(job[v]) =>
           job'[v] = [job[v] EXCEPT !.rows = @ \ deleted, !.fresh = @ /\ same,
                                    !.alone = @ /\ ~job[w].relink]
  BY DEF Overtake
<1>2. same \in BOOLEAN /\ job[w].relink \in BOOLEAN
  BY Pcs, UpdateJobs DEF ProfileInv
<1>3. ASSUME NEW v \in Workers, v # w, Updating(job[v])
      PROVE  /\ job[v] \in UpdateJob /\ job'[v] \in UpdateJob
             /\ job'[v].pc = job[v].pc /\ job'[v].relink = job[v].relink
             /\ job'[v].province = job[v].province /\ job'[v].district = job[v].district
             /\ job'[v].rows = job[v].rows \ deleted
             /\ job'[v].fresh => job[v].fresh /\ same
             /\ job'[v].alone => job[v].alone /\ ~job[w].relink
  <2>1. job[v] \in UpdateJob
    BY <1>3, Pcs DEF ProfileInv
  <2>2. job'[v] = [job[v] EXCEPT !.rows = @ \ deleted, !.fresh = @ /\ same,
                                 !.alone = @ /\ ~job[w].relink]
    BY <1>1, <1>3
  <2> DEFINE j == job[v]
             c == job'[v]
             relinked == job[w].relink
  <2>3. c = [j EXCEPT !.rows = @ \ deleted, !.fresh = @ /\ same, !.alone = @ /\ ~relinked]
        /\ j \in UpdateJob /\ same \in BOOLEAN /\ relinked \in BOOLEAN
    BY <2>1, <2>2, <1>2
  <2> HIDE DEF same, j, c, relinked
  <2>4. (j.fresh /\ same) \in BOOLEAN /\ (j.alone /\ ~relinked) \in BOOLEAN
        /\ j.rows \ deleted \in SUBSET Activities
    BY <2>3 DEF UpdateJob
  <2>5. c \in UpdateJob
    BY <2>3, <2>4 DEF UpdateJob
  <2>6. c.pc = j.pc /\ c.relink = j.relink /\ c.province = j.province /\ c.district = j.district
    BY <2>3 DEF UpdateJob
  <2>7. c.rows = j.rows \ deleted /\ c.fresh = (j.fresh /\ same) /\ c.alone = (j.alone /\ ~relinked)
    BY <2>3 DEF UpdateJob
  <2>8. QED
    BY <2>3, <2>5, <2>6, <2>7 DEF j, c, relinked
<1>4. JobTypes'
  <2>1. \A v \in Workers : job'[v] \in ProfileJobs \cup GalleryJobs
    <3>1. ASSUME NEW v \in Workers
          PROVE  job'[v] \in ProfileJobs \cup GalleryJobs
      <4>1. CASE v = w
        BY <4>1, <1>1, IdleIsGood
      <4>2. CASE v # w /\ ~Updating(job[v])
        BY <4>2, <1>1 DEF ProfileInv, JobTypes
      <4>3. CASE v # w /\ Updating(job[v])
        BY <4>3, <1>3 DEF ProfileJobs
      <4>4. QED
        BY <4>1, <4>2, <4>3
    <3>2. QED
      BY <3>1
  <2>2. QED
    BY <2>1 DEF Overtake, JobTypes
<1>5. ASSUME NEW v \in Workers
      PROVE  GoodJob(job[v])'
  <2>e. Exists'
    BY NoRow DEF Exists
  <2>1. CASE v = w
    <3>1. job'[v] = Idle
      BY <2>1, <1>1
    <3>2. QED
      BY <3>1 DEF GoodJob, Idle, Updating
  <2>2. CASE v # w /\ ~Updating(job[v])
    <3>1. job'[v] = job[v] /\ GoodJob(job[v])
      BY <2>2, <1>1 DEF ProfileInv
    <3>2. QED
      BY <2>e, <2>2, <3>1 DEF GoodJob
  <2>3. CASE v # w /\ Updating(job[v])
    <3>1. GoodUpdate(job[v]) /\ Updating(job'[v]) /\ job'[v].pc # "create"
      BY <2>3, <1>3, UpdateJobs DEF ProfileInv, GoodJob
    <3>2. job'[v].fresh => ValidLocation(Given(job'[v].province, mate'.province),
                                         Given(job'[v].district, mate'.district))
      BY <2>3, <3>1, <1>3 DEF GoodUpdate
    <3>3. Keep \notin {job'[v].province, job'[v].district} =>
            ValidLocation(job'[v].province, job'[v].district)
      BY <2>3, <3>1, <1>3 DEF GoodUpdate
    <3>4. job'[v].pc # "row" => job'[v].relink
      BY <2>3, <3>1, <1>3 DEF GoodUpdate
    <3>5. job'[v].pc \in {"delete", "commit"} /\ job'[v].alone => job'[v].rows = links'
      BY <2>3, <3>1, <1>3 DEF GoodUpdate
    <3>6. GoodUpdate(job[v])'
      BY <2>e, <3>2, <3>3, <3>4, <3>5 DEF GoodUpdate
    <3>7. QED
      BY <2>e, <3>1, <3>6 DEF GoodJob
  <2>4. QED
    BY <2>1, <2>2, <2>3
<1>6. ProfileTypes'
  BY DEF ProfileTypes
<1>7. QED
  BY <1>4, <1>5, <1>6 DEF ProfileInv

LEMMA UpdateReadKeeps ==
  ASSUME ProfileInv, NEW w \in Workers, NEW fields \in BOOLEAN, NEW relink \in BOOLEAN,
         NEW p \in Provinces \cup {Keep}, NEW d \in Districts \cup {Keep},
         NEW list \in SUBSET Activities, UpdateRead(w, fields, p, d, relink, list)
  PROVE  ProfileInv'
<1> DEFINE j == [pc |-> IF fields THEN "row" ELSE "links", fields |-> fields,
                 relink |-> relink, province |-> p, district |-> d,
                 list |-> list, rows |-> {}, holds |-> FALSE, fresh |-> TRUE, alone |-> TRUE]
<1>1. j \in UpdateJob
  BY DEF UpdateJob
<1>2. /\ j.pc \in {"row", "links"} /\ (j.pc # "row" => j.relink) /\ j.province = p
      /\ j.district = d
  BY DEF UpdateRead
<1>3. Exists /\ ValidLocation(Given(p, mate.province), Given(d, mate.district))
      /\ job' = [job EXCEPT ![w] = j] /\ UNCHANGED <<mate, links>> /\ raced' = raced
  BY DEF UpdateRead, Active, Begin, profileVars
<1> HIDE DEF j
<1>4. GoodJob(j)
  BY <1>1, <1>2, <1>3 DEF GoodJob, GoodUpdate, Given
<1>5. j \in ProfileJobs \cup GalleryJobs
  BY <1>1 DEF ProfileJobs
<1>6. QED
  BY <1>3, <1>4, <1>5, ProfileCalm

LEMMA UpdateRowKeeps ==
  ASSUME ProfileInv, NEW w \in Workers, UpdateRow(w)
  PROVE  ProfileInv'
<1>1. job[w] \in UpdateJob /\ job[w].pc = "row" /\ GoodUpdate(job[w]) /\ Updating(job[w])
  BY Pcs DEF UpdateRow, At, Updating, ProfileInv, GoodJob
<1>2. CASE job[w].relink
  <2>1. PICK j \in UpdateJob : /\ job' = [job EXCEPT ![w] = j] /\ j.pc = "links"
                               /\ j.relink = job[w].relink /\ j.fresh = job[w].fresh
                               /\ j.province = job[w].province /\ j.district = job[w].district
    <3> DEFINE j == [job[w] EXCEPT !.pc = "links", !.holds = TRUE]
    <3>1. j \in UpdateJob /\ j.pc = "links" /\ j.relink = job[w].relink
          /\ j.fresh = job[w].fresh /\ j.province = job[w].province
          /\ j.district = job[w].district
      BY <1>1 DEF UpdateJob
    <3>2. job' = [job EXCEPT ![w] = j]
      BY <1>1, <1>2 DEF UpdateRow, ProfileInv, JobTypes
    <3> HIDE DEF j
    <3>3. QED
      BY <3>1, <3>2
  <2>2. GoodJob(j) /\ j \in ProfileJobs \cup GalleryJobs
    BY <1>1, <1>2, <2>1 DEF GoodJob, GoodUpdate, ProfileJobs
  <2>3. UNCHANGED <<mate, links>> /\ raced' = raced
    BY <1>2 DEF UpdateRow, profileVars
  <2>4. QED
    BY <2>1, <2>2, <2>3, ProfileCalm
<1>3. CASE ~job[w].relink
  <2>1. mate' = Moved(job[w]) /\ Mark(job[w]) /\ Overtake(w, mate', {}) /\ links' = links
    BY <1>3 DEF UpdateRow
  <2>2. links' \subseteq Activities
    BY <2>1 DEF ProfileInv, ProfileTypes
  <2>3. mate' \in ProfileRow /\ raced' \in BOOLEAN /\ (mate'.active \/ mate'.dated)
        /\ LocationNeedsRace'
    BY <1>1, <2>1, MovedIsValid
  <2>4. QED
    BY <1>1, <1>3, <2>1, <2>2, <2>3, OvertakeKeeps
<1>4. QED
  BY <1>2, <1>3

LEMMA UpdateLinksKeeps ==
  ASSUME ProfileInv, NEW w \in Workers, UpdateLinks(w) \/ UpdateDelete(w)
  PROVE  ProfileInv'
<1>1. job[w] \in UpdateJob /\ job[w].pc \in {"links", "delete"} /\ GoodUpdate(job[w])
  BY Pcs DEF UpdateLinks, UpdateDelete, At, Updating, ProfileInv, GoodJob
<1>2. UNCHANGED <<mate, links>> /\ raced' = raced /\ links \subseteq Activities
  BY DEF UpdateLinks, UpdateDelete, profileVars, ProfileInv, ProfileTypes
<1>3. PICK j \in UpdateJob :
        /\ job' = [job EXCEPT ![w] = j] /\ j.pc \in {"delete", "commit"}
        /\ j.relink = job[w].relink /\ j.fresh = job[w].fresh
        /\ j.province = job[w].province /\ j.district = job[w].district
        /\ j.alone => j.rows = links
  <2>1. CASE UpdateLinks(w)
    <3> DEFINE j == [job[w] EXCEPT !.pc = "delete", !.rows = links, !.alone = TRUE]
    <3>1. j \in UpdateJob /\ j.pc = "delete" /\ j.relink = job[w].relink
          /\ j.fresh = job[w].fresh /\ j.province = job[w].province
          /\ j.district = job[w].district /\ j.rows = links
      BY <1>1, <1>2 DEF UpdateJob
    <3>2. job' = [job EXCEPT ![w] = j]
      BY <2>1 DEF UpdateLinks, ProfileInv, JobTypes
    <3> HIDE DEF j
    <3>3. QED
      BY <3>1, <3>2
  <2>2. CASE UpdateDelete(w)
    <3> DEFINE j == [job[w] EXCEPT !.pc = "commit"]
    <3>1. j \in UpdateJob /\ j.pc = "commit" /\ j.relink = job[w].relink
          /\ j.fresh = job[w].fresh /\ j.province = job[w].province
          /\ j.district = job[w].district /\ j.rows = job[w].rows /\ j.alone = job[w].alone
      BY <1>1 DEF UpdateJob
    <3>2. job' = [job EXCEPT ![w] = j] /\ job[w].pc = "delete"
      BY <2>2 DEF UpdateDelete, At, ProfileInv, JobTypes
    <3> HIDE DEF j
    <3>3. QED
      BY <3>1, <3>2, <1>1 DEF GoodUpdate
  <2>3. QED
    BY <2>1, <2>2
<1>4. GoodJob(j) /\ j \in ProfileJobs \cup GalleryJobs
  BY <1>1, <1>3 DEF GoodJob, GoodUpdate, ProfileJobs
<1>5. QED
  BY <1>2, <1>3, <1>4, ProfileCalm

LEMMA CommitKeeps ==
  ASSUME ProfileInv, NEW w \in Workers, UpdateCommit(w)
  PROVE  ProfileInv'
<1>1. job[w] \in UpdateJob /\ job[w].pc = "commit" /\ GoodUpdate(job[w]) /\ Updating(job[w])
      /\ job[w].relink
  BY Pcs DEF UpdateCommit, At, Updating, ProfileInv, GoodJob, GoodUpdate
<1>2. CASE job[w].list \cap (links \ job[w].rows) # {}
  BY <1>2, LeaveKeeps DEF UpdateCommit
<1>3. CASE job[w].list \cap (links \ job[w].rows) = {}
  <2>1. /\ links' = (links \ job[w].rows) \cup job[w].list
        /\ IF job[w].fields THEN mate' = Moved(job[w]) /\ Mark(job[w]) ELSE UNCHANGED <<mate, raced>>
        /\ Overtake(w, mate', job[w].rows)
    BY <1>3 DEF UpdateCommit
  <2>2. links' \subseteq Activities
    BY <1>1, <2>1 DEF ProfileInv, ProfileTypes, UpdateJob
  <2>3. mate' \in ProfileRow /\ raced' \in BOOLEAN /\ (mate'.active \/ mate'.dated)
        /\ LocationNeedsRace'
    <3>1. CASE job[w].fields
      BY <1>1, <2>1, <3>1, MovedIsValid
    <3>2. CASE ~job[w].fields
      BY <1>1, <2>1, <3>2, MateRow DEF ProfileInv, ProfileTypes, LocationNeedsRace, Exists, GoodUpdate
    <3>3. QED
      BY <3>1, <3>2
  <2>4. QED
    BY <1>1, <2>1, <2>2, <2>3, OvertakeKeeps
<1>4. QED
  BY <1>2, <1>3

LEMMA SwitchesKeep ==
  ASSUME ProfileInv
  PROVE  /\ \A w \in Workers : DeactivateRead(w) \/ DeactivateWrite(w) => ProfileInv'
         /\ Activate => ProfileInv'
<1>1. ASSUME NEW w \in Workers, DeactivateRead(w)
      PROVE  ProfileInv'
  <2>1. [pc |-> "deactivate"] \in ProfileJobs /\ GoodJob([pc |-> "deactivate"])
    BY <1>1 DEF DeactivateRead, Active, ProfileJobs, DeactivateJob, GoodJob, Updating
  <2>2. QED
    BY <1>1, <2>1, ProfileCalm DEF DeactivateRead, Begin, profileVars
<1>2. ASSUME NEW w \in Workers, DeactivateWrite(w)
      PROVE  ProfileInv'
  <2>1. /\ mate' = [mate EXCEPT !.active = FALSE, !.dated = TRUE]
        /\ job' = [job EXCEPT ![w] = Idle] /\ UNCHANGED <<links, raced>>
    BY <1>2 DEF DeactivateWrite, Leave, Begin
  <2>2. Exists
    BY <1>2 DEF ProfileInv, GoodJob, DeactivateWrite, At
  <2>3. mate' = [province |-> mate.province, district |-> mate.district,
                 active |-> FALSE, dated |-> TRUE]
    BY <2>1, <2>2, MateRow, SwitchedRow DEF ProfileInv
  <2>4. JobTypes' /\ \A v \in Workers : job'[v] = job[v] \/ job'[v] = Idle
    BY <2>1, IdleIsGood DEF ProfileInv, JobTypes
  <2>5. QED
    BY <2>1, <2>2, <2>3, <2>4, SwitchKeeps
<1>3. ASSUME Activate
      PROVE  ProfileInv'
  <2>1. Exists /\ mate' = [mate EXCEPT !.active = TRUE] /\ UNCHANGED <<links, raced>> /\ job' = job
    BY <1>3 DEF Activate
  <2>2. mate' = [province |-> mate.province, district |-> mate.district,
                 active |-> TRUE, dated |-> mate.dated] /\ mate.dated \in BOOLEAN
    BY <2>1, MateRow, SwitchedRow DEF ProfileInv, ProfileRow
  <2>3. JobTypes'
    BY <2>1 DEF ProfileInv, JobTypes
  <2>4. QED
    BY <2>1, <2>2, <2>3, SwitchKeeps
<1>4. QED
  BY <1>1, <1>2, <1>3

\* Only the update that commits, or a create, writes the links.
LEMMA ProfileNextKeeps ==
  ASSUME ProfileInv, ProfileNext
  PROVE  /\ ProfileInv'
         /\ \A w \in Workers : At(w, "commit") /\ job[w].alone /\ job'[w] = Idle /\ links' # links
              => links' = job[w].list
<1> DEFINE Whole == \A w \in Workers : At(w, "commit") /\ job[w].alone /\ job'[w] = Idle
                                       /\ links' # links => links' = job[w].list
<1>1. ASSUME NEW w \in Workers, ProfileCall(w)
      PROVE  ProfileInv' /\ Whole
  <2>1. links' = links
    BY <1>1 DEF ProfileCall, CreateCheck, UpdateRead, DeactivateRead, profileVars
  <2>2. ASSUME NEW p \in Provinces \cup {Keep}, NEW d \in Districts \cup {Keep},
               NEW list \in SUBSET Activities,
               \/ UpdateRead(w, TRUE, p, d, TRUE, list)
               \/ UpdateRead(w, TRUE, p, d, FALSE, list)
               \/ UpdateRead(w, FALSE, p, d, TRUE, list)
        PROVE  ProfileInv'
    BY <2>2, UpdateReadKeeps
  <2>3. ProfileInv'
    BY <1>1, <2>2, CreateKeeps, SwitchesKeep DEF ProfileCall
  <2>4. QED
    BY <2>1, <2>3
<1>2. ASSUME NEW w \in Workers, CreateCommit(w)
      PROVE  ProfileInv' /\ Whole
  <2>1. ProfileInv'
    BY <1>2, CreateKeeps
  <2>2. \A v \in Workers : At(v, "commit") => links' = links
    BY <1>2 DEF ProfileInv, GoodJob, GoodUpdate, At, Updating, CreateCommit
  <2>3. QED
    BY <2>1, <2>2
<1>3. ASSUME NEW w \in Workers, UpdateRow(w) \/ UpdateLinks(w) \/ UpdateDelete(w)
      PROVE  ProfileInv' /\ Whole
  <2>1. links' = links
    BY <1>3 DEF UpdateRow, UpdateLinks, UpdateDelete, profileVars
  <2>2. QED
    BY <1>3, <2>1, UpdateRowKeeps, UpdateLinksKeeps
<1>4. ASSUME NEW w \in Workers, UpdateCommit(w)
      PROVE  ProfileInv' /\ Whole
  <2>1. ProfileInv'
    BY <1>4, CommitKeeps
  <2>2. ASSUME NEW v \in Workers, At(v, "commit"), job[v].alone, job'[v] = Idle, links' # links
        PROVE  links' = job[v].list
    <3>1. links' = (links \ job[w].rows) \cup job[w].list /\ Overtake(w, mate', job[w].rows)
      BY <1>4, <2>2 DEF UpdateCommit, profileVars
    <3>2. CASE v = w
      <4>1. job[w].rows = links
        BY <2>2, <3>2, UpdateJobs DEF At, ProfileInv, GoodJob, GoodUpdate, Updating
      <4>2. QED
        BY <3>1, <3>2, <4>1
    <3>3. CASE v # w
      <4>1. job[v] \in UpdateJob /\ Updating(job[v]) /\ job[v].pc = "commit"
        BY <2>2, Pcs DEF At, Updating, ProfileInv
      <4>2. job'[v] = [job[v] EXCEPT !.rows = @ \ job[w].rows,
                                     !.fresh = @ /\ mate'.province = mate.province
                                                 /\ mate'.district = mate.district,
                                     !.alone = @ /\ ~job[w].relink]
        BY <3>1, <3>3, <4>1 DEF Overtake
      <4>3. job'[v].pc = "commit"
        BY <4>1, <4>2 DEF UpdateJob
      <4>4. QED
        BY <2>2, <4>3 DEF Idle
    <3>4. QED
      BY <3>2, <3>3
  <2>3. QED
    BY <2>1, <2>2
<1>5. ASSUME NEW w \in Workers, DeactivateWrite(w) \/ ProfileFail(w)
      PROVE  ProfileInv' /\ Whole
  <2>1. links' = links
    BY <1>5 DEF DeactivateWrite, ProfileFail, profileVars
  <2>2. ProfileInv'
    BY <1>5, SwitchesKeep, LeaveKeeps DEF ProfileFail
  <2>3. QED
    BY <2>1, <2>2
<1>6. ASSUME Activate
      PROVE  ProfileInv' /\ Whole
  <2>1. links' = links
    BY <1>6 DEF Activate
  <2>2. QED
    BY <1>6, <2>1, SwitchesKeep
<1> HIDE DEF Whole
<1>7. ProfileInv' /\ Whole
  BY <1>1, <1>2, <1>3, <1>4, <1>5, <1>6 DEF ProfileNext, ProfileStep
<1>8. QED
  BY <1>7 DEF Whole

(***************************************************************************)
(* The gallery                                                             *)
(***************************************************************************)

GalleryTypes ==
  /\ photo \in [PhotoIds -> {Unused, Erased} \cup Photos]
  /\ objects \subseteq PhotoIds
  /\ leaked \subseteq PhotoIds
  /\ broken \subseteq Shown

\* Slots of photos are below the maximum, and their own.
Slots ==
  /\ \A id \in Shown : photo[id].slot < MaxGallery
  /\ \A x, y \in Shown : x # y => photo[x].slot # photo[y].slot

\* The photo of a url has no object.
UrlsAreOutside == \A id \in Shown : ~photo[id].stored => id \notin objects

\* What a request knows of the photo that it is about.
GoodWork(w) ==
  /\ job[w].pc \in {"store", "insertUrl", "insert"} => job[w].slot < MaxGallery
  /\ At(w, "insert") => /\ photo[job[w].id] = Unused /\ job[w].id \in objects
                        /\ \A v \in Workers \ {w} : ~On(v, job[w].id)
  /\ At(w, "undo") /\ job[w].id \in Shown => job[w].id \in broken
  /\ job[w].pc \in {"unstore", "erase"} => photo[job[w].id] # Unused
  /\ At(w, "erase") => job[w].id \notin objects

\* The inductive invariant of the gallery.
GalleryInv ==
  /\ JobTypes /\ GalleryTypes /\ Slots /\ UrlsAreOutside
  /\ PhotosHaveObjects /\ ObjectsHavePhotos
  /\ \A w \in Workers : GoodWork(w)

LEMMA GalleryPcs ==
  ASSUME JobTypes, NEW w \in Workers
  PROVE  /\ job[w].pc \in {"store", "insertUrl", "insert"} => job[w].slot \in 0..MaxGallery
         /\ job[w].pc \in {"insert", "undo", "unstore", "erase"} => job[w].id \in PhotoIds
         /\ At(w, "list") => job[w].upload \in BOOLEAN
         /\ Idle.pc = "idle"
BY DEF JobTypes, At, Idle, ProfileJobs, GalleryJobs, CreateJob, UpdateJob, DeactivateJob, ListJob,
   StoreJob, InsertUrlJob, InsertJob, OnPhotoJob

LEMMA PhotoRows == Unused # Erased /\ Unused \notin Photos /\ Erased \notin Photos
BY DEF Unused, Erased, Photos

LEMMA ShownRows == ASSUME GalleryTypes, NEW id \in Shown PROVE id \in PhotoIds /\ photo[id] \in Photos
BY DEF GalleryTypes, Shown

\* A request that goes on or ends without writing, and may leave something behind.
CalmJob(j) ==
  /\ j.pc \notin {"insert", "undo"}
  /\ j.pc \in {"store", "insertUrl"} => j.slot < MaxGallery
  /\ j.pc \in {"unstore", "erase"} => photo[j.id] # Unused
  /\ j.pc = "erase" => j.id \notin objects

LEMMA GalleryCalm ==
  ASSUME GalleryInv, JobTypes', UNCHANGED <<photo, objects>>,
         leaked \subseteq leaked', leaked' \subseteq PhotoIds,
         broken \subseteq broken', broken' \subseteq Shown,
         \A w \in Workers :
           \/ job'[w] = job[w]
           \/ /\ CalmJob(job'[w])
              /\ job[w].pc \in {"insert", "undo"} => job[w].id \in Shown \cup leaked'
              /\ job[w].pc = "erase" /\ job[w].id \in Shown /\ photo[job[w].id].stored =>
                   job[w].id \in broken'
  PROVE  GalleryInv'
<1>1. Shown' = Shown
  BY DEF Shown
<1>2. GalleryTypes' /\ Slots' /\ UrlsAreOutside'
  BY <1>1 DEF GalleryInv, GalleryTypes, Slots, UrlsAreOutside
<1>3. PhotosHaveObjects'
  <2>1. ASSUME NEW id \in Shown, photo[id].stored, id \notin objects, id \notin broken'
        PROVE  \E w \in Workers : job'[w].pc = "erase" /\ job'[w].id = id
    <3>1. PICK w \in Workers : job[w].pc = "erase" /\ job[w].id = id
      BY <2>1 DEF GalleryInv, PhotosHaveObjects, At
    <3>2. QED
      BY <2>1, <3>1
  <2>2. QED
    BY <1>1, <2>1 DEF PhotosHaveObjects, At
<1>4. ObjectsHavePhotos'
  <2>1. ASSUME NEW id \in objects, id \notin Shown \cup leaked'
        PROVE  \E w \in Workers : job'[w].pc \in {"insert", "undo"} /\ job'[w].id = id
    <3>1. PICK w \in Workers : job[w].pc \in {"insert", "undo"} /\ job[w].id = id
      BY <2>1 DEF GalleryInv, ObjectsHavePhotos
    <3>2. QED
      BY <2>1, <3>1
  <2>2. QED
    BY <1>1, <2>1 DEF ObjectsHavePhotos
<1>5. ASSUME NEW w \in Workers
      PROVE  GoodWork(w)'
  <2>1. CASE CalmJob(job'[w])
    BY <2>1 DEF CalmJob, GoodWork, At
  <2>2. CASE job'[w] = job[w]
    <3>1. ASSUME job[w].pc = "insert", NEW v \in Workers \ {w}
          PROVE  ~(job'[v].pc \in {"insert", "undo", "unstore", "erase"} /\ job'[v].id = job[w].id)
      <4>1. photo[job[w].id] = Unused /\ ~On(v, job[w].id)
        BY <3>1 DEF GalleryInv, GoodWork, At
      <4>2. QED
        BY <4>1 DEF On, CalmJob
    <3>2. GoodWork(w)
      BY DEF GalleryInv
    <3>3. QED
      BY <1>1, <2>2, <3>1, <3>2 DEF GoodWork, At, On
  <2>3. QED
    BY <2>1, <2>2
<1>6. QED
  BY <1>2, <1>3, <1>4, <1>5 DEF GalleryInv

\* The slots of the photos are a bijection into those below the maximum.
LEMMA SlotsBound ==
  ASSUME GalleryTypes, Slots
  PROVE  /\ Cardinality(Shown) <= MaxGallery
         /\ Cardinality(Shown) < MaxGallery => \E s \in 0..MaxGallery - 1 : ~SlotTaken(s)
         /\ IsFiniteSet(Shown)
<1> DEFINE T == 0..MaxGallery - 1
           f == [id \in Shown |-> photo[id].slot]
<1>1. f \in [Shown -> T]
  BY ShownRows, MaxGalleryAssumption DEF Slots, Photos
<1>2. f \in Injection(Shown, T)
  BY <1>1 DEF Slots, Injection, IsInjective
<1>3. IsFiniteSet(T) /\ Cardinality(T) = MaxGallery
  BY FS_Interval, MaxGalleryAssumption
<1> HIDE DEF f, T
<1>4. /\ IsFiniteSet(Shown) /\ Cardinality(Shown) <= Cardinality(T)
      /\ Cardinality(Shown) = Cardinality(T) <=> f \in Surjection(Shown, T)
  BY <1>2, <1>3, FS_Injection
<1>5. ASSUME \A s \in T : SlotTaken(s)
      PROVE  f \in Surjection(Shown, T)
  <2>1. \A s \in T : \E id \in Shown : f[id] = s
    BY <1>5 DEF SlotTaken, f
  <2>2. QED
    BY <1>1, <2>1 DEF Surjection
<1>6. QED
  BY <1>3, <1>4, <1>5, MaxGalleryAssumption DEF T

\* A gallery that is not full has a free slot below its maximum, and the first free
\* slot is one.
LEMMA FirstFreeIsBelow ==
  ASSUME GalleryTypes, Slots, Cardinality(Shown) < MaxGallery
  PROVE  FirstFree \in 0..MaxGallery - 1 /\ ~SlotTaken(FirstFree)
<1> DEFINE Left == {s \in 0..MaxGallery - 1 : ~SlotTaken(s)}
<1>1. Left \subseteq Nat /\ Left # {}
  BY SlotsBound, MaxGalleryAssumption
<1>2. PICK least \in Left : \A other \in Left : ~(<<other, least>> \in OpToRel(<, Nat))
  BY <1>1, WFMin, NatLessThanWellFounded, Zenon
<1>3. \A x, y \in Nat : x < y => <<x, y>> \in OpToRel(<, Nat)
  <2> SUFFICES ASSUME NEW x \in Nat, NEW y \in Nat, x < y
               PROVE  <<x, y>> \in {ss \in Nat \X Nat : ss[1] < ss[2]}
    BY Zenon DEF OpToRel
  <2> QED
    OBVIOUS
<1>4. \A other \in Left : ~(other < least)
  <2> SUFFICES ASSUME NEW other \in Left PROVE ~(other < least)
    OBVIOUS
  <2>1. other \in Nat /\ least \in Nat
    BY <1>1
  <2> QED
    BY <2>1, <1>2, <1>3, Zenon
<1>5. least \in 0..MaxGallery /\ ~SlotTaken(least) /\ \A r \in 0..least - 1 : SlotTaken(r)
  BY <1>4, MaxGalleryAssumption
<1>6. FirstFree \in 0..MaxGallery /\ ~SlotTaken(FirstFree) /\ \A r \in 0..FirstFree - 1 : SlotTaken(r)
  BY <1>5 DEF FirstFree
<1>7. FirstFree # MaxGallery
  BY <1>6, <1>1
<1>8. QED
  BY <1>6, <1>7, MaxGalleryAssumption

LEMMA WorkersMove ==
  ASSUME JobTypes, NEW w \in Workers, NEW j \in ProfileJobs \cup GalleryJobs,
         job' = [job EXCEPT ![w] = j]
  PROVE  JobTypes' /\ job'[w] = j /\ \A v \in Workers : v # w => job'[v] = job[v]
BY DEF JobTypes

\* What requests read and what they leave.
LEMMA ReadsKeep ==
  ASSUME GalleryInv, NEW w \in Workers,
         \/ \E upload \in BOOLEAN : AddRead(w, upload)
         \/ AddList(w)
         \/ \E id \in PhotoIds : RemoveRead(w, id)
  PROVE  GalleryInv'
<1>1. ASSUME NEW j \in GalleryJobs \cup {Idle}, CalmJob(j), job' = [job EXCEPT ![w] = j],
             UNCHANGED <<photo, objects, leaked, broken>>,
             job[w].pc \notin {"insert", "undo", "erase"}
      PROVE  GalleryInv'
  <2>1. j \in ProfileJobs \cup GalleryJobs
    BY IdleIsGood
  <2>2. JobTypes' /\ job'[w] = j /\ \A v \in Workers : v # w => job'[v] = job[v]
    BY <1>1, <2>1, WorkersMove DEF GalleryInv
  <2>3. leaked' = leaked /\ broken' = broken /\ leaked \subseteq PhotoIds /\ broken \subseteq Shown
    BY <1>1 DEF GalleryInv, GalleryTypes
  <2>4. QED
    BY <1>1, <2>2, <2>3, GalleryCalm
<1>2. ASSUME NEW upload \in BOOLEAN, AddRead(w, upload)
      PROVE  GalleryInv'
  <2>1. [pc |-> "list", upload |-> upload] \in GalleryJobs /\ CalmJob([pc |-> "list", upload |-> upload])
    BY DEF GalleryJobs, ListJob, CalmJob
  <2>2. job' = [job EXCEPT ![w] = [pc |-> "list", upload |-> upload]] /\ job[w].pc = "idle"
        /\ UNCHANGED <<photo, objects, leaked, broken>>
    BY <1>2 DEF AddRead, Begin, galleryVars, Idle
  <2>3. QED
    BY <1>1, <2>1, <2>2
<1>3. ASSUME NEW id \in PhotoIds, RemoveRead(w, id)
      PROVE  GalleryInv'
  <2>1. photo[id] \in Photos /\ photo[id] # Unused
    BY <1>3, ShownRows, PhotoRows DEF RemoveRead, GalleryInv
  <2>2. CASE photo[id].stored
    <3>1. [pc |-> "unstore", id |-> id] \in GalleryJobs /\ CalmJob([pc |-> "unstore", id |-> id])
      BY <2>1 DEF GalleryJobs, OnPhotoJob, CalmJob
    <3>2. job' = [job EXCEPT ![w] = [pc |-> "unstore", id |-> id]] /\ job[w].pc = "idle"
          /\ UNCHANGED <<photo, objects, leaked, broken>>
      BY <1>3, <2>2 DEF RemoveRead, Begin, galleryVars, Idle
    <3>3. QED
      BY <1>1, <3>1, <3>2
  <2>3. CASE ~photo[id].stored
    <3>1. id \notin objects
      BY <1>3, <2>3 DEF RemoveRead, GalleryInv, UrlsAreOutside
    <3>2. [pc |-> "erase", id |-> id] \in GalleryJobs /\ CalmJob([pc |-> "erase", id |-> id])
      BY <2>1, <3>1 DEF GalleryJobs, OnPhotoJob, CalmJob
    <3>3. job' = [job EXCEPT ![w] = [pc |-> "erase", id |-> id]] /\ job[w].pc = "idle"
          /\ UNCHANGED <<photo, objects, leaked, broken>>
      BY <1>3, <2>3 DEF RemoveRead, Begin, galleryVars, Idle
    <3>4. QED
      BY <1>1, <3>2, <3>3
  <2>4. QED
    BY <2>2, <2>3
<1>4. ASSUME AddList(w)
      PROVE  GalleryInv'
  <2>1. job[w].pc = "list" /\ UNCHANGED <<photo, objects, leaked, broken>>
    BY <1>4 DEF AddList, At, galleryVars
  <2>2. CASE Cardinality(Shown) >= MaxGallery
    <3>1. job' = [job EXCEPT ![w] = Idle] /\ CalmJob(Idle)
      BY <1>4, <2>2 DEF AddList, Leave, Begin, CalmJob, Idle
    <3>2. QED
      BY <1>1, <2>1, <3>1
  <2>3. CASE ~(Cardinality(Shown) >= MaxGallery)
    <3>1. Cardinality(Shown) < MaxGallery
      BY <2>3, SlotsBound, FS_CardinalityType, MaxGalleryAssumption DEF GalleryInv
    <3>2. PICK slot \in 0..MaxGallery - 1 : slot = FirstFree
      BY <3>1, FirstFreeIsBelow DEF GalleryInv
    <3>3. PICK j : /\ j = [pc |-> IF job[w].upload THEN "store" ELSE "insertUrl", slot |-> slot]
                   /\ job' = [job EXCEPT ![w] = j]
      BY <1>4, <2>3, <3>2 DEF AddList, Begin
    <3>4. j \in GalleryJobs /\ j.pc \in {"store", "insertUrl"} /\ j.slot = slot
      BY <3>3, MaxGalleryAssumption DEF GalleryJobs, StoreJob, InsertUrlJob
    <3>5. CalmJob(j)
      BY <3>4, MaxGalleryAssumption DEF CalmJob
    <3>6. QED
      BY <1>1, <2>1, <3>3, <3>4, <3>5
  <2>4. QED
    BY <2>2, <2>3
<1>5. QED
  BY <1>2, <1>3, <1>4

LEMMA FailKeeps ==
  ASSUME GalleryInv, NEW w \in Workers, GalleryFail(w)
  PROVE  GalleryInv'
<1>1. /\ job' = [job EXCEPT ![w] = Idle] /\ UNCHANGED <<photo, objects>>
      /\ leaked' = IF (At(w, "insert") \/ At(w, "undo")) /\ job[w].id \notin Shown
                   THEN leaked \cup {job[w].id} ELSE leaked
      /\ broken' = IF At(w, "erase") /\ job[w].id \in Shown /\ photo[job[w].id].stored
                   THEN broken \cup {job[w].id} ELSE broken
  BY DEF GalleryFail, Leave, Begin
<1>2. JobTypes' /\ job'[w] = Idle /\ \A v \in Workers : v # w => job'[v] = job[v]
  BY <1>1, IdleIsGood, WorkersMove DEF GalleryInv
<1>3. CalmJob(Idle)
  BY DEF CalmJob, Idle
<1>4. leaked \subseteq leaked' /\ leaked' \subseteq PhotoIds
  BY <1>1, GalleryPcs DEF GalleryInv, GalleryTypes, At
<1>5. broken \subseteq broken' /\ broken' \subseteq Shown
  BY <1>1 DEF GalleryInv, GalleryTypes
<1>6. /\ job[w].pc \in {"insert", "undo"} => job[w].id \in Shown \cup leaked'
      /\ job[w].pc = "erase" /\ job[w].id \in Shown /\ photo[job[w].id].stored =>
           job[w].id \in broken'
  BY <1>1 DEF At
<1>7. QED
  BY <1>1, <1>2, <1>3, <1>4, <1>5, <1>6, GalleryCalm

LEMMA StoreKeeps ==
  ASSUME GalleryInv, NEW w \in Workers, NEW id \in PhotoIds, Store(w, id)
  PROVE  GalleryInv'
<1>1. /\ job[w].pc = "store" /\ job[w].slot < MaxGallery /\ job[w].slot \in 0..MaxGallery
      /\ photo[id] = Unused /\ id \notin objects /\ id \notin Shown
      /\ \A v \in Workers : ~(job[v].pc \in {"insert", "undo", "unstore", "erase"} /\ job[v].id = id)
  BY GalleryPcs DEF Store, At, Fresh, On, GalleryInv, GoodWork, Shown
<1>2. objects' = objects \cup {id} /\ photo' = photo /\ broken' = broken
  BY DEF Store
<1>3. PICK j \in {Idle} \cup InsertJob :
        /\ job' = [job EXCEPT ![w] = j]
        /\ \/ j.pc = "insert" /\ j.slot = job[w].slot /\ j.id = id /\ leaked' = leaked
           \/ j.pc = "idle" /\ leaked' = leaked \cup {id}
  <2>1. CASE Begin(w, [pc |-> "insert", slot |-> job[w].slot, id |-> id]) /\ leaked' = leaked
    <3> DEFINE j == [pc |-> "insert", slot |-> job[w].slot, id |-> id]
    <3>1. j \in InsertJob /\ j.pc = "insert" /\ j.slot = job[w].slot /\ j.id = id
      BY <1>1 DEF InsertJob
    <3>2. job' = [job EXCEPT ![w] = j]
      BY <2>1 DEF Begin
    <3> HIDE DEF j
    <3>3. QED
      BY <2>1, <3>1, <3>2
  <2>2. CASE Leave(w) /\ leaked' = leaked \cup {id}
    <3>1. job' = [job EXCEPT ![w] = Idle] /\ Idle.pc = "idle"
      BY <2>2 DEF Leave, Begin, Idle
    <3>2. QED
      BY <2>2, <3>1
  <2>3. QED
    BY <2>1, <2>2 DEF Store
<1>4. JobTypes' /\ job'[w] = j /\ \A v \in Workers : v # w => job'[v] = job[v]
  <2>1. j \in ProfileJobs \cup GalleryJobs
    BY IdleIsGood DEF GalleryJobs
  <2>2. QED
    BY <1>3, <2>1, WorkersMove DEF GalleryInv
<1>5. Shown' = Shown
  BY <1>2 DEF Shown
<1>6. GalleryTypes' /\ Slots' /\ UrlsAreOutside'
  BY <1>1, <1>2, <1>3, <1>5 DEF GalleryInv, GalleryTypes, Slots, UrlsAreOutside
<1>7. PhotosHaveObjects'
  <2>1. ASSUME NEW x \in Shown, photo[x].stored, x \notin objects, x \notin broken
        PROVE  \E v \in Workers : job'[v].pc = "erase" /\ job'[v].id = x
    <3>1. PICK v \in Workers : job[v].pc = "erase" /\ job[v].id = x
      BY <2>1 DEF GalleryInv, PhotosHaveObjects, At
    <3>2. QED
      BY <3>1, <1>1, <1>4
  <2>2. QED
    BY <1>2, <1>5, <2>1 DEF PhotosHaveObjects, At
<1>8. ObjectsHavePhotos'
  <2>1. ASSUME NEW x \in objects', x \notin Shown \cup leaked'
        PROVE  \E v \in Workers : job'[v].pc \in {"insert", "undo"} /\ job'[v].id = x
    <3>1. CASE x = id
      BY <2>1, <3>1, <1>3, <1>4
    <3>2. CASE x # id
      <4>1. x \in objects /\ x \notin Shown \cup leaked
        BY <2>1, <3>2, <1>2, <1>3
      <4>2. PICK v \in Workers : job[v].pc \in {"insert", "undo"} /\ job[v].id = x
        BY <4>1 DEF GalleryInv, ObjectsHavePhotos
      <4>3. QED
        BY <4>2, <1>1, <1>4
    <3>3. QED
      BY <3>1, <3>2
  <2>2. QED
    BY <1>5, <2>1 DEF ObjectsHavePhotos
<1>9. ASSUME NEW v \in Workers
      PROVE  GoodWork(v)'
  <2>1. CASE v = w
    <3>1. \A x \in Workers \ {w} : ~(job'[x].pc \in {"insert", "undo", "unstore", "erase"} /\ job'[x].id = id)
      BY <1>1, <1>4
    <3>2. QED
      BY <2>1, <3>1, <1>1, <1>2, <1>3, <1>4 DEF GoodWork, At, On
  <2>2. CASE v # w
    <3>1. job'[v] = job[v] /\ GoodWork(v)
      BY <2>2, <1>4 DEF GalleryInv
    <3>2. ASSUME job[v].pc = "insert", NEW x \in Workers \ {v}
          PROVE  ~(job'[x].pc \in {"insert", "undo", "unstore", "erase"} /\ job'[x].id = job[v].id)
      <4>1. ~On(x, job[v].id) /\ job[v].id # id
        BY <3>1, <3>2, <1>1 DEF GoodWork, At
      <4>2. QED
        BY <4>1, <1>3, <1>4 DEF On
    <3>3. job[v].pc = "erase" => job[v].id # id
      BY <1>1
    <3>4. QED
      BY <3>1, <3>2, <3>3, <1>2, <1>5 DEF GoodWork, At, On
  <2>3. QED
    BY <2>1, <2>2
<1>10. QED
  BY <1>4, <1>6, <1>7, <1>8, <1>9 DEF GalleryInv

\* A photo is added at a free slot: one of a url, or one whose object is there, which
\* a request that had no answer is about to remove.
LEMMA AddKeeps ==
  ASSUME GalleryInv, NEW w \in Workers, NEW id \in PhotoIds, NEW slot \in 0..MaxGallery - 1,
         NEW stored \in BOOLEAN, NEW j \in {Idle} \cup OnPhotoJob,
         photo[id] = Unused, ~SlotTaken(slot),
         stored <=> id \in objects,
         job[w].pc \notin {"undo", "erase"},
         job[w].pc = "insert" => job[w].id = id,
         \A v \in Workers \ {w} : ~On(v, id),
         photo' = [photo EXCEPT ![id] = [slot |-> slot, stored |-> stored]],
         job' = [job EXCEPT ![w] = j], UNCHANGED <<objects, leaked>>,
         \/ j = Idle /\ broken' = broken
         \/ j.pc = "undo" /\ j.id = id /\ broken' = broken \cup {id}
  PROVE  GalleryInv'
<1>1. JobTypes' /\ job'[w] = j /\ \A v \in Workers : v # w => job'[v] = job[v]
  <2>1. j \in ProfileJobs \cup GalleryJobs
    BY IdleIsGood DEF GalleryJobs
  <2>2. QED
    BY <2>1, WorkersMove DEF GalleryInv
<1>2. j.pc \in {"idle", "undo"}
  BY DEF Idle
<1>3. [slot |-> slot, stored |-> stored] \in Photos
  BY MaxGalleryAssumption DEF Photos
<1>4. /\ photo'[id] = [slot |-> slot, stored |-> stored]
      /\ \A x \in PhotoIds : x # id => photo'[x] = photo[x]
      /\ photo' \in [PhotoIds -> {Unused, Erased} \cup Photos]
  BY <1>3 DEF GalleryInv, GalleryTypes
<1>5. Shown' = Shown \cup {id} /\ id \notin Shown
  <2>1. photo'[id] \notin {Unused, Erased}
    BY <1>3, <1>4, PhotoRows
  <2>2. {x \in PhotoIds : photo'[x] \notin {Unused, Erased}} = Shown \cup {id}
    BY <1>4, <2>1 DEF Shown
  <2>3. QED
    BY <2>2 DEF Shown
<1>6. GalleryTypes'
  BY <1>4, <1>5 DEF GalleryInv, GalleryTypes
<1>7. Slots'
  <2>1. \A x \in Shown : photo'[x] = photo[x] /\ photo[x].slot # slot /\ photo[x].slot < MaxGallery
    BY <1>4, <1>5 DEF Shown, SlotTaken, GalleryInv, Slots
  <2>2. photo'[id].slot = slot /\ slot < MaxGallery
    BY <1>4, MaxGalleryAssumption
  <2>3. QED
    BY <1>5, <2>1, <2>2 DEF Slots, GalleryInv
<1>8. UrlsAreOutside'
  BY <1>4, <1>5 DEF UrlsAreOutside, GalleryInv, Shown
<1>9. PhotosHaveObjects'
  <2>1. ASSUME NEW x \in Shown \cup {id}, photo'[x].stored, x \notin objects, x \notin broken'
        PROVE  \E v \in Workers : job'[v].pc = "erase" /\ job'[v].id = x
    <3>1. x # id /\ x \in Shown /\ photo[x].stored /\ x \notin broken
      BY <2>1, <1>4, <1>5 DEF Shown
    <3>2. PICK v \in Workers : job[v].pc = "erase" /\ job[v].id = x
      BY <3>1, <2>1 DEF GalleryInv, PhotosHaveObjects, At
    <3>3. QED
      BY <3>2, <1>1
  <2>2. QED
    BY <1>5, <2>1 DEF PhotosHaveObjects, At
<1>10. ObjectsHavePhotos'
  <2>1. ASSUME NEW x \in objects, x \notin Shown \cup {id} \cup leaked
        PROVE  \E v \in Workers : job'[v].pc \in {"insert", "undo"} /\ job'[v].id = x
    <3>1. PICK v \in Workers : job[v].pc \in {"insert", "undo"} /\ job[v].id = x
      BY <2>1 DEF GalleryInv, ObjectsHavePhotos
    <3>2. QED
      BY <2>1, <3>1, <1>1
  <2>2. QED
    BY <1>5, <2>1 DEF ObjectsHavePhotos
<1>11. ASSUME NEW v \in Workers
       PROVE  GoodWork(v)'
  <2>1. CASE v = w
    BY <2>1, <1>1, <1>2 DEF GoodWork, At, Idle
  <2>2. CASE v # w
    <3>1. job'[v] = job[v] /\ GoodWork(v) /\ ~On(v, id)
      BY <2>2, <1>1 DEF GalleryInv
    <3>2. ASSUME job[v].pc = "insert", NEW x \in Workers \ {v}
          PROVE  ~(job'[x].pc \in {"insert", "undo", "unstore", "erase"} /\ job'[x].id = job[v].id)
      <4>1. ~On(x, job[v].id) /\ job[v].id # id
        BY <3>1, <3>2 DEF GoodWork, At, On
      <4>2. QED
        BY <4>1, <1>1 DEF On, Idle
    <3>3. job[v].pc \in {"insert", "undo", "unstore", "erase"} =>
            job[v].id \in PhotoIds /\ job[v].id # id /\ photo'[job[v].id] = photo[job[v].id]
      BY <3>1, <1>4, GalleryPcs DEF On, GalleryInv
    <3>4. broken \subseteq broken'
      OBVIOUS
    <3>5. QED
      BY <3>1, <3>2, <3>3, <3>4, <1>5 DEF GoodWork, At, On
  <2>3. QED
    BY <2>1, <2>2
<1>12. QED
  BY <1>1, <1>6, <1>7, <1>8, <1>9, <1>10, <1>11 DEF GalleryInv

LEMMA InsertsKeep ==
  ASSUME GalleryInv, NEW w \in Workers,
         Insert(w) \/ InsertFails(w) \/ \E id \in PhotoIds : InsertUrl(w, id)
  PROVE  GalleryInv'
<1>1. ASSUME NEW id \in PhotoIds, InsertUrl(w, id)
      PROVE  GalleryInv'
  <2>1. /\ job[w].pc = "insertUrl" /\ job[w].slot \in 0..MaxGallery - 1
        /\ job' = [job EXCEPT ![w] = Idle] /\ UNCHANGED <<objects, leaked, broken>>
    BY <1>1, GalleryPcs, MaxGalleryAssumption
    DEF InsertUrl, At, Leave, Begin, GalleryInv, GoodWork
  <2>2. CASE ~SlotTaken(job[w].slot)
    <3>1. /\ photo[id] = Unused /\ id \notin objects /\ \A v \in Workers \ {w} : ~On(v, id)
          /\ photo' = [photo EXCEPT ![id] = [slot |-> job[w].slot, stored |-> FALSE]]
      BY <1>1, <2>2 DEF InsertUrl, Fresh
    <3>2. QED
      BY <2>1, <2>2, <3>1, AddKeeps
  <2>3. CASE SlotTaken(job[w].slot)
    <3>1. photo' = photo
      BY <1>1, <2>3 DEF InsertUrl
    <3>2. JobTypes' /\ job'[w] = Idle /\ \A v \in Workers : v # w => job'[v] = job[v]
      BY <2>1, IdleIsGood, WorkersMove DEF GalleryInv
    <3>3. CalmJob(Idle) /\ leaked' \subseteq PhotoIds /\ broken' \subseteq Shown
      BY <2>1 DEF CalmJob, Idle, GalleryInv, GalleryTypes
    <3>4. QED
      BY <2>1, <3>1, <3>2, <3>3, GalleryCalm
  <2>4. QED
    BY <2>2, <2>3
<1>2. ASSUME Insert(w) \/ InsertFails(w)
      PROVE  GalleryInv'
  <2>1. PICK id \in PhotoIds : id = job[w].id /\ job[w].pc = "insert"
    BY <1>2, GalleryPcs DEF Insert, InsertFails, At, GalleryInv
  <2>2. /\ job[w].slot \in 0..MaxGallery - 1 /\ photo[id] = Unused /\ id \in objects
        /\ \A v \in Workers \ {w} : ~On(v, id)
    BY <2>1, GalleryPcs, MaxGalleryAssumption DEF GalleryInv, GoodWork, At
  <2>3. CASE Insert(w)
    <3>1. /\ photo' = [photo EXCEPT ![id] = [slot |-> job[w].slot, stored |-> TRUE]]
          /\ ~SlotTaken(job[w].slot) /\ job' = [job EXCEPT ![w] = Idle]
          /\ UNCHANGED <<objects, leaked, broken>>
      BY <2>1, <2>3 DEF Insert, Leave, Begin
    <3>2. QED
      BY <2>1, <2>2, <3>1, AddKeeps
  <2>4. CASE InsertFails(w)
    <3>1. PICK j \in OnPhotoJob : j.pc = "undo" /\ j.id = id /\ job' = [job EXCEPT ![w] = j]
      BY <2>1, <2>4 DEF InsertFails, Begin, OnPhotoJob
    <3>2. UNCHANGED <<objects, leaked>>
      BY <2>4 DEF InsertFails
    <3>3. CASE ~SlotTaken(job[w].slot) /\ broken' = broken \cup {id}
               /\ photo' = [photo EXCEPT ![id] = [slot |-> job[w].slot, stored |-> TRUE]]
      BY <2>1, <2>2, <3>1, <3>2, <3>3, AddKeeps
    <3>4. CASE UNCHANGED <<photo, broken>>
      <4>1. JobTypes' /\ job'[w] = j /\ \A v \in Workers : v # w => job'[v] = job[v]
        BY <3>1, WorkersMove DEF GalleryInv, GalleryJobs
      <4>2. Shown' = Shown /\ id \notin Shown
        BY <2>2, <3>4 DEF Shown
      <4>3. GalleryTypes' /\ Slots' /\ UrlsAreOutside'
        BY <3>2, <3>4, <4>2 DEF GalleryInv, GalleryTypes, Slots, UrlsAreOutside
      <4>4. PhotosHaveObjects'
        BY <2>1, <3>2, <3>4, <4>1, <4>2 DEF GalleryInv, PhotosHaveObjects, At
      <4>5. ObjectsHavePhotos'
        <5>1. ASSUME NEW x \in objects, x \notin Shown \cup leaked
              PROVE  \E v \in Workers : job'[v].pc \in {"insert", "undo"} /\ job'[v].id = x
          <6>1. PICK v \in Workers : job[v].pc \in {"insert", "undo"} /\ job[v].id = x
            BY <5>1 DEF GalleryInv, ObjectsHavePhotos
          <6>2. QED
            BY <2>1, <3>1, <4>1, <6>1
        <5>2. QED
          BY <3>2, <4>2, <5>1 DEF ObjectsHavePhotos
      <4>6. ASSUME NEW v \in Workers
            PROVE  GoodWork(v)'
        <5>1. CASE v = w
          BY <5>1, <3>1, <4>1, <4>2 DEF GoodWork, At
        <5>2. CASE v # w
          <6>1. job'[v] = job[v] /\ GoodWork(v) /\ ~On(v, id)
            BY <5>2, <2>2, <4>1 DEF GalleryInv
          <6>2. ASSUME job[v].pc = "insert", NEW x \in Workers \ {v}
                PROVE  ~(job'[x].pc \in {"insert", "undo", "unstore", "erase"} /\ job'[x].id = job[v].id)
            <7>1. ~On(x, job[v].id) /\ job[v].id # id
              BY <6>1, <6>2 DEF GoodWork, At, On
            <7>2. QED
              BY <7>1, <3>1, <4>1 DEF On
          <6>3. QED
            BY <3>2, <3>4, <4>2, <6>1, <6>2 DEF GoodWork, At, On
        <5>3. QED
          BY <5>1, <5>2
      <4>7. QED
        BY <4>1, <4>3, <4>4, <4>5, <4>6 DEF GalleryInv
    <3>5. QED
      BY <2>1, <2>4, <3>3, <3>4 DEF InsertFails
  <2>5. QED
    BY <1>2, <2>3, <2>4
<1>3. QED
  BY <1>1, <1>2

\* An object is removed by the compensation of an upload, or before its row is.
LEMMA ObjectKeeps ==
  ASSUME GalleryInv, NEW w \in Workers, Undo(w) \/ RemoveObject(w)
  PROVE  GalleryInv'
<1>1. PICK id \in PhotoIds : id = job[w].id /\ job[w].pc \in {"undo", "unstore"}
  BY GalleryPcs DEF Undo, RemoveObject, At, GalleryInv
<1>2. objects' = objects \ {id} /\ UNCHANGED <<photo, leaked, broken>>
  BY <1>1 DEF Undo, RemoveObject
<1>3. PICK j \in {Idle} \cup OnPhotoJob :
        /\ job' = [job EXCEPT ![w] = j]
        /\ \/ job[w].pc = "undo" /\ j.pc = "idle"
           \/ job[w].pc = "unstore" /\ j.pc = "erase" /\ j.id = id
  <2>1. CASE Undo(w)
    <3>1. job' = [job EXCEPT ![w] = Idle] /\ Idle.pc = "idle" /\ job[w].pc = "undo"
      BY <2>1 DEF Undo, Leave, Begin, Idle, At
    <3>2. QED
      BY <3>1
  <2>2. CASE RemoveObject(w)
    <3> DEFINE j == [pc |-> "erase", id |-> id]
    <3>1. j \in OnPhotoJob /\ j.pc = "erase" /\ j.id = id
      BY DEF OnPhotoJob
    <3>2. job' = [job EXCEPT ![w] = j] /\ job[w].pc = "unstore"
      BY <2>2, <1>1 DEF RemoveObject, Begin, At
    <3> HIDE DEF j
    <3>3. QED
      BY <3>1, <3>2
  <2>3. QED
    BY <2>1, <2>2
<1>4. JobTypes' /\ job'[w] = j /\ \A v \in Workers : v # w => job'[v] = job[v]
  <2>1. j \in ProfileJobs \cup GalleryJobs
    BY IdleIsGood DEF GalleryJobs
  <2>2. QED
    BY <1>3, <2>1, WorkersMove DEF GalleryInv
<1>5. Shown' = Shown
  BY <1>2 DEF Shown
<1>6. GalleryTypes' /\ Slots' /\ UrlsAreOutside'
  BY <1>2, <1>5 DEF GalleryInv, GalleryTypes, Slots, UrlsAreOutside
<1>7. job[w].pc = "undo" /\ id \in Shown => id \in broken
  BY <1>1 DEF GalleryInv, GoodWork, At
<1>8. PhotosHaveObjects'
  <2>1. ASSUME NEW x \in Shown, photo[x].stored, x \notin objects', x \notin broken
        PROVE  \E v \in Workers : job'[v].pc = "erase" /\ job'[v].id = x
    <3>1. CASE x = id
      BY <2>1, <3>1, <1>1, <1>3, <1>4, <1>7
    <3>2. CASE x # id
      <4>1. PICK v \in Workers : job[v].pc = "erase" /\ job[v].id = x
        BY <2>1, <3>2, <1>2 DEF GalleryInv, PhotosHaveObjects, At
      <4>2. QED
        BY <4>1, <1>1, <1>4
    <3>3. QED
      BY <3>1, <3>2
  <2>2. QED
    BY <1>2, <1>5, <2>1 DEF PhotosHaveObjects, At
<1>9. ObjectsHavePhotos'
  <2>1. ASSUME NEW x \in objects, x # id, x \notin Shown \cup leaked
        PROVE  \E v \in Workers : job'[v].pc \in {"insert", "undo"} /\ job'[v].id = x
    <3>1. PICK v \in Workers : job[v].pc \in {"insert", "undo"} /\ job[v].id = x
      BY <2>1 DEF GalleryInv, ObjectsHavePhotos
    <3>2. QED
      BY <2>1, <3>1, <1>1, <1>4
  <2>2. QED
    BY <1>2, <1>5, <2>1 DEF ObjectsHavePhotos
<1>10. ASSUME NEW v \in Workers
       PROVE  GoodWork(v)'
  <2>1. CASE v = w
    <3>1. job[w].pc = "unstore" => photo[id] # Unused
      BY <1>1 DEF GalleryInv, GoodWork
    <3>2. QED
      BY <2>1, <3>1, <1>2, <1>3, <1>4 DEF GoodWork, At
  <2>2. CASE v # w
    <3>1. job'[v] = job[v] /\ GoodWork(v)
      BY <2>2, <1>4 DEF GalleryInv
    <3>2. ASSUME job[v].pc = "insert", NEW x \in Workers \ {v}
          PROVE  ~(job'[x].pc \in {"insert", "undo", "unstore", "erase"} /\ job'[x].id = job[v].id)
      <4>1. ~On(x, job[v].id)
        BY <3>1, <3>2 DEF GoodWork, At
      <4>2. QED
        BY <4>1, <1>1, <1>3, <1>4 DEF On
    <3>3. job[v].pc = "insert" => job[v].id # id
      BY <2>2, <3>1, <1>1 DEF GoodWork, At, On
    <3>4. QED
      BY <3>1, <3>2, <3>3, <1>2, <1>5 DEF GoodWork, At, On
  <2>3. QED
    BY <2>1, <2>2
<1>11. QED
  BY <1>4, <1>6, <1>8, <1>9, <1>10 DEF GalleryInv

LEMMA EraseKeeps ==
  ASSUME GalleryInv, NEW w \in Workers, EraseRow(w)
  PROVE  GalleryInv'
<1>1. PICK id \in PhotoIds : /\ id = job[w].id /\ job[w].pc = "erase"
                             /\ photo[id] # Unused /\ id \notin objects
  BY GalleryPcs DEF EraseRow, At, GalleryInv, GoodWork
<1>2. /\ photo' = [photo EXCEPT ![id] = Erased] /\ broken' = broken \ {id}
      /\ job' = [job EXCEPT ![w] = Idle] /\ UNCHANGED <<objects, leaked>>
  BY <1>1 DEF EraseRow, Leave, Begin
<1>3. JobTypes' /\ job'[w] = Idle /\ \A v \in Workers : v # w => job'[v] = job[v]
  BY <1>2, IdleIsGood, WorkersMove DEF GalleryInv
<1>4. photo'[id] = Erased /\ \A x \in PhotoIds : x # id => photo'[x] = photo[x]
  BY <1>2 DEF GalleryInv, GalleryTypes
<1>5. Shown' = Shown \ {id}
  <2>1. {x \in PhotoIds : photo'[x] \notin {Unused, Erased}} = Shown \ {id}
    BY <1>4 DEF Shown
  <2>2. QED
    BY <2>1 DEF Shown
<1>6. GalleryTypes'
  BY <1>2, <1>5 DEF GalleryInv, GalleryTypes
<1>7. \A x \in Shown \ {id} : photo'[x] = photo[x]
  BY <1>4 DEF Shown
<1>8. Slots' /\ UrlsAreOutside'
  BY <1>2, <1>5, <1>7 DEF GalleryInv, Slots, UrlsAreOutside
<1>9. PhotosHaveObjects'
  <2>1. ASSUME NEW x \in Shown \ {id}, photo[x].stored, x \notin objects, x \notin broken
        PROVE  \E v \in Workers : job'[v].pc = "erase" /\ job'[v].id = x
    <3>1. PICK v \in Workers : job[v].pc = "erase" /\ job[v].id = x
      BY <2>1 DEF GalleryInv, PhotosHaveObjects, At
    <3>2. QED
      BY <2>1, <3>1, <1>1, <1>3
  <2>2. QED
    BY <1>2, <1>5, <1>7, <2>1 DEF PhotosHaveObjects, At
<1>10. ObjectsHavePhotos'
  <2>1. ASSUME NEW x \in objects, x \notin Shown \cup leaked
        PROVE  \E v \in Workers : job'[v].pc \in {"insert", "undo"} /\ job'[v].id = x
    <3>1. PICK v \in Workers : job[v].pc \in {"insert", "undo"} /\ job[v].id = x
      BY <2>1 DEF GalleryInv, ObjectsHavePhotos
    <3>2. QED
      BY <3>1, <1>1, <1>3
  <2>2. QED
    BY <1>1, <1>2, <1>5, <2>1 DEF ObjectsHavePhotos
<1>11. ASSUME NEW v \in Workers
       PROVE  GoodWork(v)'
  <2>1. CASE v = w
    BY <2>1, <1>3 DEF GoodWork, At, Idle
  <2>2. CASE v # w
    <3>1. job'[v] = job[v] /\ GoodWork(v)
      BY <2>2, <1>3 DEF GalleryInv
    <3>2. ASSUME job[v].pc = "insert", NEW x \in Workers \ {v}
          PROVE  ~(job'[x].pc \in {"insert", "undo", "unstore", "erase"} /\ job'[x].id = job[v].id)
      <4>1. ~On(x, job[v].id)
        BY <3>1, <3>2 DEF GoodWork, At
      <4>2. QED
        BY <4>1, <1>3 DEF On, Idle
    <3>3. job[v].pc = "insert" => job[v].id # id
      BY <3>1, <1>1 DEF GoodWork, At
    <3>4. job[v].pc \in {"insert", "undo", "unstore", "erase"} => job[v].id \in PhotoIds
      BY GalleryPcs DEF GalleryInv
    <3>5. QED
      BY <3>1, <3>2, <3>3, <3>4, <1>2, <1>4, <1>5, PhotoRows DEF GoodWork, At, On
  <2>3. QED
    BY <2>1, <2>2
<1>12. QED
  BY <1>3, <1>6, <1>8, <1>9, <1>10, <1>11 DEF GalleryInv

\* The profile moves no request of the gallery.
LEMMA ProfileLeavesGallery ==
  ASSUME ProfileInv, ProfileInv', GalleryInv, ProfileNext, UNCHANGED galleryVars
  PROVE  GalleryInv'
<1>1. \A w \in Workers :
        \/ job'[w] = job[w]
        \/ /\ job'[w].pc \notin {"insert", "undo", "store", "insertUrl", "unstore", "erase"}
           /\ job[w].pc \notin {"insert", "undo", "erase"}
  <2>1. ASSUME NEW w \in Workers, NEW j, job' = [job EXCEPT ![w] = j],
               j.pc \notin {"insert", "undo", "store", "insertUrl", "unstore", "erase"},
               job[w].pc \notin {"insert", "undo", "erase"}, NEW v \in Workers
        PROVE  \/ job'[v] = job[v]
               \/ /\ job'[v].pc \notin {"insert", "undo", "store", "insertUrl", "unstore", "erase"}
                  /\ job[v].pc \notin {"insert", "undo", "erase"}
    BY <2>1 DEF ProfileInv, JobTypes
  <2>2. ASSUME NEW w \in Workers, NEW deleted, Updating(job[w]), Overtake(w, mate', deleted),
               NEW v \in Workers
        PROVE  \/ job'[v] = job[v]
               \/ /\ job'[v].pc \notin {"insert", "undo", "store", "insertUrl", "unstore", "erase"}
                  /\ job[v].pc \notin {"insert", "undo", "erase"}
    <3>1. CASE v = w
      BY <2>2, <3>1 DEF Overtake, Idle, Updating
    <3>2. CASE v # w /\ ~Updating(job[v])
      BY <2>2, <3>2 DEF Overtake
    <3>3. CASE v # w /\ Updating(job[v])
      <4>1. job[v] \in UpdateJob
        BY <3>3, Pcs DEF ProfileInv
      <4>2. job'[v].pc = job[v].pc
        BY <2>2, <3>3, <4>1 DEF Overtake, UpdateJob
      <4>3. QED
        BY <3>3, <4>2 DEF Updating
    <3>4. QED
      BY <3>1, <3>2, <3>3
  <2>3. ASSUME NEW w \in Workers, ProfileCall(w), NEW v \in Workers
        PROVE  \/ job'[v] = job[v]
               \/ /\ job'[v].pc \notin {"insert", "undo", "store", "insertUrl", "unstore", "erase"}
                  /\ job[v].pc \notin {"insert", "undo", "erase"}
    <3>1. \E j : /\ job' = [job EXCEPT ![w] = j] /\ job[w] = Idle
                 /\ j.pc \in {"create", "row", "links", "deactivate"}
      <4>1. ASSUME NEW p, NEW d, NEW list, CreateCheck(w, p, d, list)
            PROVE  \E j : /\ job' = [job EXCEPT ![w] = j] /\ job[w] = Idle
                         /\ j.pc \in {"create", "row", "links", "deactivate"}
        <5> DEFINE j == [pc |-> "create", province |-> p, district |-> d, list |-> list]
        <5>1. job' = [job EXCEPT ![w] = j] /\ j.pc = "create" /\ job[w] = Idle
          BY <4>1 DEF CreateCheck, Begin
        <5> HIDE DEF j
        <5>2. QED
          BY <5>1
      <4>2. ASSUME NEW fields, NEW p, NEW d, NEW relink, NEW list,
                   UpdateRead(w, fields, p, d, relink, list)
            PROVE  \E j : /\ job' = [job EXCEPT ![w] = j] /\ job[w] = Idle
                         /\ j.pc \in {"create", "row", "links", "deactivate"}
        <5> DEFINE j == [pc |-> IF fields THEN "row" ELSE "links", fields |-> fields,
                         relink |-> relink, province |-> p, district |-> d, list |-> list,
                         rows |-> {}, holds |-> FALSE, fresh |-> TRUE, alone |-> TRUE]
        <5>1. job' = [job EXCEPT ![w] = j] /\ j.pc \in {"row", "links"} /\ job[w] = Idle
          BY <4>2 DEF UpdateRead, Begin
        <5> HIDE DEF j
        <5>2. QED
          BY <5>1
      <4>3. ASSUME DeactivateRead(w)
            PROVE  \E j : /\ job' = [job EXCEPT ![w] = j] /\ job[w] = Idle
                         /\ j.pc \in {"create", "row", "links", "deactivate"}
        <5> DEFINE j == [pc |-> "deactivate"]
        <5>1. job' = [job EXCEPT ![w] = j] /\ j.pc = "deactivate" /\ job[w] = Idle
          BY <4>3 DEF DeactivateRead, Begin
        <5> HIDE DEF j
        <5>2. QED
          BY <5>1
      <4>4. QED
        BY <2>3, <4>1, <4>2, <4>3 DEF ProfileCall
    <3>2. job[w].pc = "idle"
      BY <3>1 DEF Idle
    <3>3. QED
      BY <3>1, <3>2, <2>1
  <2>4. ASSUME NEW w \in Workers, ProfileStep(w), NEW v \in Workers
        PROVE  \/ job'[v] = job[v]
               \/ /\ job'[v].pc \notin {"insert", "undo", "store", "insertUrl", "unstore", "erase"}
                  /\ job[v].pc \notin {"insert", "undo", "erase"}
    <3>1. CASE Leave(w) /\ job[w].pc \in {"create", "row", "links", "delete", "commit", "deactivate"}
      <4>1. job' = [job EXCEPT ![w] = Idle] /\ Idle.pc = "idle"
        BY <3>1 DEF Leave, Begin, Idle
      <4>2. QED
        BY <2>1, <3>1, <4>1
    <3>2. CASE UpdateLinks(w) \/ UpdateDelete(w) \/ (UpdateRow(w) /\ job[w].relink)
      <4>1. job[w] \in UpdateJob /\ job[w].pc \in {"row", "links", "delete"}
        BY <3>2, Pcs DEF UpdateLinks, UpdateDelete, UpdateRow, At, Updating, ProfileInv
      <4>2. \A x \in Workers : x # w => job'[x] = job[x]
        BY <3>2 DEF UpdateLinks, UpdateDelete, UpdateRow, ProfileInv, JobTypes
      <4>3. job'[w].pc \in {"links", "delete", "commit"}
        BY <3>2, <4>1 DEF UpdateLinks, UpdateDelete, UpdateRow, ProfileInv, JobTypes, UpdateJob
      <4>4. QED
        BY <4>1, <4>2, <4>3
    <3>3. CASE Updating(job[w]) /\ \E deleted : Overtake(w, mate', deleted)
      BY <2>2, <3>3
    <3>4. QED
      BY <2>4, <3>1, <3>2, <3>3
      DEF ProfileStep, CreateCommit, UpdateRow, UpdateCommit, DeactivateWrite, ProfileFail, At,
          Updating
  <2>5. Activate => job' = job
    BY DEF Activate
  <2>6. QED
    BY <2>3, <2>4, <2>5 DEF ProfileNext
<1>2. UNCHANGED <<photo, objects>> /\ leaked' = leaked /\ broken' = broken
  BY DEF galleryVars
<1>3. JobTypes' /\ leaked' \subseteq PhotoIds /\ broken' \subseteq Shown
  BY <1>2 DEF ProfileInv, GalleryInv, GalleryTypes
<1>4. QED
  BY <1>1, <1>2, <1>3, GalleryCalm DEF CalmJob

\* The gallery writes nothing of the profile.
LEMMA GalleryLeavesProfile ==
  ASSUME ProfileInv, GalleryInv, GalleryNext
  PROVE  ProfileInv' /\ links' = links
<1>1. PICK w \in Workers :
        \/ \E upload \in BOOLEAN : AddRead(w, upload)
        \/ AddList(w) \/ Insert(w) \/ InsertFails(w) \/ Undo(w)
        \/ \E id \in PhotoIds : Store(w, id) \/ InsertUrl(w, id) \/ RemoveRead(w, id)
        \/ RemoveObject(w) \/ EraseRow(w) \/ GalleryFail(w)
  BY DEF GalleryNext
<1>2. UNCHANGED <<mate, links>> /\ raced' = raced
  BY <1>1 DEF AddRead, AddList, Insert, InsertFails, Undo, Store, InsertUrl, RemoveRead,
     RemoveObject, EraseRow, GalleryFail, profileVars
<1>3. JobTypes'
  <2>1. GalleryInv'
    BY <1>1, ReadsKeep, InsertsKeep, ObjectKeeps, StoreKeeps, EraseKeeps, FailKeeps
  <2>2. QED
    BY <2>1 DEF GalleryInv
<1>4. (\A v \in Workers : v # w => job'[v] = job[v])
      /\ job'[w].pc \notin {"create", "deactivate", "row", "links", "delete", "commit"}
  <2>1. job \in [Workers -> ProfileJobs \cup GalleryJobs]
    BY DEF ProfileInv, JobTypes
  <2>2. ASSUME NEW j, job' = [job EXCEPT ![w] = j],
               j.pc \notin {"create", "deactivate", "row", "links", "delete", "commit"}
        PROVE  /\ \A v \in Workers : v # w => job'[v] = job[v]
               /\ job'[w].pc \notin {"create", "deactivate", "row", "links", "delete", "commit"}
    BY <2>1, <2>2
  <2>3. Leave(w) => job' = [job EXCEPT ![w] = Idle] /\ Idle.pc = "idle"
    BY DEF Leave, Begin, Idle
  <2>4. CASE Leave(w)
    BY <2>2, <2>3, <2>4
  <2>5. ASSUME NEW j, Begin(w, j),
               j.pc \in {"list", "store", "insertUrl", "insert", "undo", "unstore", "erase"}
        PROVE  /\ \A v \in Workers : v # w => job'[v] = job[v]
               /\ job'[w].pc \notin {"create", "deactivate", "row", "links", "delete", "commit"}
    BY <2>2, <2>5 DEF Begin
  <2>6. CASE \E upload \in BOOLEAN : AddRead(w, upload)
    BY <2>5, <2>6 DEF AddRead
  <2>7. CASE AddList(w) /\ ~Leave(w)
    BY <2>5, <2>7 DEF AddList
  <2>8. CASE (\E id \in PhotoIds : Store(w, id)) /\ ~Leave(w)
    BY <2>5, <2>8 DEF Store
  <2>9. CASE InsertFails(w) \/ RemoveObject(w) \/ \E id \in PhotoIds : RemoveRead(w, id)
    BY <2>5, <2>9 DEF InsertFails, RemoveObject, RemoveRead
  <2>10. QED
    BY <1>1, <2>4, <2>6, <2>7, <2>8, <2>9 DEF Insert, Undo, InsertUrl, EraseRow, GalleryFail
<1>5. ASSUME NEW v \in Workers
      PROVE  GoodJob(job[v])'
  <2>1. CASE v = w
    BY <2>1, <1>4 DEF GoodJob, Updating
  <2>2. CASE v # w
    <3>1. job'[v] = job[v] /\ GoodJob(job[v])
      BY <2>2, <1>4 DEF ProfileInv
    <3>2. QED
      BY <3>1, <1>2 DEF GoodJob, GoodUpdate, Exists
  <2>3. QED
    BY <2>1, <2>2
<1>6. ProfileTypes' /\ LocationNeedsRace'
  BY <1>2 DEF ProfileInv, ProfileTypes, LocationNeedsRace, Exists
<1>7. QED
  BY <1>2, <1>3, <1>5, <1>6 DEF ProfileInv

LEMMA GalleryKeeps == ASSUME GalleryInv, GalleryNext PROVE GalleryInv'
BY ReadsKeep, InsertsKeep, ObjectKeeps, StoreKeeps, EraseKeeps, FailKeeps DEF GalleryNext

LEMMA InvInit == Init => ProfileInv /\ GalleryInv
<1> SUFFICES ASSUME Init PROVE ProfileInv /\ GalleryInv
  OBVIOUS
<1>1. JobTypes /\ \A w \in Workers : job[w].pc = "idle"
  BY IdleIsGood DEF Init, ProfileInit, JobTypes, Idle
<1>2. ProfileTypes /\ LocationNeedsRace
  BY DEF Init, ProfileInit, ProfileTypes, LocationNeedsRace, Exists
<1>3. \A w \in Workers : GoodJob(job[w]) /\ GoodWork(w)
  BY <1>1 DEF GoodJob, Updating, GoodWork, At
<1>4. Shown = {} /\ objects = {}
  BY DEF Init, Shown
<1>5. GalleryTypes /\ Slots /\ UrlsAreOutside /\ PhotosHaveObjects /\ ObjectsHavePhotos
  BY <1>4 DEF Init, GalleryTypes, Slots, UrlsAreOutside, PhotosHaveObjects, ObjectsHavePhotos
<1>6. QED
  BY <1>1, <1>2, <1>3, <1>5 DEF ProfileInv, GalleryInv

LEMMA InvNext ==
  ProfileInv /\ GalleryInv /\ [Next]_vars =>
    /\ ProfileInv' /\ GalleryInv'
    /\ \A w \in Workers : At(w, "commit") /\ job[w].alone /\ job'[w] = Idle /\ links' # links
         => links' = job[w].list
<1> SUFFICES ASSUME ProfileInv, GalleryInv, [Next]_vars
             PROVE  /\ ProfileInv' /\ GalleryInv'
                    /\ \A w \in Workers : At(w, "commit") /\ job[w].alone /\ job'[w] = Idle
                                          /\ links' # links => links' = job[w].list
  OBVIOUS
<1>1. CASE ProfileNext /\ UNCHANGED galleryVars
  <2>1. ProfileInv' /\ \A w \in Workers :
          At(w, "commit") /\ job[w].alone /\ job'[w] = Idle /\ links' # links
            => links' = job[w].list
    BY <1>1, ProfileNextKeeps
  <2>2. QED
    BY <1>1, <2>1, ProfileLeavesGallery
<1>2. CASE GalleryNext
  BY <1>2, GalleryLeavesProfile, GalleryKeeps
<1>3. CASE UNCHANGED vars
  <2>1. UNCHANGED <<photo, objects, leaked, broken>> /\ job' = job
        /\ UNCHANGED <<mate, links, raced>>
    BY <1>3 DEF vars
  <2>2. ProfileInv'
    BY <2>1 DEF ProfileInv, ProfileTypes, JobTypes, LocationNeedsRace, GoodJob, GoodUpdate, Exists
  <2>3. GalleryInv'
    <3>1. JobTypes' /\ leaked' \subseteq PhotoIds /\ broken' \subseteq Shown
      BY <2>1 DEF GalleryInv, GalleryTypes, JobTypes
    <3>2. QED
      BY <2>1, <3>1, GalleryCalm
  <2>4. QED
    BY <2>1, <2>2, <2>3
<1>4. QED
  BY <1>1, <1>2, <1>3 DEF Next

(***************************************************************************)
(* Theorems                                                                *)
(***************************************************************************)

\* Profile and gallery keep their invariants, whatever requests cross and whatever
\* fails (MateProfileService, MateGalleryService).
THEOREM InvariantTheorem == Spec => [](ProfileInv /\ GalleryInv)
<1>1. Init => ProfileInv /\ GalleryInv
  BY InvInit
<1>2. (ProfileInv /\ GalleryInv) /\ [Next]_vars => (ProfileInv /\ GalleryInv)'
  BY InvNext
<1>3. QED
  BY <1>1, <1>2, PTL DEF Spec

\* The tables, the store and the requests have their types.
THEOREM TypeCorrect == Spec => []TypeOK
<1>1. ProfileInv /\ GalleryInv => TypeOK
  BY DEF ProfileInv, ProfileTypes, JobTypes, ProfileRow, GalleryInv, GalleryTypes, TypeOK
<1>2. QED
  BY <1>1, InvariantTheorem, PTL

\* A location is wrong only after two updates that crossed (MateProfileService.update).
THEOREM LocationTheorem == Spec => []LocationNeedsRace
<1>1. ProfileInv /\ GalleryInv => LocationNeedsRace
  BY DEF ProfileInv
<1>2. QED
  BY <1>1, InvariantTheorem, PTL

\* An update that nobody overtook leaves its activities (MateProfileService.update).
THEOREM LinksTheorem == Spec => LinksAreWhole
<1>1. (ProfileInv /\ GalleryInv) /\ [Next]_vars =>
        [\A w \in Workers : At(w, "commit") /\ job[w].alone /\ job'[w] = Idle /\ links' # links
           => links' = job[w].list]_<<mate, links, job, raced>>
  BY InvNext
<1>2. QED
  BY <1>1, InvariantTheorem, PTL DEF Spec, LinksAreWhole

\* No gallery grows beyond its maximum (MateGalleryService.addPhoto).
THEOREM GalleryTheorem == Spec => []GalleryIsBounded
<1>1. ProfileInv /\ GalleryInv => GalleryIsBounded
  BY SlotsBound DEF GalleryInv, Slots, GalleryIsBounded
<1>2. QED
  BY <1>1, InvariantTheorem, PTL

\* However requests cross: the object of an uploaded photo is missing only while a
\* removal is in flight, or after one that failed behind the store
\* (MateGalleryService.removePhoto).
THEOREM PhotosTheorem == Spec => []PhotosHaveObjects
<1>1. ProfileInv /\ GalleryInv => PhotosHaveObjects
  BY DEF GalleryInv
<1>2. QED
  BY <1>1, InvariantTheorem, PTL

\* However requests cross: an object has no row only while its upload is in flight,
\* or after one that failed (MateGalleryService.addPhoto).
THEOREM ObjectsTheorem == Spec => []ObjectsHavePhotos
<1>1. ProfileInv /\ GalleryInv => ObjectsHavePhotos
  BY DEF GalleryInv
<1>2. QED
  BY <1>1, InvariantTheorem, PTL
===============================================================================
