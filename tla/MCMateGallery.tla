--------------------------- MODULE MCMateGallery ---------------------------
(***************************************************************************)
(* A small instance of MateGallery: two provinces of one district, two     *)
(* activities, a gallery of two.                                           *)
(***************************************************************************)
EXTENDS MateGallery, TLC

CONSTANTS i1, i2, i3, w1, w2, p1, p2, d1, d2, a1, a2

MCPhotoIds == {i1, i2, i3}
MCWorkers == {w1, w2}
MCProvinces == {p1, p2}
MCDistricts == {d1, d2}
MCProvinceOf == (d1 :> p1) @@ (d2 :> p2)
MCActivities == {a1, a2}

Relinks(w) == Updating(job[w]) /\ job[w].relink
Stays(w) == job[w].province = Keep /\ job[w].district = Keep

\* Bound: two requests of the profile cross for all its values, except that one which
\* replaces the activities and moves does not cross with a second one that replaces
\* them; requests of the gallery cross with each other and with those that deactivate
\* or activate, for one value of what only the profile reads and writes.
Bound ==
  \/ /\ \A id \in PhotoIds : photo[id] = Unused /\ id \notin objects
     /\ \A w \in Workers : job[w] \in ProfileJobs
     /\ \A w \in Workers : Relinks(w) => Stays(w) \/ \A v \in Workers \ {w} : ~Relinks(v)
  \/ links = {} /\ mate.province = p1 /\ \A w \in Workers : ~Updating(job[w])

Symmetry ==
  Permutations(MCPhotoIds) \cup Permutations(MCWorkers) \cup Permutations(MCActivities)

BoundedSpec == Init /\ [][Next /\ Bound']_vars
===============================================================================
