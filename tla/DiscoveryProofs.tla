---------------------------- MODULE DiscoveryProofs ----------------------------
(***************************************************************************)
(* The public reading of the mates, over any tables of reviews, windows    *)
(* and bookings, while anything happens to them: one review per completed  *)
(* booking, the intervals shown against the times that can be booked and   *)
(* against the filter, what a client that turns the pages of the list has  *)
(* seen, and the average on the list, on a mate's page and on the pages of *)
(* its reviews.                                                            *)
(*                                                                         *)
(* The loops of the source are folds here.  LoopRuns says that a fold has  *)
(* the value of its last turn; what a turn keeps is stated of everything   *)
(* the loop has met (SubtractTurn, VisitTurn, LoopAddsUp).                 *)
(***************************************************************************)
EXTENDS Discovery, FiniteSetTheorems, SequenceTheorems, WellFoundedInduction, TLAPS

\* The types of the tables of Reviews, and what a create in flight has seen.
ReviewTypes ==
  /\ completed \subseteq Bookings
  /\ review \in [ReviewIds -> {Unused, Removed} \cup Rows]
  /\ job \in [Workers -> {Idle} \cup InsertJob \cup EditJob \cup DeleteJob]

CheckedCompleted == \A w \in Workers : At(w, "insert") => job[w].booking \in completed

\* The inductive invariant.
ReviewInv == ReviewTypes /\ CheckedCompleted /\ OneReviewPerBooking

\* As long as an id is left, the next one is unused.
LEMMA NextIdIsUnused ==
  ASSUME \E id \in ReviewIds : review[id] = Unused
  PROVE  NextId \in ReviewIds /\ review[NextId] = Unused
<1> DEFINE Left == {id \in ReviewIds : review[id] = Unused}
<1>1. Left \subseteq Nat /\ Left # {}
  BY ReviewIdsAssumption
<1>2. PICK id \in Left : \A other \in Left : ~(<<other, id>> \in OpToRel(<, Nat))
  BY <1>1, WFMin, NatLessThanWellFounded, Zenon
<1>3. \A x, y \in Nat : x < y => <<x, y>> \in OpToRel(<, Nat)
  <2> SUFFICES ASSUME NEW x \in Nat, NEW y \in Nat, x < y
               PROVE  <<x, y>> \in {ss \in Nat \X Nat : ss[1] < ss[2]}
    BY Zenon DEF OpToRel
  <2> QED
    OBVIOUS
<1>4. \A other \in Left : ~(other < id)
  <2> SUFFICES ASSUME NEW other \in Left PROVE other \in Nat /\ id \in Nat /\ ~(other < id)
    OBVIOUS
  <2>1. other \in Nat /\ id \in Nat
    BY <1>1
  <2> QED
    BY <2>1, <1>2, <1>3, Zenon
<1>5. \A other \in Left : id <= other
  BY <1>1, <1>4
<1>6. QED
  BY <1>5 DEF NextId

\* A row is neither an unused id nor a removed review.
LEMMA RowsAreWritten ==
  ASSUME NEW row \in Rows
  PROVE  row # Unused /\ row # Removed /\ Unused # Removed
BY DEF Rows, Unused, Removed

\* Every request of Reviews keeps the invariant.
LEMMA ReviewStep == ReviewInv /\ [ReviewsNext]_reviewVars => ReviewInv'
<1> SUFFICES ASSUME ReviewInv, [ReviewsNext]_reviewVars
             PROVE  ReviewInv'
  OBVIOUS
<1> USE DEF ReviewInv, ReviewTypes, CheckedCompleted, At
<1>1. ASSUME NEW b \in Bookings, CompleteBooking(b)
      PROVE  ReviewInv'
  BY <1>1 DEF CompleteBooking, OneReviewPerBooking, Written
<1>2. ASSUME NEW w \in Workers, NEW j \in {Idle} \cup InsertJob \cup EditJob \cup DeleteJob,
             j.pc = "insert" => j.booking \in completed,
             Begin(w, j), UNCHANGED <<completed, review>>
      PROVE  ReviewInv'
  BY <1>2 DEF Begin, OneReviewPerBooking, Written
<1>3. ASSUME NEW w \in Workers, NEW b \in Bookings, NEW r \in Ratings, CreateCheck(w, b, r)
      PROVE  ReviewInv'
  BY <1>2, <1>3 DEF CreateCheck, InsertJob
<1>4. ASSUME NEW w \in Workers, NEW id \in ReviewIds, NEW r \in Ratings, UpdateRead(w, id, r)
      PROVE  ReviewInv'
  <2>1. review[id] \in Rows
    BY <1>4 DEF UpdateRead, Written
  <2>2. QED
    BY <1>2, <1>4, <2>1 DEF UpdateRead, EditJob, Rows
<1>5. ASSUME NEW w \in Workers, NEW id \in ReviewIds, RemoveRead(w, id)
      PROVE  ReviewInv'
  BY <1>2, <1>5 DEF RemoveRead, DeleteJob
<1>6. ASSUME NEW w \in Workers, ReviewFail(w)
      PROVE  ReviewInv'
  BY <1>2, <1>6 DEF ReviewFail, Leave, Idle
<1>7. ASSUME NEW w \in Workers, Leave(w), UNCHANGED completed,
             review' \in [ReviewIds -> {Unused, Removed} \cup Rows], OneReviewPerBooking'
      PROVE  ReviewInv'
  BY <1>7 DEF Leave, Begin, Idle
<1>8. ASSUME NEW w \in Workers, CreateInsert(w)
      PROVE  ReviewInv'
  <2> DEFINE row == [booking |-> job[w].booking, rating |-> job[w].rating]
  <2>1. row \in Rows /\ row.booking \in completed
    BY <1>8 DEF CreateInsert, Rows, InsertJob, EditJob, DeleteJob, Idle
  <2>2. CASE Reviewed(job[w].booking)
    BY <1>7, <1>8, <2>2 DEF CreateInsert, OneReviewPerBooking, Written
  <2>3. CASE ~Reviewed(job[w].booking)
    <3>1. NextId \in ReviewIds /\ review[NextId] = Unused
      BY <1>8, NextIdIsUnused DEF CreateInsert
    <3>2. review' = [review EXCEPT ![NextId] = row]
      BY <1>8, <2>3 DEF CreateInsert
    <3>3. Written' = Written \cup {NextId}
      BY <2>1, <3>1, <3>2, RowsAreWritten DEF Written
    <3>4. \A id \in Written : review'[id] = review[id] /\ review[id].booking # row.booking
      BY <2>3, <3>1, <3>2 DEF Written, Reviewed
    <3>5. OneReviewPerBooking'
      BY <1>8, <2>1, <3>1, <3>2, <3>3, <3>4 DEF OneReviewPerBooking, CreateInsert
    <3>6. review' \in [ReviewIds -> {Unused, Removed} \cup Rows]
      BY <2>1, <3>1, <3>2
    <3>7. QED
      BY <1>7, <1>8, <3>5, <3>6 DEF CreateInsert
  <2>4. QED
    BY <2>2, <2>3
<1>9. ASSUME NEW w \in Workers, UpdateWrite(w)
      PROVE  ReviewInv'
  <2>1. job[w].rating \in Ratings /\ job[w].id \in ReviewIds
    BY <1>9 DEF UpdateWrite, InsertJob, EditJob, DeleteJob, Idle
  <2>2. \A id \in Written : review[id] \in Rows
    BY DEF Written
  <2>3. review' \in [ReviewIds -> {Unused, Removed} \cup Rows]
    BY <1>9, <2>1, <2>2 DEF UpdateWrite, Rows
  <2>4. Written' = Written /\ \A id \in Written : review'[id].booking = review[id].booking
    BY <1>9, <2>1, <2>2, RowsAreWritten DEF UpdateWrite, Written, Rows
  <2>5. QED
    BY <1>7, <1>9, <2>3, <2>4 DEF UpdateWrite, OneReviewPerBooking
<1>10. ASSUME NEW w \in Workers, RemoveDelete(w)
       PROVE  ReviewInv'
  <2>1. Written' \subseteq Written /\ \A id \in Written' : review'[id] = review[id]
    BY <1>10 DEF RemoveDelete, Written
  <2>2. review' \in [ReviewIds -> {Unused, Removed} \cup Rows]
    BY <1>10 DEF RemoveDelete
  <2>3. OneReviewPerBooking'
    BY <1>10, <2>1 DEF RemoveDelete, OneReviewPerBooking
  <2>4. QED
    BY <1>7, <1>10, <2>2, <2>3 DEF RemoveDelete
<1>11. CASE UNCHANGED reviewVars
  BY <1>11 DEF reviewVars, OneReviewPerBooking, Written
<1>12. QED
  BY <1>1, <1>3, <1>4, <1>5, <1>6, <1>8, <1>9, <1>10, <1>11 DEF ReviewsNext

\* Nothing else touches the tables of Reviews.
LEMMA NextIsReviewStep == [Next]_vars => [ReviewsNext]_reviewVars
BY DEF Next, vars, reviewVars, ToggleActive, Open, ListMates, ListAnswer

LEMMA ReviewInvInit == Init => ReviewInv
BY DEF Init, ReviewsInit, ReviewInv, ReviewTypes, CheckedCompleted, OneReviewPerBooking,
       Written, At, Idle

\* The invariant holds in every reachable state of Discovery.
LEMMA ReviewInvHolds == Spec => []ReviewInv
<1>1. ReviewInv /\ [Next]_vars => ReviewInv'
  BY ReviewStep, NextIsReviewStep
<1>2. QED
  BY <1>1, ReviewInvInit, PTL DEF Spec

\* A booking has at most one review, and only once it is completed.
THEOREM OneReviewTheorem == Spec => []OneReviewPerBooking
<1>1. ReviewInv => OneReviewPerBooking
  BY DEF ReviewInv
<1>2. QED
  BY <1>1, ReviewInvHolds, PTL

\* A removed review stays removed, and no other ever changes its booking.
THEOREM RemovedTheorem == Spec => RemovedStaysRemoved
<1> DEFINE Kept(id) ==
      /\ review[id] = Removed => review'[id] = Removed
      /\ id \in Written /\ review'[id] # Removed => review'[id].booking = review[id].booking
<1>1. ReviewInv /\ [Next]_vars => [\A id \in ReviewIds : Kept(id)]_review
  <2> SUFFICES ASSUME ReviewInv, [ReviewsNext]_reviewVars, review' # review,
                      NEW id \in ReviewIds
               PROVE  Kept(id)
    BY NextIsReviewStep
  <2>1. PICK w \in Workers : CreateInsert(w) \/ UpdateWrite(w) \/ RemoveDelete(w)
    BY DEF ReviewsNext, reviewVars, CompleteBooking, CreateCheck, UpdateRead, RemoveRead,
           ReviewFail
  <2>2. CASE CreateInsert(w)
    <3>1. NextId \in ReviewIds /\ review[NextId] = Unused
      BY <2>2, NextIdIsUnused DEF CreateInsert
    <3>2. \A other \in ReviewIds \ {NextId} : review'[other] = review[other]
      BY <2>2, <3>1 DEF CreateInsert, ReviewInv, ReviewTypes
    <3>3. Unused # Removed
      BY DEF Unused, Removed
    <3>4. QED
      BY <3>1, <3>2, <3>3 DEF Written
  <2>3. CASE UpdateWrite(w)
    <3>1. \A other \in Written : review[other] \in Rows
      BY DEF Written, ReviewInv, ReviewTypes
    <3>2. QED
      BY <2>3, <3>1 DEF UpdateWrite, Written, Rows, ReviewInv, ReviewTypes
  <2>4. CASE RemoveDelete(w)
    BY <2>4 DEF RemoveDelete, ReviewInv, ReviewTypes
  <2>5. QED
    BY <2>1, <2>2, <2>3, <2>4
<1>2. QED
  BY <1>1, ReviewInvHolds, PTL DEF Spec, RemovedStaysRemoved

(***************************************************************************)
(* Induction, orders and loops.  What a recursion computes follows from    *)
(* the least element of a set of counterexamples (WFMin).                  *)
(***************************************************************************)

\* Induction over the naturals.
LEMMA NatSetInduction ==
  ASSUME NEW N, 0 \in N, \A n \in Nat : n \in N => n + 1 \in N
  PROVE  Nat \subseteq N
<1> DEFINE Rest == Nat \ N
<1> SUFFICES ASSUME Rest # {} PROVE FALSE
  OBVIOUS
<1>1. Rest \subseteq Nat
  OBVIOUS
<1>2. PICK m \in Rest : \A k \in Rest : ~(<<k, m>> \in OpToRel(<, Nat))
  BY <1>1, WFMin, NatLessThanWellFounded, Zenon
<1>3. \A x, y \in Nat : x < y => <<x, y>> \in OpToRel(<, Nat)
  <2> SUFFICES ASSUME NEW x \in Nat, NEW y \in Nat, x < y
               PROVE  <<x, y>> \in {ss \in Nat \X Nat : ss[1] < ss[2]}
    BY Zenon DEF OpToRel
  <2> QED
    OBVIOUS
<1>4. m \in Nat /\ m \notin N
  OBVIOUS
<1>5. m # 0
  BY <1>4
<1>6. m - 1 \in Nat /\ m - 1 < m /\ (m - 1) + 1 = m
  BY <1>4, <1>5
<1>7. m - 1 \in N
  <2> SUFFICES ASSUME m - 1 \notin N PROVE FALSE
    OBVIOUS
  <2>1. m - 1 \in Rest
    BY <1>6
  <2> QED
    BY <2>1, <1>2, <1>3, <1>4, <1>6, Zenon
<1> QED
  BY <1>4, <1>6, <1>7

\* Induction over the subsets of a finite set, from those with an element less.
LEMMA RemovalInduction ==
  ASSUME NEW S, IsFiniteSet(S), NEW Good, {} \in Good,
         \A T \in SUBSET S : T # {} /\ (\A x \in T : T \ {x} \in Good) => T \in Good
  PROVE  \A T \in SUBSET S : T \in Good
<1> DEFINE N == {n \in Nat : \A T \in SUBSET S : Cardinality(T) = n => T \in Good}
<1>1. \A T \in SUBSET S : IsFiniteSet(T) /\ Cardinality(T) \in Nat
  BY FS_Subset, FS_CardinalityType
<1>2. 0 \in N
  BY <1>1, FS_EmptySet
<1>3. ASSUME NEW n \in Nat, n \in N
      PROVE  n + 1 \in N
  <2> SUFFICES ASSUME NEW T \in SUBSET S, Cardinality(T) = n + 1
               PROVE  T \in Good
    BY <1>3
  <2>1. IsFiniteSet(T) /\ T # {}
    BY <1>1, <1>3, FS_EmptySet
  <2>2. ASSUME NEW x \in T PROVE T \ {x} \in Good
    <3>1. Cardinality(T \ {x}) = Cardinality(T) - 1
      BY <2>1, FS_RemoveElement
    <3>2. Cardinality(T \ {x}) = n
      BY <3>1
    <3> QED
      BY <1>3, <3>2
  <2> QED
    BY <2>1, <2>2
<1> HIDE DEF N
<1>4. Nat \subseteq N
  BY <1>2, <1>3, NatSetInduction
<1> QED
  BY <1>1, <1>4 DEF N

\* A list that before allows to sort: whoever is not before another is not after a third
\* that the other is not after.
Sortable(S, before) ==
  /\ \A x, y \in S : <<x, y>> \in before => <<y, x>> \notin before
  /\ \A x, y, z \in S : <<x, z>> \in before => <<x, y>> \in before \/ <<y, z>> \in before

SortsTo(S, before, seq) ==
  /\ seq \in [1..Cardinality(S) -> S]
  /\ \A x \in S : \E i \in 1..Cardinality(S) : seq[i] = x
  /\ \A i, j \in 1..Cardinality(S) : i < j => <<seq[j], seq[i]>> \notin before

LEMMA SortedExists ==
  ASSUME NEW S, IsFiniteSet(S), NEW before, Sortable(S, before)
  PROVE  \E seq : SortsTo(S, before, seq)
<1> DEFINE Good == {T \in SUBSET S : \E seq : SortsTo(T, before, seq)}
<1>1. \A T \in SUBSET S : IsFiniteSet(T) /\ Cardinality(T) \in Nat
  BY FS_Subset, FS_CardinalityType
<1>2. {} \in Good
  <2>1. Cardinality({}) = 0 /\ 1..0 = {}
    BY FS_EmptySet
  <2>2. SortsTo({}, before, [i \in {} |-> 0])
    BY <2>1 DEF SortsTo
  <2> QED
    BY <2>2
<1>3. ASSUME NEW T \in SUBSET S, T # {}, \A x \in T : T \ {x} \in Good
      PROVE  T \in Good
\* Some element may come last.
  <2>1. PICK x \in T : \A y \in T : <<x, y>> \notin before
    <3>1. PICK p \in T : TRUE
      BY <1>3
    <3>2. CASE T \ {p} = {}
      <4>1. <<p, p>> \notin before /\ T = {p}
        BY <3>1, <3>2 DEF Sortable
      <4> QED
        BY <4>1
    <3>3. CASE T \ {p} # {}
      <4> DEFINE U == T \ {p}
                 n == Cardinality(U)
      <4>1. PICK seq : SortsTo(U, before, seq)
        BY <1>3, <3>1
      <4>2. n \in Nat /\ n # 0
        BY <1>1, <3>3, FS_EmptySet
      <4> HIDE DEF n
      <4>3. n \in 1..n
        BY <4>2
      <4>4. seq[n] \in U /\ \A y \in U : y # seq[n] => <<seq[n], y>> \notin before
        <5>1. seq[n] \in U
          BY <4>1, <4>3 DEF SortsTo, n
        <5>2. ASSUME NEW y \in U, y # seq[n] PROVE <<seq[n], y>> \notin before
          <6>1. PICK i \in 1..n : seq[i] = y
            BY <4>1 DEF SortsTo, n
          <6>2. i < n
            BY <4>2, <5>2, <6>1
          <6> QED
            BY <4>1, <4>3, <6>1, <6>2 DEF SortsTo, n
        <5> QED
          BY <5>1, <5>2
      <4>5. PICK m \in U : \A y \in U : <<m, y>> \notin before
        <5>1. <<seq[n], seq[n]>> \notin before
          BY <4>4 DEF Sortable
        <5> QED
          BY <4>4, <5>1
      <4>6. CASE <<m, p>> \in before
        <5>1. <<p, m>> \notin before /\ <<p, p>> \notin before
          BY <3>1, <4>5, <4>6 DEF Sortable
        <5>2. \A y \in U : <<p, y>> \notin before
          BY <3>1, <4>5, <5>1 DEF Sortable
        <5> QED
          BY <3>1, <5>1, <5>2
      <4>7. CASE <<m, p>> \notin before
        BY <3>1, <4>5, <4>7
      <4> QED
        BY <4>6, <4>7
    <3> QED
      BY <3>2, <3>3
  <2> DEFINE U == T \ {x}
             n == Cardinality(U)
  <2>2. PICK seq : SortsTo(U, before, seq)
    BY <1>3, <2>1
  <2>3. n \in Nat /\ Cardinality(T) = n + 1
    <3>1. Cardinality(U) = Cardinality(T) - 1
      BY <1>1, <2>1, FS_RemoveElement
    <3> QED
      BY <1>1, <3>1
  <2> HIDE DEF n
  <2> DEFINE long == [i \in 1..n + 1 |-> IF i = n + 1 THEN x ELSE seq[i]]
  <2>4. \A i \in 1..n : seq[i] \in U /\ long[i] = seq[i]
    <3>1. seq \in [1..n -> U]
      BY <2>2 DEF SortsTo, n
    <3>2. \A i \in 1..n : i \in 1..n + 1 /\ i # n + 1
      BY <2>3
    <3> QED
      BY <3>1, <3>2
  <2>5. long[n + 1] = x
    BY <2>3
  <2>6. long \in [1..n + 1 -> T]
    <3>1. \A i \in 1..n + 1 : i = n + 1 \/ i \in 1..n
      BY <2>3
    <3>2. \A i \in 1..n + 1 : long[i] \in T
      BY <2>1, <2>4, <2>5, <3>1
    <3> QED
      BY <3>2
  <2>7. \A y \in T : \E i \in 1..n + 1 : long[i] = y
    <3> SUFFICES ASSUME NEW y \in T, y # x PROVE \E i \in 1..n + 1 : long[i] = y
      BY <2>3, <2>5
    <3>1. PICK i \in 1..n : seq[i] = y
      BY <2>2 DEF SortsTo, n
    <3> QED
      BY <2>3, <2>4, <3>1
  <2>8. \A i, j \in 1..n + 1 : i < j => <<long[j], long[i]>> \notin before
    <3> SUFFICES ASSUME NEW i \in 1..n + 1, NEW j \in 1..n + 1, i < j
                 PROVE  <<long[j], long[i]>> \notin before
      OBVIOUS
    <3>1. i \in 1..n /\ long[i] \in T
      <4>1. i \in 1..n
        BY <2>3
      <4> QED
        BY <2>6, <4>1
    <3>2. CASE j = n + 1
      BY <2>1, <2>5, <3>1, <3>2
    <3>3. CASE j # n + 1
      <4>1. j \in 1..n
        BY <2>3, <3>3
      <4> QED
        BY <2>2, <2>4, <3>1, <4>1 DEF SortsTo, n
    <3> QED
      BY <3>2, <3>3
  <2> HIDE DEF long
  <2>9. SortsTo(T, before, long)
    BY <2>3, <2>6, <2>7, <2>8 DEF SortsTo
  <2> QED
    BY <2>9
<1> HIDE DEF Good
<1>4. \A T \in SUBSET S : T \in Good
  BY <1>2, <1>3, RemovalInduction
<1>5. S \in Good
  BY <1>4
<1> QED
  BY <1>5 DEF Good

\* What sort returns.
LEMMA SortedIs ==
  ASSUME NEW S, IsFiniteSet(S), NEW before, Sortable(S, before)
  PROVE  SortsTo(S, before, Sorted(S, before))
<1> DEFINE n == Cardinality(S)
           Is(seq) == Arranges(seq, S, before)
<1>1. PICK seq : SortsTo(S, before, seq)
  BY SortedExists
<1>2. \E s \in [1..n -> S] : Is(s)
  <2>1. seq \in [1..n -> S] /\ DOMAIN seq = 1..n
    BY <1>1 DEF SortsTo
  <2> QED
    BY <1>1, <2>1 DEF SortsTo, Arranges
<1>3. Sorted(S, before) = CHOOSE s \in [1..n -> S] : Is(s)
  BY Zenon DEF Sorted
<1>4. Sorted(S, before) \in [1..n -> S] /\ Is(Sorted(S, before))
  BY <1>2, <1>3, Zenon
<1>5. DOMAIN Sorted(S, before) = 1..n
  BY <1>4
<1> QED
  BY <1>4, <1>5 DEF SortsTo, Arranges

\* Every sorting is one.
LEMMA SortingIs ==
  ASSUME NEW S, NEW before, NEW seq \in Sortings(S, before)
  PROVE  SortsTo(S, before, seq)
<1>1. seq \in [1..Cardinality(S) -> S] /\ Arranges(seq, S, before)
  BY DEF Sortings
<1>2. DOMAIN seq = 1..Cardinality(S)
  BY <1>1
<1> QED
  BY <1>1, <1>2 DEF SortsTo, Arranges

LEMMA MaxIs ==
  ASSUME NEW S, IsFiniteSet(S), S \subseteq Nat, S # {}
  PROVE  Max(S) \in S /\ \A y \in S : y <= Max(S)
<1> DEFINE Good == {T \in SUBSET S : T # {} => \E x \in T : \A y \in T : x >= y}
<1>1. {} \in Good
  OBVIOUS
<1>2. ASSUME NEW T \in SUBSET S, T # {}, \A x \in T : T \ {x} \in Good
      PROVE  T \in Good
  <2>1. PICK p \in T : TRUE
    BY <1>2
  <2>2. CASE T \ {p} = {}
    BY <2>1, <2>2
  <2>3. CASE T \ {p} # {}
    <3>1. PICK m \in T \ {p} : \A y \in T \ {p} : m >= y
      BY <1>2, <2>1, <2>3
    <3>2. CASE m >= p
      BY <3>1, <3>2
    <3>3. CASE ~(m >= p)
      <4>1. \A y \in T : y \in Nat
        OBVIOUS
      <4>2. \A y \in T : p >= y
        BY <2>1, <3>1, <3>3, <4>1
      <4> QED
        BY <4>2
    <3> QED
      BY <3>2, <3>3
  <2> QED
    BY <2>2, <2>3
<1> HIDE DEF Good
<1>3. \A T \in SUBSET S : T \in Good
  BY <1>1, <1>2, RemovalInduction
<1>4. \E x \in S : \A y \in S : x >= y
  BY <1>3 DEF Good
<1>5. Max(S) \in S /\ \A y \in S : Max(S) >= y
  BY <1>4, Zenon DEF Max
<1> QED
  BY <1>5

\* The loops of the three readings, by the element that a turn looks at: those of
\* subtractIntervals, of hasOpenWindow and of averageRating.
Turn(loop, slot, at, x) ==
  IF loop = "subtract" THEN Subtract(slot, at, x)
  ELSE IF loop = "visit" THEN Visit(slot, at, x) ELSE at + review[x].rating

\* One round of the recursion that a loop stands for.
Turns(loop, slot, base, seq, g) ==
  [s \in SUBSET DOMAIN seq |->
     IF s = {} THEN base ELSE Turn(loop, slot, g[s \ {Max(s)}], seq[Max(s)])]

\* The recursion has a solution: after as many rounds as there are elements.
LEMMA TurnsExist ==
  ASSUME NEW loop, NEW slot, NEW base, NEW seq, NEW n \in Nat, DOMAIN seq = 1..n
  PROVE  \E g : g = Turns(loop, slot, base, seq, g)
<1> DEFINE S == DOMAIN seq
           Once(g) == Turns(loop, slot, base, seq, g)
           Solves(g, k) == \A s \in SUBSET S : Cardinality(s) <= k => g[s] = Once(g)[s]
           N == {k \in Nat : \E g : Solves(g, k)}
<1>0. IsFiniteSet(S) /\ S \subseteq Nat
  BY FS_Interval
<1>1. \A s \in SUBSET S : IsFiniteSet(s) /\ Cardinality(s) \in Nat /\ (Cardinality(s) = 0 <=> s = {})
  BY <1>0, FS_Subset, FS_CardinalityType, FS_EmptySet
<1>2. ASSUME NEW s \in SUBSET S, s # {}
      PROVE  /\ s \ {Max(s)} \in SUBSET S
             /\ Cardinality(s \ {Max(s)}) = Cardinality(s) - 1
  <2>1. Max(s) \in s
    BY <1>0, <1>1, <1>2, MaxIs
  <2> QED
    BY <1>1, <2>1, FS_RemoveElement
<1>3. ASSUME NEW g, NEW k \in Nat, Solves(g, k), NEW s \in SUBSET S, Cardinality(s) <= k + 1
      PROVE  Once(g)[s] = Once(Once(g))[s]
  <2>1. CASE s = {}
    BY <2>1 DEF Turns
  <2>2. CASE s # {}
    <3>1. s \ {Max(s)} \in SUBSET S /\ Cardinality(s \ {Max(s)}) <= k
      BY <1>1, <1>2, <1>3, <2>2
    <3>2. g[s \ {Max(s)}] = Once(g)[s \ {Max(s)}]
      BY <1>3, <3>1
    <3>3. \A h : Turns(loop, slot, base, seq, h)[s] = Turn(loop, slot, h[s \ {Max(s)}], seq[Max(s)])
      BY <2>2 DEF Turns
    <3> QED
      BY <3>2, <3>3
  <2> QED
    BY <2>1, <2>2
<1>4. 0 \in N
  <2> DEFINE g == Once(seq)
  <2>1. Solves(g, 0)
    <3> SUFFICES ASSUME NEW s \in SUBSET S, Cardinality(s) <= 0
                 PROVE  g[s] = Once(g)[s]
      OBVIOUS
    <3>1. s = {}
      BY <1>1
    <3> QED
      BY <3>1 DEF Turns
  <2> HIDE DEF g
  <2> QED
    BY <2>1
<1>5. ASSUME NEW k \in Nat, k \in N PROVE k + 1 \in N
  <2>1. PICK g : Solves(g, k)
    BY <1>5
  <2> DEFINE h == Once(g)
  <2>2. Solves(h, k + 1)
    BY <1>3, <2>1
  <2> HIDE DEF h
  <2> QED
    BY <2>2
<1>6. PICK g : Solves(g, Cardinality(S))
  <2> HIDE DEF N
  <2>1. Nat \subseteq N
    BY <1>4, <1>5, NatSetInduction
  <2> QED
    BY <1>1, <2>1 DEF N
<1> DEFINE h == Once(g)
<1>7. \A s \in SUBSET S : Cardinality(s) <= Cardinality(S) + 1
  <2>1. \A s \in SUBSET S : Cardinality(s) <= Cardinality(S)
    BY <1>0, FS_Subset
  <2> QED
    BY <1>1, <2>1
<1>8. \A s \in SUBSET S : h[s] = Once(h)[s]
  BY <1>1, <1>3, <1>6, <1>7
<1>9. h = [s \in SUBSET S |-> h[s]] /\ Once(h) = [s \in SUBSET S |-> Once(h)[s]]
  BY DEF Turns
<1> HIDE DEF h
<1>10. h = Once(h)
  BY <1>8, <1>9
<1> QED
  BY <1>10

Loop(loop, slot, base, seq) ==
  (CHOOSE g : g = Turns(loop, slot, base, seq, g))[DOMAIN seq]

Runs(loop, slot, base, seq, n, run) ==
  /\ run[0] = base
  /\ \A i \in 1..n : run[i] = Turn(loop, slot, run[i - 1], seq[i])
  /\ run[n] = Loop(loop, slot, base, seq)

\* What a loop returns is what its turns lead to, one after the other.
LEMMA LoopRuns ==
  ASSUME NEW loop, NEW slot, NEW base, NEW seq, NEW n \in Nat, DOMAIN seq = 1..n
  PROVE  \E run : Runs(loop, slot, base, seq, n, run)
<1> DEFINE it == CHOOSE g : g = Turns(loop, slot, base, seq, g)
           run == [i \in 0..n |-> it[1..i]]
<1>1. it = Turns(loop, slot, base, seq, it)
  BY TurnsExist
<1> HIDE DEF it
<1>2. run[0] = base
  <2>1. 1..0 = {} /\ {} \in SUBSET DOMAIN seq
    OBVIOUS
  <2>2. run[0] = it[{}]
    BY <2>1
  <2> QED
    BY <1>1, <2>1, <2>2 DEF Turns
<1>3. ASSUME NEW i \in 1..n
      PROVE  run[i] = Turn(loop, slot, run[i - 1], seq[i])
  <2> DEFINE s == 1..i
  <2>1. s \in SUBSET DOMAIN seq /\ s # {} /\ s \subseteq Nat /\ IsFiniteSet(s)
    <3>1. 1 \in Int /\ i \in Int /\ i \in s
      OBVIOUS
    <3>2. IsFiniteSet(s)
      BY <3>1, FS_Interval
    <3>3. s \in SUBSET DOMAIN seq /\ s \subseteq Nat
      OBVIOUS
    <3> QED
      BY <3>1, <3>2, <3>3
  <2>2. Max(s) = i
    <3>1. Max(s) \in s /\ \A y \in s : y <= Max(s)
      BY <2>1, MaxIs
    <3>2. i \in s
      OBVIOUS
    <3> QED
      BY <3>1, <3>2
  <2>3. s \ {i} = 1..i - 1 /\ i - 1 \in 0..n /\ i \in 0..n
    OBVIOUS
  <2>4. it[s] = Turn(loop, slot, it[s \ {Max(s)}], seq[Max(s)])
    BY <1>1, <2>1 DEF Turns
  <2>5. run[i] = it[s] /\ run[i - 1] = it[1..i - 1]
    BY <2>3
  <2> QED
    BY <2>2, <2>3, <2>4, <2>5
<1>4. run[n] = Loop(loop, slot, base, seq)
  BY DEF Loop, it
<1> HIDE DEF run
<1>5. Runs(loop, slot, base, seq, n, run)
  BY <1>2, <1>3, <1>4 DEF Runs
<1> QED
  BY <1>5

LEMMA FoldsAreLoops ==
  ASSUME NEW slot, NEW base, NEW seq
  PROVE  /\ FoldLeft(LAMBDA s, b : Subtract(slot, s, b), base, seq)
              = Loop("subtract", slot, base, seq)
         /\ FoldLeft(LAMBDA a, b : Visit(slot, a, b), base, seq) = Loop("visit", slot, base, seq)
         /\ FoldLeft(LAMBDA total, id : total + review[id].rating, base, seq)
              = Loop("add", slot, base, seq)
<1>1. FoldLeft(LAMBDA s, b : Subtract(slot, s, b), base, seq) = Loop("subtract", slot, base, seq)
  BY Zenon DEF FoldLeft, MapThenFoldSet, Loop, Turns, Turn
<1>2. FoldLeft(LAMBDA a, b : Visit(slot, a, b), base, seq) = Loop("visit", slot, base, seq)
  <2>1. "visit" # "subtract"
    OBVIOUS
  <2> QED
    BY <2>1, Zenon DEF FoldLeft, MapThenFoldSet, Loop, Turns, Turn
<1>3. FoldLeft(LAMBDA total, id : total + review[id].rating, base, seq)
        = Loop("add", slot, base, seq)
  <2>1. "add" # "subtract" /\ "add" # "visit"
    OBVIOUS
  <2> QED
    BY <2>1, Zenon DEF FoldLeft, MapThenFoldSet, Loop, Turns, Turn
<1> QED
  BY <1>1, <1>2, <1>3, Zenon


(***************************************************************************)
(* A mate's day                                                            *)
(***************************************************************************)

Inside(r, slot) == r.start >= slot.start /\ r.end <= slot.end
FreeOf(r, bookings) == \A b \in bookings : ~Overlaps(b, r)

SlotTypes == weekly \subseteq Interval /\ booked \subseteq Interval /\ IsFiniteSet(booked)

LEMMA Intervals ==
  /\ \A i \in Interval : i.start \in Int /\ i.end \in Int /\ i.start < i.end
  /\ \A from, to \in 0..Horizon : from < to => [start |-> from, end |-> to] \in Interval
  /\ \A i \in Interval : i.start \in 0..Horizon /\ i.end \in 0..Horizon
<1>1. Horizon \in Nat
  BY SlotsAssumption
<1> QED
  BY <1>1 DEF Interval

\* The bookings that both loops go over, in order.
LEMMA StartsInOrder ==
  ASSUME NEW S, IsFiniteSet(S), S \subseteq Interval
  PROVE  \E n \in Nat :
           /\ n = Cardinality(S) /\ DOMAIN ByStart(S) = 1..n
           /\ \A i \in 1..n : ByStart(S)[i] \in S
           /\ \A b \in S : \E i \in 1..n : ByStart(S)[i] = b
           /\ \A i, j \in 1..n : i <= j => ByStart(S)[i].start <= ByStart(S)[j].start
<1> DEFINE before == {p \in S \X S : p[1].start < p[2].start}
           n == Cardinality(S)
           seq == ByStart(S)
<1>1. \A x, y \in S : <<x, y>> \in before <=> x.start < y.start
  OBVIOUS
<1>2. \A x \in S : x.start \in Int
  BY Intervals
<1>3. Sortable(S, before)
  <2> HIDE DEF before
  <2> QED
    BY <1>1, <1>2 DEF Sortable
<1>4. seq = Sorted(S, before)
  BY DEF ByStart
<1> HIDE DEF before, seq
<1>5. SortsTo(S, before, seq)
  BY <1>3, <1>4, SortedIs
<1>6. n \in Nat /\ DOMAIN seq = 1..n /\ \A i \in 1..n : seq[i] \in S
  BY <1>5, FS_CardinalityType DEF SortsTo
<1>7. \A b \in S : \E i \in 1..n : seq[i] = b
  BY <1>5 DEF SortsTo
<1>8. ASSUME NEW i \in 1..n, NEW j \in 1..n, i <= j
      PROVE  seq[i].start <= seq[j].start
  <2>1. CASE i = j
    BY <1>2, <1>6, <2>1
  <2>2. CASE i < j
    <3>1. <<seq[j], seq[i]>> \notin before
      BY <1>5, <2>2 DEF SortsTo
    <3> QED
      BY <1>1, <1>2, <1>6, <3>1
  <2> QED
    BY <1>6, <1>8, <2>1, <2>2
<1> QED
  BY <1>6, <1>7, <1>8 DEF seq

(***************************************************************************)
(* subtractIntervals                                                       *)
(***************************************************************************)

\* After i bookings: what is open is in the window and free; the bookings that were
\* seen end before the cursor or stick out; and whatever is free is in what is open or
\* after the cursor.
Subtracted(window, seq, n, at, i) ==
  /\ at.cursor \in window.start..window.end
  /\ at.open \subseteq Interval
  /\ \A o \in at.open : Inside(o, window) /\ \A k \in 1..n : ~Overlaps(seq[k], o)
  /\ \A k \in 1..i : seq[k].end <= at.cursor \/ at.cursor = window.end
  /\ \A r \in Interval : Inside(r, window) /\ (\A k \in 1..n : ~Overlaps(seq[k], r)) =>
       r.start >= at.cursor \/ \E o \in at.open : Inside(r, o)

LEMMA SubtractTurn ==
  ASSUME NEW window \in Interval, NEW n \in Nat, NEW seq, \A k \in 1..n : seq[k] \in Interval,
         \A k \in 1..n : Overlaps(seq[k], window),
         \A j, k \in 1..n : j <= k => seq[j].start <= seq[k].start,
         NEW i \in 1..n, NEW at, Subtracted(window, seq, n, at, i - 1)
  PROVE  Subtracted(window, seq, n, Subtract(window, at, seq[i]), i)
<1> DEFINE b == seq[i]
           to == Greater(window.start, b.start)
           ends == Smaller(window.end, b.end)
           next == Subtract(window, at, b)
<1>1. /\ window.start \in 0..Horizon /\ window.end \in 0..Horizon /\ window.start < window.end
      /\ b.start \in Int /\ b.end \in Int /\ b.start < b.end
      /\ b.start < window.end /\ b.end > window.start
      /\ Horizon \in Nat
  BY Intervals, SlotsAssumption DEF Overlaps
<1>2. at.cursor \in window.start..window.end /\ at.cursor \in 0..Horizon
  BY <1>1 DEF Subtracted
<1>3. next.open = at.open \cup Gap(at.cursor, to) /\ next.cursor = Greater(at.cursor, ends)
  BY DEF Subtract
<1>4. /\ to \in 0..Horizon /\ to < window.end /\ to >= b.start
      /\ at.cursor < to => to = b.start
  BY <1>1, <1>2 DEF Greater
<1>5. /\ next.cursor \in window.start..window.end /\ next.cursor >= at.cursor
      /\ b.end <= next.cursor \/ next.cursor = window.end
      /\ next.cursor = at.cursor \/ next.cursor <= b.end
  BY <1>1, <1>2, <1>3 DEF Greater, Smaller
<1> HIDE DEF b, to, ends, next
\* The gap before the booking.
<1>6. ASSUME NEW o \in Gap(at.cursor, to)
      PROVE  /\ o \in Interval /\ o.start = at.cursor /\ o.end = to
             /\ Inside(o, window) /\ \A k \in 1..n : ~Overlaps(seq[k], o)
  <2>1. at.cursor < to /\ o = [start |-> at.cursor, end |-> to]
    BY <1>6 DEF Gap
  <2>2. o \in Interval /\ o.start = at.cursor /\ o.end = to
    BY <1>2, <1>4, <2>1, Intervals
  <2>3. Inside(o, window)
    BY <1>1, <1>2, <1>4, <2>2 DEF Inside
  <2>4. ASSUME NEW k \in 1..n
        PROVE  ~Overlaps(seq[k], o)
    <3>1. seq[k].start \in Int /\ seq[k].end \in Int
      BY Intervals
    <3>2. CASE k <= i - 1
      <4>1. k \in 1..i - 1
        BY <3>2
      <4>2. seq[k].end <= at.cursor
        BY <1>1, <1>2, <1>4, <2>1, <4>1 DEF Subtracted
      <4> QED
        BY <1>2, <2>2, <3>1, <4>2 DEF Overlaps
    <3>3. CASE i <= k
      <4>1. to <= seq[k].start
        BY <1>4, <2>1, <3>3 DEF b
      <4> QED
        BY <1>4, <2>2, <3>1, <4>1 DEF Overlaps
    <3> QED
      BY <3>2, <3>3
  <2> QED
    BY <2>2, <2>3, <2>4
<1>7. \A k \in 1..i : seq[k].end <= next.cursor \/ next.cursor = window.end
  <2> SUFFICES ASSUME NEW k \in 1..i PROVE seq[k].end <= next.cursor \/ next.cursor = window.end
    OBVIOUS
  <2>1. CASE k = i
    BY <1>5, <2>1 DEF b
  <2>2. CASE k # i
    <3>1. k \in 1..i - 1 /\ k \in 1..n
      BY <2>2
    <3>2. seq[k].end \in Int
      BY <3>1, Intervals
    <3>3. seq[k].end <= at.cursor \/ at.cursor = window.end
      BY <3>1 DEF Subtracted
    <3> QED
      BY <1>1, <1>2, <1>5, <3>2, <3>3
  <2> QED
    BY <2>1, <2>2
<1>8. ASSUME NEW r \in Interval, Inside(r, window), \A k \in 1..n : ~Overlaps(seq[k], r)
      PROVE  r.start >= next.cursor \/ \E o \in next.open : Inside(r, o)
  <2>1. r.start \in Int /\ r.end \in Int /\ r.start < r.end /\ r.end <= window.end
    BY <1>8, Intervals DEF Inside
  <2>2. CASE \E o \in at.open : Inside(r, o)
    BY <1>3, <2>2
  <2>3. CASE r.start >= at.cursor
    <3>1. r.end <= b.start \/ r.start >= b.end
      BY <1>1, <1>8, <2>1 DEF Overlaps, b
    <3>2. CASE r.end <= b.start
      <4>1. at.cursor < to /\ r.end <= to
        BY <1>1, <1>2, <1>4, <2>1, <2>3, <3>2
      <4>2. [start |-> at.cursor, end |-> to] \in next.open
        BY <1>3, <4>1 DEF Gap
      <4>3. Inside(r, [start |-> at.cursor, end |-> to])
        BY <2>3, <4>1 DEF Inside
      <4> QED
        BY <4>2, <4>3
    <3>3. CASE r.start >= b.end
      BY <1>1, <1>2, <1>5, <2>1, <2>3, <3>3
    <3> QED
      BY <3>1, <3>2, <3>3
  <2> QED
    BY <1>8, <2>2, <2>3 DEF Subtracted
<1>9. next.open \subseteq Interval
      /\ \A o \in next.open : Inside(o, window) /\ \A k \in 1..n : ~Overlaps(seq[k], o)
  BY <1>3, <1>6 DEF Subtracted
<1>10. Subtracted(window, seq, n, next, i)
  BY <1>5, <1>7, <1>8, <1>9 DEF Subtracted
<1> QED
  BY <1>10 DEF next, b

\* What is left of a window is what is free in it.
LEMMA SubtractIs ==
  ASSUME SlotTypes, NEW window \in Interval
  PROVE  /\ SubtractIntervals(window) \subseteq Interval
         /\ \A r \in Interval :
              Inside(r, window) /\ FreeOf(r, booked)
                <=> \E o \in SubtractIntervals(window) : Inside(r, o)
<1> DEFINE blocking == {b \in booked : Overlaps(b, window)}
           seq == ByStart(blocking)
           base == [open |-> {}, cursor |-> window.start]
           seen == Loop("subtract", window, base, seq)
<1>1. IsFiniteSet(blocking) /\ blocking \subseteq Interval
  BY FS_Subset DEF SlotTypes
<1>2. PICK n \in Nat :
        /\ DOMAIN seq = 1..n
        /\ \A i \in 1..n : seq[i] \in blocking
        /\ \A b \in blocking : \E i \in 1..n : seq[i] = b
        /\ \A i, j \in 1..n : i <= j => seq[i].start <= seq[j].start
  BY <1>1, StartsInOrder
<1>3. SubtractIntervals(window) = seen.open \cup Gap(seen.cursor, window.end)
  BY FoldsAreLoops, Zenon DEF SubtractIntervals
<1>4. PICK run : /\ run[0] = base
                 /\ \A i \in 1..n : run[i] = Turn("subtract", window, run[i - 1], seq[i])
                 /\ run[n] = seen
  <2>1. DOMAIN seq = 1..n
    BY <1>2
  <2> HIDE DEF base, seq
  <2>2. PICK run : Runs("subtract", window, base, seq, n, run)
    BY <2>1, LoopRuns
  <2> QED
    BY <2>2 DEF Runs
<1>5. /\ window.start \in 0..Horizon /\ window.end \in 0..Horizon /\ window.start < window.end
      /\ Horizon \in Nat
  BY Intervals, SlotsAssumption
<1>6. \A k \in 1..n : seq[k] \in Interval /\ Overlaps(seq[k], window)
  BY <1>1, <1>2
<1> DEFINE N == {i \in Nat : i <= n => Subtracted(window, seq, n, run[i], i)}
<1> HIDE DEF seq, seen
<1>7. 0 \in N
  <2>1. run[0].open = {} /\ run[0].cursor = window.start
    BY <1>4
  <2>2. Subtracted(window, seq, n, run[0], 0)
    BY <1>5, <2>1 DEF Subtracted, Inside
  <2> QED
    BY <2>2
<1>8. ASSUME NEW i \in Nat, i \in N PROVE i + 1 \in N
  <2> SUFFICES ASSUME i + 1 <= n PROVE Subtracted(window, seq, n, run[i + 1], i + 1)
    OBVIOUS
  <2> DEFINE j == i + 1
  <2>1. j \in 1..n /\ j - 1 = i /\ i <= n
    OBVIOUS
  <2> HIDE DEF j
  <2>2. run[j] = Subtract(window, run[j - 1], seq[j])
    BY <1>4, <2>1 DEF Turn
  <2>3. Subtracted(window, seq, n, run[j - 1], j - 1)
    BY <1>8, <2>1
  <2>4. Subtracted(window, seq, n, Subtract(window, run[j - 1], seq[j]), j)
    BY <1>2, <1>6, <2>1, <2>3, SubtractTurn
  <2> QED
    BY <2>2, <2>4 DEF j
<1>9. Subtracted(window, seq, n, seen, n)
  <2> HIDE DEF N
  <2>1. n \in N
    BY <1>7, <1>8, NatSetInduction
  <2> QED
    BY <1>4, <2>1 DEF N
\* The gap after the last booking.
<1>10. ASSUME NEW o \in Gap(seen.cursor, window.end)
       PROVE  /\ o \in Interval /\ Inside(o, window)
              /\ \A k \in 1..n : ~Overlaps(seq[k], o)
  <2>1. seen.cursor < window.end /\ o = [start |-> seen.cursor, end |-> window.end]
    BY <1>10 DEF Gap
  <2>2. seen.cursor \in window.start..window.end /\ seen.cursor \in 0..Horizon
    BY <1>5, <1>9 DEF Subtracted
  <2>3. o \in Interval /\ o.start = seen.cursor /\ o.end = window.end
    BY <1>5, <2>1, <2>2, Intervals
  <2>4. \A k \in 1..n : seq[k].end <= seen.cursor /\ seq[k].end \in Int
    BY <1>5, <1>6, <1>9, <2>1, <2>2, Intervals DEF Subtracted
  <2> QED
    BY <1>5, <2>2, <2>3, <2>4 DEF Inside, Overlaps
<1> DEFINE left == SubtractIntervals(window)
<1>11. /\ left \subseteq Interval
       /\ \A o \in left : Inside(o, window) /\ \A k \in 1..n : ~Overlaps(seq[k], o)
  BY <1>3, <1>9, <1>10 DEF Subtracted
<1>12. ASSUME NEW r \in Interval, Inside(r, window), FreeOf(r, booked)
       PROVE  \E o \in left : Inside(r, o)
  <2>1. \A k \in 1..n : ~Overlaps(seq[k], r)
    BY <1>2, <1>12 DEF FreeOf
  <2>2. CASE \E o \in seen.open : Inside(r, o)
    BY <1>3, <2>2
  <2>3. CASE r.start >= seen.cursor
    <3>1. r.start \in Int /\ r.end \in Int /\ r.start < r.end /\ r.end <= window.end
          /\ seen.cursor \in Int
      BY <1>5, <1>9, <1>12, Intervals DEF Inside, Subtracted
    <3>2. [start |-> seen.cursor, end |-> window.end] \in left
      BY <1>3, <1>5, <2>3, <3>1 DEF Gap
    <3>3. Inside(r, [start |-> seen.cursor, end |-> window.end])
      BY <2>3, <3>1 DEF Inside
    <3> QED
      BY <3>2, <3>3
  <2> QED
    BY <1>9, <1>12, <2>1, <2>2, <2>3 DEF Subtracted
<1>13. ASSUME NEW r \in Interval, NEW o \in left, Inside(r, o)
       PROVE  Inside(r, window) /\ FreeOf(r, booked)
  <2>1. /\ o \in Interval /\ Inside(o, window)
        /\ \A k \in 1..n : ~Overlaps(seq[k], o)
    BY <1>11
  <2>2. /\ r.start \in Int /\ r.end \in Int /\ r.start < r.end
        /\ o.start \in Int /\ o.end \in Int /\ o.start <= r.start /\ r.end <= o.end
        /\ window.start <= o.start /\ o.end <= window.end
    BY <1>13, <2>1, Intervals DEF Inside
  <2>3. Inside(r, window)
    BY <1>5, <2>2 DEF Inside
  <2>4. ASSUME NEW b \in booked PROVE ~Overlaps(b, r)
    <3>1. b.start \in Int /\ b.end \in Int
      BY Intervals DEF SlotTypes
    <3>2. CASE b \in blocking
      <4>1. ~Overlaps(b, o)
        BY <1>2, <2>1, <3>2
      <4> QED
        BY <2>2, <3>1, <4>1 DEF Overlaps
    <3>3. CASE ~Overlaps(b, window)
      BY <1>5, <2>2, <3>1, <3>3 DEF Overlaps
    <3> QED
      BY <3>2, <3>3
  <2> QED
    BY <2>3, <2>4 DEF FreeOf
<1> QED
  BY <1>11, <1>12, <1>13


(***************************************************************************)
(* hasOpenWindow                                                           *)
(***************************************************************************)

FreeIn(slot, seq, n, r) ==
  r \in Interval /\ Inside(r, slot) /\ \A k \in 1..n : ~Overlaps(seq[k], r)

\* After i bookings: while the loop looks, those that were seen end before the cursor and
\* nothing before it is free; "open" and "full" tell whether something is free, and
\* after "past" no booking is left that starts in the slot.
Visited(slot, seq, n, at, i) ==
  /\ at \in [cursor : Int, verdict : {"looking", "past", "open", "full"}]
  /\ at.cursor >= slot.start
  /\ at.verdict \in {"looking", "past"} => at.cursor < slot.end /\ at.cursor \in 0..Horizon
  /\ at.verdict = "looking" =>
       /\ \A k \in 1..i : seq[k].end <= at.cursor
       /\ \A r : FreeIn(slot, seq, n, r) => r.start >= at.cursor
  /\ at.verdict = "past" => \A k \in 1..n : seq[k].end <= at.cursor \/ seq[k].start >= slot.end
  /\ at.verdict = "open" => \E r : FreeIn(slot, seq, n, r)
  /\ at.verdict = "full" => ~\E r : FreeIn(slot, seq, n, r)

LEMMA VisitTurn ==
  ASSUME NEW slot \in Interval, NEW n \in Nat, NEW seq, \A k \in 1..n : seq[k] \in Interval,
         \A j, k \in 1..n : j <= k => seq[j].start <= seq[k].start,
         NEW i \in 1..n, NEW at, Visited(slot, seq, n, at, i - 1)
  PROVE  Visited(slot, seq, n, Visit(slot, at, seq[i]), i)
<1> DEFINE b == seq[i]
           next == Visit(slot, at, b)
<1>1. /\ slot.start \in 0..Horizon /\ slot.end \in 0..Horizon /\ slot.start < slot.end
      /\ b.start \in 0..Horizon /\ b.end \in 0..Horizon /\ b.start < b.end
      /\ Horizon \in Nat
      /\ \A k \in 1..n : seq[k].start \in Int /\ seq[k].end \in Int
  BY Intervals, SlotsAssumption
<1>2. at \in [cursor : Int, verdict : {"looking", "past", "open", "full"}]
      /\ at.cursor >= slot.start
  BY DEF Visited
<1> HIDE DEF b
<1>3. CASE at.verdict # "looking"
  <2>1. next = at
    BY <1>3 DEF Visit
  <2> QED
    BY <1>3, <2>1 DEF Visited, b
<1>4. CASE at.verdict = "looking"
  <2>1. /\ at.cursor < slot.end /\ at.cursor \in 0..Horizon
        /\ \A k \in 1..i - 1 : seq[k].end <= at.cursor
        /\ \A r : FreeIn(slot, seq, n, r) => r.start >= at.cursor
    BY <1>4 DEF Visited
  <2>2. \A k \in 1..i : k = i \/ k \in 1..i - 1
    OBVIOUS
  <2>3. CASE b.end <= at.cursor
    <3>1. next = at
      BY <1>4, <2>3 DEF Visit
    <3>2. \A k \in 1..i : seq[k].end <= at.cursor
      BY <2>1, <2>2, <2>3 DEF b
    <3>3. Visited(slot, seq, n, at, i)
      BY <1>2, <1>4, <2>1, <3>2 DEF Visited
    <3> QED
      BY <3>1, <3>3 DEF b
  <2>4. CASE ~(b.end <= at.cursor) /\ b.start >= slot.end
    <3>1. next = [at EXCEPT !.verdict = "past"]
      BY <1>4, <2>4 DEF Visit
    <3>2. next \in [cursor : Int, verdict : {"looking", "past", "open", "full"}]
          /\ next.cursor = at.cursor /\ next.verdict = "past"
      BY <1>2, <3>1
    <3>3. \A k \in 1..n : seq[k].end <= at.cursor \/ seq[k].start >= slot.end
      <4> SUFFICES ASSUME NEW k \in 1..n, ~(k \in 1..i - 1) PROVE seq[k].start >= slot.end
        BY <2>1
      <4>1. i <= k
        OBVIOUS
      <4>2. b.start <= seq[k].start
        BY <4>1 DEF b
      <4> QED
        BY <1>1, <2>4, <4>2
    <3> HIDE DEF next
    <3>4. Visited(slot, seq, n, next, i)
      BY <1>2, <2>1, <3>2, <3>3 DEF Visited
    <3> QED
      BY <3>4 DEF next, b
  <2>5. CASE ~(b.end <= at.cursor) /\ b.start < slot.end /\ b.start > at.cursor
    <3>1. next = [at EXCEPT !.verdict = "open"]
      BY <1>1, <1>4, <2>5 DEF Visit
    <3>2. next \in [cursor : Int, verdict : {"looking", "past", "open", "full"}]
          /\ next.cursor = at.cursor /\ next.verdict = "open"
      BY <1>2, <3>1
    <3>3. PICK r : r = [start |-> at.cursor, end |-> b.start]
      OBVIOUS
    <3>4. r \in Interval /\ r.start = at.cursor /\ r.end = b.start
      BY <1>1, <2>1, <2>5, <3>3, Intervals
    <3>5. ASSUME NEW k \in 1..n PROVE ~Overlaps(seq[k], r)
      <4>1. CASE k \in 1..i - 1
        BY <1>1, <1>2, <2>1, <3>4, <4>1 DEF Overlaps
      <4>2. CASE ~(k \in 1..i - 1)
        <5>1. i <= k
          BY <4>2
        <5>2. b.start <= seq[k].start
          BY <5>1 DEF b
        <5> QED
          BY <1>1, <3>4, <5>2 DEF Overlaps
      <4> QED
        BY <4>1, <4>2
    <3>6. FreeIn(slot, seq, n, r)
      BY <1>1, <1>2, <2>5, <3>4, <3>5 DEF FreeIn, Inside
    <3> HIDE DEF next
    <3>7. Visited(slot, seq, n, next, i)
      BY <1>2, <3>2, <3>6 DEF Visited
    <3> QED
      BY <3>7 DEF next, b
  <2>6. CASE ~(b.end <= at.cursor) /\ b.start < slot.end /\ b.start <= at.cursor
    <3>1. next = [cursor |-> Greater(at.cursor, b.end),
                  verdict |-> IF b.end >= slot.end THEN "full" ELSE "looking"]
      BY <1>1, <1>2, <1>4, <2>6 DEF Visit
    <3>2. Greater(at.cursor, b.end) = b.end
      BY <1>1, <1>2, <2>6 DEF Greater
    <3>3. next \in [cursor : Int, verdict : {"looking", "past", "open", "full"}]
          /\ next.cursor = b.end
          /\ next.verdict = IF b.end >= slot.end THEN "full" ELSE "looking"
      BY <1>1, <3>1, <3>2
    <3>4. ASSUME NEW r, FreeIn(slot, seq, n, r)
          PROVE  r.start >= b.end /\ r.start < slot.end
      <4>1. r \in Interval /\ Inside(r, slot) /\ ~Overlaps(b, r) /\ r.start >= at.cursor
        BY <2>1, <3>4 DEF FreeIn, b
      <4>2. r.start \in Int /\ r.end \in Int /\ r.start < r.end /\ r.end <= slot.end
        BY <4>1, Intervals DEF Inside
      <4> QED
        BY <1>1, <1>2, <2>6, <4>1, <4>2 DEF Overlaps
    <3>5. \A k \in 1..i : seq[k].end <= b.end
      <4> SUFFICES ASSUME NEW k \in 1..i - 1 PROVE seq[k].end <= b.end
        BY <1>1, <2>2 DEF b
      <4>1. seq[k].end <= at.cursor /\ seq[k].end \in Int
        BY <1>1, <2>1
      <4> QED
        BY <1>1, <1>2, <2>6, <4>1
    <3>6. b.end >= slot.start
      BY <1>1, <1>2, <2>6
    <3> HIDE DEF next
    <3>7. CASE b.end >= slot.end
      <4>1. ~\E r : FreeIn(slot, seq, n, r)
        <5> SUFFICES ASSUME NEW r, FreeIn(slot, seq, n, r) PROVE FALSE
          OBVIOUS
        <5>1. r \in Interval
          BY DEF FreeIn
        <5> QED
          BY <1>1, <3>4, <3>7, <5>1, Intervals
      <4>2. next.verdict = "full"
        BY <3>3, <3>7
      <4> QED
        BY <3>3, <3>6, <4>1, <4>2 DEF Visited, next, b
    <3>8. CASE ~(b.end >= slot.end)
      <4>1. next.verdict = "looking" /\ next.cursor < slot.end /\ next.cursor \in 0..Horizon
        BY <1>1, <3>3, <3>8
      <4>2. Visited(slot, seq, n, next, i)
        BY <3>3, <3>4, <3>5, <3>6, <4>1 DEF Visited
      <4> QED
        BY <4>2 DEF next, b
    <3> QED
      BY <3>7, <3>8
  <2> QED
    BY <1>1, <1>2, <2>3, <2>4, <2>5, <2>6
<1> QED
  BY <1>2, <1>3, <1>4

\* The loop finds whether something is free.
LEMMA SlotIsOpenIs ==
  ASSUME SlotTypes, NEW slot \in Interval
  PROVE  SlotIsOpen(slot) <=> \E r \in Interval : Inside(r, slot) /\ FreeOf(r, booked)
<1> DEFINE seq == ByStart(booked)
           base == [cursor |-> slot.start, verdict |-> "looking"]
           at == Loop("visit", slot, base, seq)
<1>1. PICK n \in Nat :
        /\ DOMAIN seq = 1..n
        /\ \A i \in 1..n : seq[i] \in booked
        /\ \A b \in booked : \E i \in 1..n : seq[i] = b
        /\ \A i, j \in 1..n : i <= j => seq[i].start <= seq[j].start
  BY StartsInOrder DEF SlotTypes
<1>2. SlotIsOpen(slot) <=> at.verdict = "open" \/ (at.verdict # "full" /\ at.cursor < slot.end)
  BY FoldsAreLoops, Zenon DEF SlotIsOpen
<1>3. PICK run : /\ run[0] = base
                 /\ \A i \in 1..n : run[i] = Turn("visit", slot, run[i - 1], seq[i])
                 /\ run[n] = at
  <2>1. DOMAIN seq = 1..n
    BY <1>1
  <2> HIDE DEF base, seq
  <2>2. PICK run : Runs("visit", slot, base, seq, n, run)
    BY <2>1, LoopRuns
  <2> QED
    BY <2>2 DEF Runs
<1>4. /\ slot.start \in 0..Horizon /\ slot.end \in 0..Horizon /\ slot.start < slot.end
      /\ Horizon \in Nat
  BY Intervals, SlotsAssumption
<1>5. \A k \in 1..n : seq[k] \in Interval
  BY <1>1 DEF SlotTypes
<1> DEFINE N == {i \in Nat : i <= n => Visited(slot, seq, n, run[i], i)}
<1> HIDE DEF seq, at
<1>6. 0 \in N
  <2>1. run[0] = [cursor |-> slot.start, verdict |-> "looking"]
    BY <1>3
  <2>2. run[0] \in [cursor : Int, verdict : {"looking", "past", "open", "full"}]
        /\ run[0].cursor = slot.start /\ run[0].verdict = "looking"
    BY <1>4, <2>1
  <2>3. \A r : FreeIn(slot, seq, n, r) => r.start >= slot.start
    BY DEF FreeIn, Inside
  <2>4. Visited(slot, seq, n, run[0], 0)
    BY <1>4, <2>2, <2>3 DEF Visited
  <2> QED
    BY <2>4
<1>7. ASSUME NEW i \in Nat, i \in N PROVE i + 1 \in N
  <2> SUFFICES ASSUME i + 1 <= n PROVE Visited(slot, seq, n, run[i + 1], i + 1)
    OBVIOUS
  <2> DEFINE j == i + 1
  <2>1. j \in 1..n /\ j - 1 = i /\ i <= n
    OBVIOUS
  <2> HIDE DEF j
  <2>2. run[j] = Visit(slot, run[j - 1], seq[j])
    <3>1. "visit" # "subtract"
      OBVIOUS
    <3>2. run[j] = Turn("visit", slot, run[j - 1], seq[j])
      BY <1>3, <2>1
    <3> QED
      BY <3>1, <3>2, Zenon DEF Turn
  <2>3. Visited(slot, seq, n, run[j - 1], j - 1)
    BY <1>7, <2>1
  <2>4. Visited(slot, seq, n, Visit(slot, run[j - 1], seq[j]), j)
    BY <1>1, <1>5, <2>1, <2>3, VisitTurn
  <2> QED
    BY <2>2, <2>4 DEF j
<1>8. Visited(slot, seq, n, at, n)
  <2> HIDE DEF N
  <2>1. n \in N
    BY <1>6, <1>7, NatSetInduction
  <2> QED
    BY <1>3, <2>1 DEF N
<1>9. \A r : FreeIn(slot, seq, n, r) <=> r \in Interval /\ Inside(r, slot) /\ FreeOf(r, booked)
  BY <1>1 DEF FreeIn, FreeOf
\* The loop came to its end, or to a booking after the slot: the rest of the slot is free.
<1>10. ASSUME at.verdict \in {"looking", "past"}
       PROVE  at.cursor < slot.end /\ \E r : FreeIn(slot, seq, n, r)
  <2>1. /\ at.cursor >= slot.start /\ at.cursor < slot.end /\ at.cursor \in 0..Horizon
        /\ \A k \in 1..n : seq[k].end <= at.cursor \/ seq[k].start >= slot.end
    BY <1>8, <1>10 DEF Visited
  <2>2. PICK r : r = [start |-> at.cursor, end |-> slot.end]
    OBVIOUS
  <2>3. r \in Interval /\ r.start = at.cursor /\ r.end = slot.end
    BY <1>4, <2>1, <2>2, Intervals
  <2>4. \A k \in 1..n : ~Overlaps(seq[k], r)
    <3>1. \A k \in 1..n : seq[k].start \in Int /\ seq[k].end \in Int
      BY <1>5, Intervals
    <3> QED
      BY <1>4, <2>1, <2>3, <3>1 DEF Overlaps
  <2>5. FreeIn(slot, seq, n, r)
    BY <1>4, <2>1, <2>3, <2>4 DEF FreeIn, Inside
  <2> QED
    BY <2>1, <2>5
<1>11. at.verdict \in {"looking", "past", "open", "full"}
  BY <1>8 DEF Visited
<1>12. SlotIsOpen(slot) <=> \E r : FreeIn(slot, seq, n, r)
  <2>1. at.verdict = "open" => \E r : FreeIn(slot, seq, n, r)
    BY <1>8 DEF Visited
  <2>2. at.verdict = "full" => ~\E r : FreeIn(slot, seq, n, r)
    BY <1>8 DEF Visited
  <2> QED
    BY <1>2, <1>10, <1>11, <2>1, <2>2
<1> QED
  BY <1>9, <1>12

\* The times that can be booked are those in what is shown as open.
LEMMA OffersMatch == SlotTypes => OffersMatchBookings
<1> SUFFICES ASSUME SlotTypes PROVE OffersMatchBookings
  OBVIOUS
<1>1. \A w \in weekly : w \in Interval
  BY DEF SlotTypes
<1>2. ASSUME NEW r \in Interval
      PROVE  (IsWithinAvailability(r) /\ FreeOf(r, booked))
               <=> \E o \in OpenIntervals : Inside(r, o)
  <2>1. \A w \in weekly : Inside(r, w) /\ FreeOf(r, booked)
                            <=> \E o \in SubtractIntervals(w) : Inside(r, o)
    BY <1>1, SubtractIs
  <2>2. IsWithinAvailability(r) <=> \E w \in weekly : Inside(r, w)
    BY DEF IsWithinAvailability, Inside
  <2>3. (\E o \in OpenIntervals : Inside(r, o))
          <=> \E w \in weekly : \E o \in SubtractIntervals(w) : Inside(r, o)
    BY DEF OpenIntervals
  <2> QED
    BY <2>1, <2>2, <2>3
<1>3. ASSUME NEW r \in Interval
      PROVE  (\E o \in OpenIntervals : Inside(r, o))
               <=> \E o \in OpenIntervals : o.start <= r.start /\ r.end <= o.end
  <2>1. OpenIntervals \subseteq Interval
    BY <1>1, SubtractIs DEF OpenIntervals
  <2>2. r.start \in Int /\ \A o \in OpenIntervals : o.start \in Int
    BY <2>1, Intervals
  <2>3. \A o \in OpenIntervals : Inside(r, o) <=> o.start <= r.start /\ r.end <= o.end
    BY <2>2 DEF Inside
  <2> QED
    BY <2>3
<1> QED
  BY <1>2, <1>3, Zenon DEF OffersMatchBookings, FreeOf

\* The filter finds a mate by what the mate's page shows.
LEMMA FilterAgrees == SlotTypes => DiscoveryAgrees
<1> SUFFICES ASSUME SlotTypes PROVE DiscoveryAgrees
  OBVIOUS
<1>1. \A w \in weekly : w \in Interval
  BY DEF SlotTypes
<1>2. ASSUME NEW w \in weekly
      PROVE  SlotIsOpen(w) <=> SubtractIntervals(w) # {}
  <2>1. SlotIsOpen(w) <=> \E r \in Interval : Inside(r, w) /\ FreeOf(r, booked)
    BY <1>1, SlotIsOpenIs
  <2>2. SubtractIntervals(w) \subseteq Interval
        /\ \A r \in Interval : Inside(r, w) /\ FreeOf(r, booked)
                                 <=> \E o \in SubtractIntervals(w) : Inside(r, o)
    BY <1>1, SubtractIs
  <2>3. \A o \in Interval : Inside(o, o)
    BY Intervals DEF Inside
  <2> QED
    BY <2>1, <2>2, <2>3
<1> QED
  BY <1>2 DEF DiscoveryAgrees, HasOpenWindow, OpenIntervals

Pick(s) == CHOOSE x \in s : TRUE
Round(f, S, g) ==
  [s \in SUBSET S |-> IF s = {} THEN 0 ELSE f[Pick(s)] + g[s \ {Pick(s)}]]

LEMMA Picked == ASSUME NEW s, s # {} PROVE Pick(s) \in s
BY DEF Pick

\* The recursion has a solution: after as many rounds as there are elements.
LEMMA SumExists ==
  ASSUME NEW f, NEW S, IsFiniteSet(S)
  PROVE  \E g : g = Round(f, S, g)
<1> DEFINE Solves(g, n) == \A s \in SUBSET S : Cardinality(s) <= n => g[s] = Round(f, S, g)[s]
           N == {n \in Nat : \E g : Solves(g, n)}
<1>1. \A s \in SUBSET S : IsFiniteSet(s) /\ Cardinality(s) \in Nat /\ (Cardinality(s) = 0 <=> s = {})
  BY FS_Subset, FS_CardinalityType, FS_EmptySet
<1>2. ASSUME NEW s \in SUBSET S, s # {}
      PROVE  /\ s \ {Pick(s)} \in SUBSET S
             /\ Cardinality(s \ {Pick(s)}) = Cardinality(s) - 1
  BY <1>1, <1>2, Picked, FS_RemoveElement
<1>3. ASSUME NEW g, NEW n \in Nat, Solves(g, n), NEW s \in SUBSET S, Cardinality(s) <= n + 1
      PROVE  Round(f, S, g)[s] = Round(f, S, Round(f, S, g))[s]
  <2>1. CASE s = {}
    BY <2>1 DEF Round
  <2>2. CASE s # {}
    <3>1. s \ {Pick(s)} \in SUBSET S /\ Cardinality(s \ {Pick(s)}) <= n
      BY <1>1, <1>2, <1>3, <2>2
    <3>2. g[s \ {Pick(s)}] = Round(f, S, g)[s \ {Pick(s)}]
      BY <1>3, <3>1
    <3>3. \A h : Round(f, S, h)[s] = f[Pick(s)] + h[s \ {Pick(s)}]
      BY <2>2 DEF Round
    <3> QED
      BY <3>2, <3>3
  <2> QED
    BY <2>1, <2>2
<1>4. 0 \in N
  <2> DEFINE g == Round(f, S, f)
  <2>1. Solves(g, 0)
    <3> SUFFICES ASSUME NEW s \in SUBSET S, Cardinality(s) <= 0
                 PROVE  g[s] = Round(f, S, g)[s]
      OBVIOUS
    <3>1. s = {}
      BY <1>1
    <3> QED
      BY <3>1 DEF Round
  <2> HIDE DEF g
  <2> QED
    BY <2>1
<1>5. ASSUME NEW n \in Nat, n \in N PROVE n + 1 \in N
  <2>1. PICK g : Solves(g, n)
    BY <1>5
  <2> DEFINE h == Round(f, S, g)
  <2>2. Solves(h, n + 1)
    BY <1>3, <2>1
  <2> HIDE DEF h
  <2> QED
    BY <2>2
<1>6. PICK g : Solves(g, Cardinality(S))
  <2> HIDE DEF N
  <2>1. Nat \subseteq N
    BY <1>4, <1>5, NatSetInduction
  <2> QED
    BY <1>1, <2>1 DEF N
<1> DEFINE h == Round(f, S, g)
<1>7. \A s \in SUBSET S : Cardinality(s) <= Cardinality(S) + 1
  BY <1>1, FS_Subset
<1>8. \A s \in SUBSET S : h[s] = Round(f, S, h)[s]
  BY <1>1, <1>3, <1>6, <1>7
<1>9. h = [s \in SUBSET S |-> h[s]] /\ Round(f, S, h) = [s \in SUBSET S |-> Round(f, S, h)[s]]
  BY DEF Round
<1> HIDE DEF h
<1>10. h = Round(f, S, h)
  BY <1>8, <1>9
<1> QED
  BY <1>10

LEMMA SumIs ==
  ASSUME NEW f, NEW S, IsFiniteSet(S)
  PROVE  \E g : g = Round(f, S, g) /\ SumFunctionOnSet(f, S) = g[S]
<1> DEFINE it == CHOOSE g : g = Round(f, S, g)
<1>1. it = Round(f, S, it)
  BY SumExists
<1>2. SumFunctionOnSet(f, S) = it[S]
  BY Zenon DEF SumFunctionOnSet, FoldFunctionOnSet, MapThenFoldSet, Round, Pick
<1> QED
  BY <1>1, <1>2

\* A sum is that of one element and of the others.
LEMMA SumOfPicked ==
  ASSUME NEW f, NEW S, IsFiniteSet(S)
  PROVE  /\ SumFunctionOnSet(f, {}) = 0
         /\ S # {} => SumFunctionOnSet(f, S) = f[Pick(S)] + SumFunctionOnSet(f, S \ {Pick(S)})
<1>1. IsFiniteSet({})
  BY FS_EmptySet
<1>2. SumFunctionOnSet(f, {}) = 0
  BY <1>1, SumIs DEF Round
<1>3. ASSUME S # {}
      PROVE  SumFunctionOnSet(f, S) = f[Pick(S)] + SumFunctionOnSet(f, S \ {Pick(S)})
  <2> DEFINE T == S \ {Pick(S)}
  <2>1. PICK g : g = Round(f, S, g) /\ SumFunctionOnSet(f, S) = g[S]
    BY SumIs
  <2>2. IsFiniteSet(T) /\ T \in SUBSET S
    BY FS_Subset
  <2>3. PICK h : h = Round(f, T, h) /\ SumFunctionOnSet(f, T) = h[T]
    BY <2>2, SumIs
  <2> DEFINE Same == {s \in SUBSET T : g[s] = h[s]}
  <2>4. {} \in Same
    <3>1. g[{}] = 0
      BY <2>1 DEF Round
    <3>2. h[{}] = 0
      BY <2>3 DEF Round
    <3> QED
      BY <3>1, <3>2
  <2>5. ASSUME NEW s \in SUBSET T, s # {}, \A x \in s : s \ {x} \in Same
        PROVE  s \in Same
    <3>1. s \ {Pick(s)} \in Same
      BY <2>5, Picked
    <3>2. g[s] = f[Pick(s)] + g[s \ {Pick(s)}]
      BY <2>1, <2>2, <2>5 DEF Round
    <3>3. h[s] = f[Pick(s)] + h[s \ {Pick(s)}]
      BY <2>3, <2>5 DEF Round
    <3> QED
      BY <3>1, <3>2, <3>3
  <2>6. T \in Same
    <3> HIDE DEF T, Same
    <3> QED
      BY <2>2, <2>4, <2>5, RemovalInduction
  <2>7. g[S] = f[Pick(S)] + g[T]
    BY <1>3, <2>1 DEF Round
  <2> QED
    BY <2>1, <2>3, <2>6, <2>7
<1> QED
  BY <1>2, <1>3

\* The same, whatever the element.
LEMMA SumNat ==
  ASSUME NEW S, IsFiniteSet(S), NEW f, \A x \in S : f[x] \in Nat
  PROVE  \A T \in SUBSET S : SumFunctionOnSet(f, T) \in Nat
<1> DEFINE Good == {T \in SUBSET S : SumFunctionOnSet(f, T) \in Nat}
<1>1. {} \in Good
  <2>1. SumFunctionOnSet(f, {}) = 0
    BY FS_EmptySet, SumOfPicked
  <2> QED
    BY <2>1
<1>2. ASSUME NEW T \in SUBSET S, T # {}, \A x \in T : T \ {x} \in Good
      PROVE  T \in Good
  <2>1. Pick(T) \in T
    BY <1>2, Picked
  <2>2. SumFunctionOnSet(f, T) = f[Pick(T)] + SumFunctionOnSet(f, T \ {Pick(T)})
    BY <1>2, FS_Subset, SumOfPicked
  <2> QED
    BY <1>2, <2>1, <2>2
<1> HIDE DEF Good
<1>3. \A T \in SUBSET S : T \in Good
  BY <1>1, <1>2, RemovalInduction
<1> QED
  BY <1>3 DEF Good

LEMMA SumRemove ==
  ASSUME NEW S, IsFiniteSet(S), NEW f, \A x \in S : f[x] \in Nat
  PROVE  \A x \in S : SumFunctionOnSet(f, S) = f[x] + SumFunctionOnSet(f, S \ {x})
<1> DEFINE Sum(T) == SumFunctionOnSet(f, T)
           Good == {T \in SUBSET S : \A x \in T : Sum(T) = f[x] + Sum(T \ {x})}
<1>1. \A T \in SUBSET S : Sum(T) \in Nat
  BY SumNat
<1>2. \A T \in SUBSET S : T # {} => Sum(T) = f[Pick(T)] + Sum(T \ {Pick(T)})
  BY FS_Subset, SumOfPicked
<1> HIDE DEF Sum
<1>3. {} \in Good
  OBVIOUS
<1>4. ASSUME NEW T \in SUBSET S, T # {}, \A x \in T : T \ {x} \in Good
      PROVE  T \in Good
  <2> DEFINE p == Pick(T)
  <2>1. p \in T /\ Sum(T) = f[p] + Sum(T \ {p})
    BY <1>2, <1>4, Picked
  <2> HIDE DEF p
  <2>2. ASSUME NEW x \in T, x # p
        PROVE  Sum(T) = f[x] + Sum(T \ {x})
    <3>1. Sum(T \ {p}) = f[x] + Sum((T \ {p}) \ {x})
      BY <1>4, <2>1, <2>2
    <3>2. Sum(T \ {x}) = f[p] + Sum((T \ {x}) \ {p})
      BY <1>4, <2>1, <2>2
    <3>3. (T \ {p}) \ {x} = (T \ {x}) \ {p}
      OBVIOUS
    <3>4. f[x] \in Nat /\ f[p] \in Nat /\ Sum((T \ {x}) \ {p}) \in Nat
      BY <1>1, <2>1
    <3> DEFINE c == Sum((T \ {x}) \ {p})
    <3>5. Sum(T) = f[p] + (f[x] + c)
      BY <2>1, <3>1, <3>3
    <3>6. Sum(T \ {x}) = f[p] + c /\ c \in Nat
      BY <3>2, <3>4
    <3> HIDE DEF c
    <3>7. f[p] + (f[x] + c) = f[x] + (f[p] + c)
      BY <3>4, <3>6
    <3> QED
      BY <3>5, <3>6, <3>7
  <2> QED
    BY <2>1, <2>2
<1> HIDE DEF Good
<1>5. \A T \in SUBSET S : T \in Good
  BY <1>3, <1>4, RemovalInduction
<1>6. S \in Good
  BY <1>5
<1> QED
  BY <1>6 DEF Good, Sum

\* Only the terms count.

(***************************************************************************)
(* Averages                                                                *)
(***************************************************************************)

\* What is sorted is there once.
LEMMA SortedDistinct ==
  ASSUME NEW S, IsFiniteSet(S), NEW before, NEW seq, SortsTo(S, before, seq)
  PROVE  \A i, j \in 1..Cardinality(S) : i < j => seq[i] # seq[j]
<1> DEFINE n == Cardinality(S)
<1>1. n \in Nat
  BY FS_CardinalityType
<1>2. seq \in [1..n -> S] /\ \A x \in S : \E i \in 1..n : seq[i] = x
  BY DEF SortsTo
<1> HIDE DEF n
<1>3. IsFiniteSet(1..n) /\ Cardinality(1..n) = n
  BY <1>1, FS_Interval
<1>4. seq \in Surjection(1..n, S)
  BY <1>2 DEF Surjection
<1>5. seq \in Injection(1..n, S)
  BY <1>3, <1>4, FS_SurjSameCardinalityImpliesInj DEF n
<1> QED
  BY <1>1, <1>5 DEF Injection, IsInjective, n

\* A sorted set is a sequence of it, as long as it has elements.
LEMMA SortedSeq ==
  ASSUME NEW S, IsFiniteSet(S), NEW before, NEW seq, SortsTo(S, before, seq)
  PROVE  /\ seq \in Seq(S) /\ Len(seq) = Cardinality(S) /\ Cardinality(S) \in Nat
         /\ DOMAIN seq = 1..Cardinality(S)
         /\ (seq = <<>> <=> S = {})
<1> DEFINE n == Cardinality(S)
<1>1. n \in Nat /\ (n = 0 <=> S = {})
  BY FS_CardinalityType, FS_EmptySet
<1>2. seq \in [1..n -> S]
  BY DEF SortsTo
<1> HIDE DEF n
<1>3. seq \in Seq(S) /\ Len(seq) = n /\ DOMAIN seq = 1..n
  BY <1>1, <1>2
<1>4. seq = <<>> <=> n = 0
  BY <1>1, <1>3
<1> QED
  BY <1>1, <1>3, <1>4 DEF n

\* The reviews of a mate, and their ratings.
LEMMA ReviewsOfMate ==
  ASSUME ReviewTypes, NEW m
  PROVE  /\ ReviewsOf(m) \subseteq ReviewIds /\ ReviewsOf(m) \subseteq Nat
         /\ IsFiniteSet(ReviewsOf(m))
         /\ \A id \in ReviewsOf(m) : review[id].rating \in Nat
<1>1. ReviewsOf(m) \subseteq Written /\ Written \subseteq ReviewIds
  BY DEF ReviewsOf, Written
<1>2. \A id \in Written : review[id] \in Rows
  BY DEF ReviewTypes, Written
<1>3. \A id \in Written : review[id].rating \in Nat
  BY <1>2, ReviewIdsAssumption DEF Rows
<1>4. IsFiniteSet(ReviewsOf(m))
  BY <1>1, ReviewIdsAssumption, FS_Subset
<1> QED
  BY <1>1, <1>3, <1>4, ReviewIdsAssumption

\* A loop that adds the ratings up comes to their sum, in whatever order it takes them.
LEMMA LoopAddsUp ==
  ASSUME ReviewTypes, NEW m, NEW seq, SortsTo(ReviewsOf(m), {}, seq)
  PROVE  FoldLeft(LAMBDA total, id : total + review[id].rating, 0, seq)
           = RatingSum(ReviewsOf(m))
<1> DEFINE ids == ReviewsOf(m)
           n == Cardinality(ids)
           f == [id \in ids |-> review[id].rating]
           Sum(T) == SumFunctionOnSet(f, T)
           Taken(i) == {seq[k] : k \in 1..i}
<1>1. IsFiniteSet(ids) /\ \A id \in ids : f[id] \in Nat /\ f[id] = review[id].rating
  BY ReviewsOfMate
<1>2. /\ n \in Nat /\ DOMAIN seq = 1..n /\ seq \in [1..n -> ids]
      /\ \A x \in ids : \E i \in 1..n : seq[i] = x
      /\ \A i, j \in 1..n : i < j => seq[i] # seq[j]
  <2> HIDE DEF ids
  <2>1. SortsTo(ids, {}, seq)
    BY DEF ids
  <2>2. n \in Nat /\ DOMAIN seq = 1..n
    BY <1>1, <2>1, SortedSeq
  <2>3. \A i, j \in 1..n : i < j => seq[i] # seq[j]
    BY <1>1, <2>1, SortedDistinct
  <2> QED
    BY <2>1, <2>2, <2>3 DEF SortsTo
<1>3. \A T \in SUBSET ids : \A x \in T : Sum(T) = f[x] + Sum(T \ {x})
  <2> SUFFICES ASSUME NEW T \in SUBSET ids
               PROVE  \A x \in T : Sum(T) = f[x] + Sum(T \ {x})
    OBVIOUS
  <2>1. IsFiniteSet(T) /\ \A x \in T : f[x] \in Nat
    BY <1>1, FS_Subset
  <2> HIDE DEF f
  <2> QED
    BY <2>1, SumRemove
<1>4. Sum({}) = 0
  <2> HIDE DEF f
  <2> QED
    BY <1>1, SumOfPicked
<1>5. \A T \in SUBSET ids : Sum(T) \in Nat
  <2> HIDE DEF f
  <2> QED
    BY <1>1, SumNat
<1>6. PICK run : Runs("add", seq, 0, seq, n, run)
  BY <1>2, LoopRuns
<1>7. /\ run[0] = 0
      /\ \A i \in 1..n : run[i] = run[i - 1] + review[seq[i]].rating
      /\ run[n] = Loop("add", seq, 0, seq)
  <2>1. "add" # "subtract" /\ "add" # "visit"
    OBVIOUS
  <2> QED
    BY <1>6, <2>1, Zenon DEF Runs, Turn
<1>8. RatingSum(ids) = Sum(ids)
  BY DEF RatingSum, SumFunction
<1> HIDE DEF ids, n, f, Sum
<1> DEFINE N == {i \in Nat : i <= n => run[i] = Sum(Taken(i))}
<1>9. 0 \in N
  <2>1. Taken(0) = {}
    OBVIOUS
  <2> HIDE DEF Taken
  <2> QED
    BY <1>2, <1>4, <1>7, <2>1
<1>10. ASSUME NEW i \in Nat, i \in N
       PROVE  i + 1 \in N
  <2> SUFFICES ASSUME i + 1 <= n PROVE run[i + 1] = Sum(Taken(i + 1))
    OBVIOUS
  <2> DEFINE j == i + 1
  <2>1. j \in 1..n /\ j - 1 = i /\ i <= n
    BY <1>2
  <2>2. run[j] = run[i] + review[seq[j]].rating
    BY <1>7, <2>1
  <2>3. run[i] = Sum(Taken(i))
    BY <1>10, <2>1
  <2>4. Taken(j) \in SUBSET ids /\ seq[j] \in Taken(j)
    BY <1>2, <2>1
  <2>5. Taken(j) \ {seq[j]} = Taken(i)
    <3>1. \A k \in 1..j : k = j \/ k \in 1..i
      BY <2>1
    <3>2. \A k \in 1..i : k \in 1..j /\ seq[k] # seq[j]
      BY <1>2, <2>1
    <3> HIDE DEF j
    <3> QED
      BY <3>1, <3>2, <2>4
  <2> HIDE DEF j, Taken
  <2>6. Sum(Taken(j)) = f[seq[j]] + Sum(Taken(i))
    BY <1>3, <2>4, <2>5
  <2>7. f[seq[j]] = review[seq[j]].rating /\ f[seq[j]] \in Nat /\ Sum(Taken(i)) \in Nat
    <3>1. seq[j] \in ids /\ Taken(i) \in SUBSET ids
      BY <2>4, <2>5
    <3> QED
      BY <1>1, <1>5, <3>1
  <2>8. run[j] = Sum(Taken(j))
    BY <2>2, <2>3, <2>6, <2>7
  <2> QED
    BY <2>8 DEF j
<1> HIDE DEF N
<1>11. n \in N
  BY <1>2, <1>9, <1>10, NatSetInduction
<1>12. run[n] = Sum(Taken(n))
  BY <1>2, <1>11 DEF N
<1>13. Taken(n) = ids
  BY <1>2
<1>14. FoldLeft(LAMBDA total, id : total + review[id].rating, 0, seq) = run[n]
  BY <1>7, FoldsAreLoops, Zenon
<1> HIDE DEF Taken
<1> QED
  BY <1>8, <1>12, <1>13, <1>14 DEF ids

\* The page of a mate shows the rating that the list shows.
LEMMA DetailIsListed ==
  ASSUME ReviewTypes, NEW m
  PROVE  DetailRating(m) = ListedRating(m)
<1> DEFINE ids == ReviewsOf(m)
           reviews == Sorted(ids, {})
<1>1. IsFiniteSet(ids)
  BY ReviewsOfMate
<1>2. SortsTo(ids, {}, reviews)
  BY <1>1, SortedIs DEF Sortable
<1>3. Len(reviews) = Cardinality(ids) /\ (reviews = <<>> <=> ids = {})
  BY <1>1, <1>2, SortedSeq
<1>4. FoldLeft(LAMBDA total, id : total + review[id].rating, 0, reviews) = RatingSum(ids)
  BY <1>2, LoopAddsUp
<1> QED
  BY <1>3, <1>4, Zenon DEF DetailRating, ListedRating

(***************************************************************************)
(* Pages                                                                   *)
(***************************************************************************)

\* Rounding up, as the number of pages is computed, leaves nothing out and adds no page.
LEMMA PagesHold ==
  ASSUME NEW total \in Nat, NEW limit \in Nat \ {0}
  PROVE  /\ TotalPages(total, limit) \in Nat
         /\ total <= TotalPages(total, limit) * limit
         /\ TotalPages(total, limit) * limit < total + limit
<1> DEFINE n == total + limit - 1
           q == n \div limit
<1>1. n \in Nat
  OBVIOUS
<1> HIDE DEF n
<1>2. q \in Nat /\ n = q * limit + (n % limit) /\ n % limit \in 0 .. limit - 1
  BY <1>1
<1> HIDE DEF q
<1>3. q * limit \in Nat
  BY <1>2
<1>4. n < q * limit + limit /\ q * limit <= n
  BY <1>1, <1>2, <1>3
<1>5. total <= q * limit /\ q * limit < total + limit
  BY <1>1, <1>3, <1>4 DEF n
<1>6. TotalPages(total, limit) = q
  BY DEF TotalPages, q, n
<1> QED
  BY <1>2, <1>5, <1>6

\* There is a page after this one exactly when this one does not reach the end.
LEMMA MorePages ==
  ASSUME NEW total \in Nat, NEW limit \in Nat \ {0}, NEW page \in Nat
  PROVE  page < TotalPages(total, limit) <=> page * limit < total
<1> DEFINE q == TotalPages(total, limit)
<1>1. q \in Nat /\ total <= q * limit /\ q * limit < total + limit
  BY PagesHold
<1> HIDE DEF q
<1>2. q * limit \in Nat /\ page * limit \in Nat /\ (page + 1) * limit = page * limit + limit
  BY <1>1
<1>3. ASSUME page < q PROVE page * limit < total
  <2>1. (page + 1) * limit <= q * limit
    BY <1>1, <1>3
  <2> QED
    BY <1>1, <1>2, <2>1
<1>4. ASSUME q <= page PROVE total <= page * limit
  <2>1. q * limit <= page * limit
    BY <1>1, <1>4
  <2> QED
    BY <1>1, <1>2, <2>1
<1> QED
  BY <1>1, <1>2, <1>3, <1>4 DEF q

\* A page is that piece of the rows.
LEMMA SliceIs ==
  ASSUME NEW S, NEW rows \in Seq(S), NEW page \in Nat \ {0}, NEW limit \in Nat \ {0},
         NEW first, first = (page - 1) * limit, NEW last, last = page * limit
  PROVE  /\ first \in Nat /\ last = first + limit
         /\ Slice(rows, page, limit) \in Seq(S)
         /\ Len(Slice(rows, page, limit))
              = IF first >= Len(rows) THEN 0 ELSE Smaller(last, Len(rows)) - first
         /\ \A i \in 1..Len(Slice(rows, page, limit)) :
              first + i <= Len(rows) /\ Slice(rows, page, limit)[i] = rows[first + i]
<1>1. first \in Nat /\ last = first + limit
  <2>1. page * limit = (page - 1) * limit + limit /\ (page - 1) * limit \in Nat
    OBVIOUS
  <2> QED
    BY <2>1
<1> DEFINE end == Smaller(last, Len(rows))
<1>2. Len(rows) \in Nat /\ end \in Nat /\ end <= Len(rows) /\ end <= last
      /\ (end = Len(rows) \/ end = last)
  BY <1>1 DEF Smaller
<1> DEFINE slice == SubSeq(rows, first + 1, end)
<1>3. Slice(rows, page, limit) = slice
  BY DEF Slice
<1> HIDE DEF end
<1>4. \A i \in first + 1 .. end : rows[i] \in S
  BY <1>1, <1>2
<1>5. /\ slice \in Seq(S)
      /\ Len(slice) = IF first + 1 <= end THEN end - (first + 1) + 1 ELSE 0
      /\ \A i \in 1 .. end - (first + 1) + 1 : slice[i] = rows[(first + 1) + i - 1]
  BY <1>1, <1>2, <1>4, SubSeqProperties
<1> HIDE DEF slice
<1>6. \A i \in 1..Len(slice) :
        i \in 1 .. end - (first + 1) + 1 /\ first + i = (first + 1) + i - 1 /\ first + i <= end
  BY <1>1, <1>2, <1>5
<1>7. Len(slice) = IF first >= Len(rows) THEN 0 ELSE end - first
  BY <1>1, <1>2, <1>5
<1>8. \A i \in 1..Len(slice) : first + i <= Len(rows) /\ slice[i] = rows[first + i]
  BY <1>1, <1>2, <1>5, <1>6
<1> QED
  BY <1>1, <1>3, <1>5, <1>7, <1>8 DEF end

\* The reviews of a mate, in any order that puts the latest first.
LEMMA Latest ==
  ASSUME ReviewTypes, NEW m, NEW rows \in LatestFirst(ReviewsOf(m))
  PROVE  /\ rows \in Seq(Nat) /\ Len(rows) = Cardinality(ReviewsOf(m))
         /\ \A i \in 1..Len(rows) : rows[i] \in ReviewsOf(m) /\ ReviewedAt[rows[i]] \in Nat
         /\ \A id \in ReviewsOf(m) : \E i \in 1..Len(rows) : rows[i] = id
         /\ \A i, j \in 1..Len(rows) :
              i < j => ReviewedAt[rows[i]] >= ReviewedAt[rows[j]] /\ rows[i] # rows[j]
<1> DEFINE ids == ReviewsOf(m)
           before == {p \in ids \X ids : ReviewedAt[p[1]] > ReviewedAt[p[2]]}
<1>1. ids \subseteq Nat /\ IsFiniteSet(ids) /\ \A id \in ids : ReviewedAt[id] \in Nat
  BY ReviewsOfMate, DiscoveryAssumption
<1>2. rows \in Sortings(ids, before)
  BY DEF LatestFirst
<1> HIDE DEF ids
<1>3. \A x, y \in ids : <<x, y>> \in before <=> ReviewedAt[x] > ReviewedAt[y]
  OBVIOUS
<1> HIDE DEF before
<1>5. SortsTo(ids, before, rows)
  BY <1>2, SortingIs
<1>6. rows \in Seq(ids) /\ Len(rows) = Cardinality(ids) /\ Cardinality(ids) \in Nat
  BY <1>1, <1>5, SortedSeq
<1>7. \A i, j \in 1..Len(rows) : i < j => rows[i] # rows[j]
  BY <1>1, <1>5, <1>6, SortedDistinct
<1> DEFINE n == Len(rows)
<1>8. /\ rows \in [1..n -> ids]
      /\ \A x \in ids : \E i \in 1..n : rows[i] = x
      /\ \A i, j \in 1..n : i < j => <<rows[j], rows[i]>> \notin before
  <2>1. n = Cardinality(ids)
    BY <1>6
  <2> HIDE DEF n
  <2> QED
    BY <1>5, <2>1 DEF SortsTo
<1>9. \A i, j \in 1..n : i < j => ReviewedAt[rows[i]] >= ReviewedAt[rows[j]]
  <2> SUFFICES ASSUME NEW i \in 1..n, NEW j \in 1..n, i < j
               PROVE  ReviewedAt[rows[i]] >= ReviewedAt[rows[j]]
    OBVIOUS
  <2>1. rows[i] \in ids /\ rows[j] \in ids
    BY <1>8, Zenon
  <2>2. <<rows[j], rows[i]>> \notin before
    BY <1>8, Zenon
  <2>3. ~(ReviewedAt[rows[j]] > ReviewedAt[rows[i]])
    BY <1>3, <2>1, <2>2
  <2>4. ReviewedAt[rows[i]] \in Nat /\ ReviewedAt[rows[j]] \in Nat
    BY <1>1, <2>1, Zenon
  <2> QED
    BY <2>3, <2>4
<1>10. rows \in Seq(Nat)
  <2>1. n \in Nat /\ n = Cardinality(ids)
    BY <1>6
  <2> HIDE DEF n
  <2>2. rows \in [1..n -> Nat]
    BY <1>1, <1>8
  <2> QED
    BY <2>1, <2>2
<1>11. \A i \in 1..n : rows[i] \in ids /\ ReviewedAt[rows[i]] \in Nat
  <2> HIDE DEF n
  <2> QED
    BY <1>1, <1>8, Zenon
<1> QED
  BY <1>6, <1>7, <1>8, <1>9, <1>10, <1>11 DEF ids

\* Two such orders differ in the reviews of one instant only: if one of them had a later
\* review at a place, then of the reviews as late as that there would be more in the one
\* than in the other.
LEMMA InstantsAgree ==
  ASSUME ReviewTypes, NEW m, NEW rows \in LatestFirst(ReviewsOf(m)),
         NEW others \in LatestFirst(ReviewsOf(m)), NEW k \in 1..Len(rows)
  PROVE  ReviewedAt[rows[k]] <= ReviewedAt[others[k]]
<1> DEFINE total == Len(rows)
<1>1. /\ Len(others) = total /\ total \in Nat
      /\ \A i \in 1..total : rows[i] \in ReviewsOf(m) /\ ReviewedAt[rows[i]] \in Nat
      /\ \A i \in 1..total : ReviewedAt[others[i]] \in Nat
      /\ \A id \in ReviewsOf(m) : \E i \in 1..total : others[i] = id
      /\ \A i, j \in 1..total :
           i < j => ReviewedAt[rows[i]] >= ReviewedAt[rows[j]] /\ rows[i] # rows[j]
      /\ \A i, j \in 1..total : i < j => ReviewedAt[others[i]] >= ReviewedAt[others[j]]
  BY Latest
<1>2. k \in 1..total
  OBVIOUS
<1> HIDE DEF total
<1> SUFFICES ASSUME ReviewedAt[rows[k]] > ReviewedAt[others[k]] PROVE FALSE
  BY <1>1, <1>2
<1>3. \A i \in 1..k : i \in 1..total /\ ReviewedAt[rows[i]] > ReviewedAt[others[k]]
  <2> SUFFICES ASSUME NEW i \in 1..k
               PROVE  i \in 1..total /\ ReviewedAt[rows[i]] > ReviewedAt[others[k]]
    OBVIOUS
  <2>1. i \in 1..total /\ (i = k \/ i < k)
    BY <1>1, <1>2
  <2>2. ReviewedAt[rows[i]] >= ReviewedAt[rows[k]]
    BY <1>1, <1>2, <2>1
  <2> QED
    BY <1>1, <1>2, <2>1, <2>2
<1>4. \A i \in 1..k : \E j \in 1..k - 1 : others[j] = rows[i]
  <2> SUFFICES ASSUME NEW i \in 1..k PROVE \E j \in 1..k - 1 : others[j] = rows[i]
    OBVIOUS
  <2>1. PICK j \in 1..total : others[j] = rows[i]
    BY <1>1, <1>3
  <2>2. ReviewedAt[others[j]] > ReviewedAt[others[k]]
    BY <1>3, <2>1
  <2>3. j < k
    <3>1. ReviewedAt[others[j]] \in Nat /\ ReviewedAt[others[k]] \in Nat
      BY <1>1, <1>2
    <3>2. ~(k < j) /\ j # k
      BY <1>1, <1>2, <2>2, <3>1
    <3> QED
      BY <1>1, <1>2, <3>2
  <2> QED
    BY <1>1, <1>2, <2>1, <2>3
<1> DEFINE place == [i \in 1..k |-> CHOOSE j \in 1..k - 1 : others[j] = rows[i]]
<1>5. place \in [1..k -> 1..k - 1] /\ \A i \in 1..k : others[place[i]] = rows[i]
  BY <1>4
<1> HIDE DEF place
<1>6. k \in Nat /\ k - 1 \in Nat
  BY <1>1, <1>2
<1>7. /\ IsFiniteSet(1..k) /\ IsFiniteSet(1..k - 1)
      /\ Cardinality(1..k) = k /\ Cardinality(1..k - 1) = k - 1
  <2>1. 1 \in Int /\ k \in Int /\ k - 1 \in Int
    BY <1>6
  <2>2. IsFiniteSet(1..k) /\ Cardinality(1..k) = IF 1 > k THEN 0 ELSE k - 1 + 1
    BY <2>1, FS_Interval, Zenon
  <2>3. /\ IsFiniteSet(1..k - 1)
        /\ Cardinality(1..k - 1) = IF 1 > k - 1 THEN 0 ELSE k - 1 - 1 + 1
    BY <2>1, FS_Interval, Zenon
  <2> QED
    BY <1>6, <2>2, <2>3
<1>8. PICK x \in 1..k : \E y \in 1..k : x # y /\ place[x] = place[y]
  <2>1. Cardinality(1..k - 1) < Cardinality(1..k)
    BY <1>6, <1>7
  <2>2. place \in [1..k -> 1..k - 1]
    BY <1>5
  <2> QED
    BY <1>7, <2>1, <2>2, FS_PigeonHole, Zenon
<1>9. PICK y \in 1..k : x # y /\ place[x] = place[y]
  BY <1>8
<1>10. rows[x] = rows[y]
  BY <1>5, <1>9
<1>11. x \in 1..total /\ y \in 1..total /\ (x < y \/ y < x)
  <2>1. x \in 1..total /\ y \in 1..total
    BY <1>3
  <2> QED
    BY <1>9, <2>1
<1> QED
  BY <1>1, <1>10, <1>11

\* A page is that piece of the order in which the database returned the reviews.
PageOf(items, rows, p, total) ==
  /\ DOMAIN items = 1..Len(items) /\ Len(items) \in Nat /\ Len(items) <= ReviewLimit
  /\ \A i \in 1..Len(items) :
       /\ (p - 1) * ReviewLimit + i \in 1..total
       /\ items[i] = rows[(p - 1) * ReviewLimit + i]
  /\ \A i \in 1..ReviewLimit : (p - 1) * ReviewLimit + i <= total => i \in 1..Len(items)

LEMMA PageIs ==
  ASSUME NEW rows \in Seq(Nat), NEW total, total = Len(rows), NEW p \in Nat \ {0}
  PROVE  PageOf(Slice(rows, p, ReviewLimit), rows, p, total)
<1> DEFINE first == (p - 1) * ReviewLimit
           last == p * ReviewLimit
           items == Slice(rows, p, ReviewLimit)
<1>1. ReviewLimit \in Nat \ {0} /\ Len(rows) \in Nat
  BY DiscoveryAssumption
<1>2. /\ first \in Nat /\ last = first + ReviewLimit
      /\ items \in Seq(Nat)
      /\ Len(items) = IF first >= Len(rows) THEN 0 ELSE Smaller(last, Len(rows)) - first
      /\ \A i \in 1..Len(items) : first + i <= Len(rows) /\ items[i] = rows[first + i]
  BY <1>1, SliceIs
<1> HIDE DEF first, last, items
<1>3. DOMAIN items = 1..Len(items) /\ Len(items) \in Nat
  BY <1>2
<1>4. Len(items) <= ReviewLimit
  BY <1>1, <1>2 DEF Smaller
<1>5. \A i \in 1..Len(items) : first + i \in 1..Len(rows) /\ items[i] = rows[first + i]
  BY <1>1, <1>2, <1>3
<1>6. \A i \in 1..ReviewLimit : first + i <= total => i \in 1..Len(items)
  BY <1>1, <1>2 DEF Smaller
<1> QED
  BY <1>3, <1>4, <1>5, <1>6 DEF first, items, PageOf

\* The list, the page of a mate and the pages of its reviews agree.
LEMMA ReviewPagesAgree == ReviewTypes => ReviewsAgree
<1> SUFFICES ASSUME ReviewTypes, NEW m \in Mates,
                    NEW order \in [1..TotalPages(Cardinality(ReviewsOf(m)), ReviewLimit)
                                     -> LatestFirst(ReviewsOf(m))]
             PROVE  LET ids == ReviewsOf(m)
                        pages == 1..TotalPages(Cardinality(ids), ReviewLimit)
                        Page(p) == ReviewPage(m, p, order[p])
                        Items(p) == Page(p).items IN
                    /\ \A p \in pages : /\ Page(p).average = ListedRating(m)
                                        /\ ToSet(Items(p)) \subseteq ids
                    /\ \A id \in ids : Untied(ids, id) => \E p \in pages : id \in ToSet(Items(p))
                    /\ \A p, n \in pages : \A i \in DOMAIN Items(p), j \in DOMAIN Items(n) :
                         p < n \/ (p = n /\ i < j) =>
                           /\ ReviewedAt[Items(p)[i]] >= ReviewedAt[Items(n)[j]]
                           /\ Items(p)[i] = Items(n)[j] => p # n /\ ~Untied(ids, Items(p)[i])
  BY DetailIsListed, Zenon DEF ReviewsAgree
<1> DEFINE ids == ReviewsOf(m)
           total == Cardinality(ids)
           count == TotalPages(total, ReviewLimit)
           pages == 1..count
           Page(p) == ReviewPage(m, p, order[p])
           Items(p) == Page(p).items
<1>1. \A p : Items(p) = Slice(order[p], p, ReviewLimit)
  BY DEF ReviewPage
<1>2. \A p : Page(p).average = ListedRating(m)
  BY Zenon DEF ReviewPage, ListedRating
<1> HIDE DEF Items, Page
<1>3. ReviewLimit \in Nat \ {0}
  BY DiscoveryAssumption
<1>4. total \in Nat
  BY ReviewsOfMate, FS_CardinalityType
<1>5. ASSUME NEW p \in pages
      PROVE  /\ order[p] \in LatestFirst(ids)
             /\ order[p] \in Seq(Nat) /\ Len(order[p]) = total
             /\ \A i \in 1..total : order[p][i] \in ids /\ ReviewedAt[order[p][i]] \in Nat
             /\ \A id \in ids : \E i \in 1..total : order[p][i] = id
             /\ \A i, j \in 1..total :
                  i < j => ReviewedAt[order[p][i]] >= ReviewedAt[order[p][j]]
                           /\ order[p][i] # order[p][j]
  <2>1. order[p] \in LatestFirst(ids)
    BY <1>5
  <2> QED
    BY <2>1, Latest
<1>6. ASSUME NEW p \in pages, NEW n \in pages, NEW k \in 1..total
      PROVE  ReviewedAt[order[p][k]] = ReviewedAt[order[n][k]]
  <2>1. ReviewedAt[order[p][k]] <= ReviewedAt[order[n][k]]
    BY <1>5, InstantsAgree
  <2>2. ReviewedAt[order[n][k]] <= ReviewedAt[order[p][k]]
    BY <1>5, InstantsAgree
  <2>3. ReviewedAt[order[p][k]] \in Nat /\ ReviewedAt[order[n][k]] \in Nat
    BY <1>5, Zenon
  <2> QED
    BY <2>1, <2>2, <2>3
<1> HIDE DEF ids, total
<1>7. count \in Nat /\ \A p \in Nat : p < count <=> p * ReviewLimit < total
  BY <1>3, <1>4, PagesHold, MorePages
<1> HIDE DEF count
<1>8. \A p \in pages : p \in Nat \ {0} /\ PageOf(Items(p), order[p], p, total)
  <2> SUFFICES ASSUME NEW p \in pages
               PROVE  p \in Nat \ {0} /\ PageOf(Items(p), order[p], p, total)
    OBVIOUS
  <2>1. p \in Nat \ {0}
    BY <1>7
  <2>2. order[p] \in Seq(Nat) /\ Len(order[p]) = total
    BY <1>5
  <2>3. PageOf(Slice(order[p], p, ReviewLimit), order[p], p, total)
    BY <2>1, <2>2, PageIs
  <2> QED
    BY <1>1, <2>1, <2>3
<1>9. \A p \in pages : ToSet(Items(p)) \subseteq ids
  <2> SUFFICES ASSUME NEW p \in pages PROVE ToSet(Items(p)) \subseteq ids
    OBVIOUS
  <2>1. \A i \in DOMAIN Items(p) : Items(p)[i] \in ids
    <3>1. \A i \in 1..total : order[p][i] \in ids
      BY <1>5
    <3>2. PageOf(Items(p), order[p], p, total)
      BY <1>8
    <3> QED
      BY <3>1, <3>2 DEF PageOf
  <2> QED
    BY <2>1 DEF ToSet
<1>10. ASSUME NEW id \in ids, Untied(ids, id)
       PROVE  \E p \in pages : id \in ToSet(Items(p))
  <2>1. 1 \in pages
    <3>1. total # 0
      <4>1. ids # {} /\ IsFiniteSet(ids)
        BY <1>10, ReviewsOfMate DEF ids
      <4> QED
        BY <4>1, FS_EmptySet DEF total
    <3>2. 0 * ReviewLimit < total
      BY <1>3, <1>4, <3>1
    <3> QED
      BY <1>7, <3>2
  <2>2. PICK k \in 1..total : order[1][k] = id
    BY <1>5, <2>1
  <2> DEFINE q == (k - 1) \div ReviewLimit
             r == (k - 1) % ReviewLimit
             p == q + 1
             i == r + 1
  <2>3. k \in Nat /\ k - 1 \in Nat /\ k <= total
    BY <1>4
  <2>4. q \in Nat /\ k - 1 = q * ReviewLimit + r /\ r \in 0 .. ReviewLimit - 1
    BY <1>3, <2>3
  <2> HIDE DEF q, r
  <2>5. q * ReviewLimit \in Nat /\ q * ReviewLimit < total
    BY <1>3, <1>4, <2>3, <2>4
  <2>6. q < count
    BY <1>7, <2>4, <2>5
  <2>7. p \in pages /\ p - 1 = q
    BY <1>7, <2>4, <2>6
  <2>8. i \in 1..ReviewLimit /\ q * ReviewLimit + i = k
    BY <1>3, <2>3, <2>4, <2>5
  <2> HIDE DEF p, i
  <2>9. (p - 1) * ReviewLimit + i = k
    BY <2>7, <2>8
  <2>10. i \in DOMAIN Items(p) /\ Items(p)[i] = order[p][k]
    BY <1>8, <2>3, <2>7, <2>8, <2>9 DEF PageOf
  <2>11. ReviewedAt[order[p][k]] = ReviewedAt[id] /\ order[p][k] \in ids
    BY <1>5, <1>6, <2>1, <2>2, <2>7
  <2>12. order[p][k] = id
    BY <1>10, <2>11 DEF Untied
  <2> QED
    BY <2>7, <2>10, <2>12 DEF ToSet
<1>11. ASSUME NEW p \in pages, NEW n \in pages,
              NEW i \in DOMAIN Items(p), NEW j \in DOMAIN Items(n), p < n \/ (p = n /\ i < j)
       PROVE  /\ ReviewedAt[Items(p)[i]] >= ReviewedAt[Items(n)[j]]
              /\ Items(p)[i] = Items(n)[j] => p # n /\ ~Untied(ids, Items(p)[i])
  <2> DEFINE x == (p - 1) * ReviewLimit + i
             y == (n - 1) * ReviewLimit + j
  <2>1. i \in 1..Len(Items(p)) /\ j \in 1..Len(Items(n)) /\ i <= ReviewLimit
    BY <1>3, <1>8 DEF PageOf
  <2>2. /\ x \in 1..total /\ Items(p)[i] = order[p][x]
        /\ y \in 1..total /\ Items(n)[j] = order[n][y]
    BY <1>8, <2>1 DEF PageOf
  <2>3. p \in Nat \ {0} /\ n \in Nat \ {0} /\ i \in Nat \ {0} /\ j \in Nat \ {0}
    BY <1>8, <2>1 DEF PageOf
  <2>4. x < y
    <3>1. CASE p < n
      <4>1. p * ReviewLimit <= (n - 1) * ReviewLimit
        BY <1>3, <2>3, <3>1
      <4>2. p * ReviewLimit = (p - 1) * ReviewLimit + ReviewLimit
        BY <1>3, <2>3
      <4>3. (p - 1) * ReviewLimit \in Nat /\ (n - 1) * ReviewLimit \in Nat
        BY <1>3, <2>3
      <4> QED
        BY <1>3, <2>1, <2>3, <4>1, <4>2, <4>3
    <3>2. CASE p = n /\ i < j
      <4>1. (p - 1) * ReviewLimit \in Nat
        BY <1>3, <2>3
      <4> QED
        BY <2>3, <3>2, <4>1
    <3> QED
      BY <1>11, <3>1, <3>2
  <2> HIDE DEF x, y
\* The place x holds a review of the same instant on either page, y a later place.
  <2>5. /\ ReviewedAt[order[p][x]] = ReviewedAt[order[n][x]]
        /\ ReviewedAt[order[n][x]] >= ReviewedAt[order[n][y]]
        /\ order[n][x] # order[n][y] /\ order[n][x] \in ids
    BY <1>5, <1>6, <2>2, <2>4
  <2>6. ASSUME order[p][x] = order[n][y] PROVE p # n /\ ~Untied(ids, order[p][x])
    BY <2>5, <2>6 DEF Untied
  <2> QED
    BY <2>2, <2>5, <2>6
<1> QED
  BY <1>2, <1>9, <1>10, <1>11, Zenon DEF pages, count, total, ids, Items, Page

(***************************************************************************)
(* The list                                                                *)
(***************************************************************************)

Walk == [pc : {"ask", "answer", "done"}, query : Queries, page : Nat \ {0},
         mates : SUBSET Mates, seen : Seq(Mates), calm : BOOLEAN]

WalkTypes == active \subseteq Mates /\ (walk = NoWalk \/ walk \in Walk)

Begins(seen, rows) ==
  Len(seen) <= Len(rows) /\ \A k \in 1..Len(seen) : seen[k] = rows[k]

\* What was seen is all of the list before this page, of which there is something left.
BeforePage(seen, rows, page) ==
  /\ Len(seen) = (page - 1) * Limit
  /\ page = 1 \/ Len(seen) < Len(rows)
  /\ Begins(seen, rows)

\* What a walk of q has seen of the list is its beginning as it stands now.
Reached(q, mates) ==
  LET rows == ListedRows(q, mates) IN
  /\ walk.pc = "answer" => walk.mates = mates
  /\ walk.pc # "done" => BeforePage(walk.seen, rows, walk.page)
  /\ walk.pc = "done" => Len(walk.seen) = Len(rows) /\ Begins(walk.seen, rows)

\* The inductive invariant of a walk during which nothing changed that it depends on.
CalmWalk ==
  \A q \in Queries, mates \in SUBSET Mates :
    ~Walks("none") /\ walk.calm /\ walk.query = q /\ active = mates => Reached(q, mates)

\* A list shows a rating for a mate that has reviews, and only then.
LEMMA RatingIs ==
  ASSUME ReviewTypes, NEW m
  PROVE  /\ ReviewsOf(m) = {} => ListedRating(m) = NoRating
         /\ ReviewsOf(m) # {} => ListedRating(m) \in Nat
<1> DEFINE ids == ReviewsOf(m)
           f == [id \in ids |-> review[id].rating]
<1>1. IsFiniteSet(ids) /\ \A id \in ids : f[id] \in Nat
  BY ReviewsOfMate
<1>2. RatingSum(ids) = SumFunctionOnSet(f, ids)
  BY DEF RatingSum, SumFunction
<1> HIDE DEF ids, f
<1>3. RatingSum(ids) \in Nat
  BY <1>1, <1>2, SumNat
<1>4. ids # {} => Cardinality(ids) \in Nat \ {0}
  BY <1>1, FS_CardinalityType, FS_EmptySet
<1>5. ASSUME NEW sum \in Nat, NEW count \in Nat \ {0}
      PROVE  Tenths(sum, count) \in Nat
  <2>1. 20 * sum + count \in Nat /\ 2 * count \in Nat \ {0}
    OBVIOUS
  <2>2. \A a \in Nat, b \in Nat \ {0} : a \div b \in Nat
    OBVIOUS
  <2> QED
    BY <2>1, <2>2 DEF Tenths
<1>6. ids # {} => Tenths(RatingSum(ids), Cardinality(ids)) \in Nat
  BY <1>3, <1>4, <1>5
<1>7. ListedRating(m) = IF ids = {} THEN NoRating ELSE Tenths(RatingSum(ids), Cardinality(ids))
  BY DEF ListedRating, ids
<1> QED
  BY <1>6, <1>7 DEF ids

LEMMA KeyIs ==
  ASSUME ReviewTypes, NEW q \in Queries, NEW m \in Mates
  PROVE  Key(q, m) \in Int
<1>1. ListedRating(m) \in Int
  BY RatingIs DEF NoRating
<1>2. HourlyRate[m] \in Int /\ CreatedAt[m] \in Int
  BY DiscoveryAssumption
<1>3. q.sort \in {"rating", "rate", "createdAt"}
  BY DiscoveryAssumption
<1>4. CASE q.sort = "rating"
  <2>1. q.sort # "rate" /\ q.sort # "createdAt"
    BY <1>4
  <2>2. Key(q, m) = ListedRating(m)
    BY <1>4, <2>1 DEF Key
  <2> QED
    BY <1>1, <2>2
<1>5. CASE q.sort = "rate"
  <2>1. q.sort # "rating" /\ q.sort # "createdAt"
    BY <1>5
  <2>2. Key(q, m) = HourlyRate[m]
    BY <1>5, <2>1 DEF Key
  <2> QED
    BY <1>2, <2>2
<1>6. CASE q.sort = "createdAt"
  <2>1. q.sort # "rating" /\ q.sort # "rate"
    BY <1>6
  <2>2. Key(q, m) = CreatedAt[m]
    BY <1>6, <2>1 DEF Key
  <2> QED
    BY <1>2, <2>2
<1> QED
  BY <1>3, <1>4, <1>5, <1>6

\* The order of the list is the one that was asked for, and leaves nothing open.
LEMMA LessIs ==
  ASSUME ReviewTypes, NEW q \in Queries, NEW m \in Mates, NEW n \in Mates
  PROVE  Less(q, m, n) <=> InOrder(q, m, n)
<1>1. Key(q, m) \in Int /\ Key(q, n) \in Int /\ q.descending \in BOOLEAN
  BY KeyIs, DiscoveryAssumption
<1>2. CASE q.descending
  <2>1. Less(q, m, n) <=> IF Key(q, m) = Key(q, n) THEN m < n ELSE ~(Key(q, m) < Key(q, n))
    BY <1>1, <1>2 DEF Less
  <2>2. InOrder(q, m, n) <=> (Key(q, m) = Key(q, n) /\ m < n) \/ Key(q, m) > Key(q, n)
    BY <1>2 DEF InOrder
  <2> QED
    BY <1>1, <2>1, <2>2
<1>3. CASE ~q.descending
  <2>1. Less(q, m, n) <=> IF Key(q, m) = Key(q, n) THEN m < n ELSE Key(q, m) < Key(q, n)
    BY <1>1, <1>3 DEF Less
  <2>2. InOrder(q, m, n) <=> (Key(q, m) = Key(q, n) /\ m < n) \/ Key(q, m) < Key(q, n)
    BY <1>3 DEF InOrder
  <2> QED
    BY <1>1, <2>1, <2>2
<1> QED
  BY <1>2, <1>3

LEMMA InOrderIs ==
  ASSUME ReviewTypes, NEW q \in Queries, NEW x \in Mates, NEW y \in Mates
  PROVE  /\ InOrder(q, x, y) => ~InOrder(q, y, x)
         /\ \A z \in Mates : InOrder(q, x, z) => InOrder(q, x, y) \/ InOrder(q, y, z)
         /\ x # y => InOrder(q, x, y) \/ InOrder(q, y, x)
<1>1. \A m \in Mates : Key(q, m) \in Int /\ m \in Nat
  BY KeyIs, DiscoveryAssumption
<1>2. CASE q.descending
  BY <1>1, <1>2 DEF InOrder
<1>3. CASE ~q.descending
  BY <1>1, <1>3 DEF InOrder
<1> QED
  BY <1>2, <1>3

\* The rows of the list, in its order, each once.
LEMMA RowsAre ==
  ASSUME ReviewTypes, NEW q \in Queries, NEW mates \in SUBSET Mates,
         NEW list, list = ListedRows(q, mates)
  PROVE  /\ list \in Seq(Mates)
         /\ {list[i] : i \in 1..Len(list)} = {m \in mates : Passes(q, m)}
         /\ \A i, j \in 1..Len(list) : i < j => InOrder(q, list[i], list[j])
<1> DEFINE rows == {m \in mates : Passes(q, m)}
           before == {p \in rows \X rows : Less(q, p[1], p[2])}
<1>1. rows \subseteq Mates /\ IsFiniteSet(rows)
  BY DiscoveryAssumption, FS_Subset
<1>2. list = Sorted(rows, before)
  BY DEF ListedRows
<1> HIDE DEF rows
<1>3. \A x, y \in rows : <<x, y>> \in before <=> InOrder(q, x, y)
  <2>1. \A x, y \in rows : Less(q, x, y) <=> InOrder(q, x, y)
    BY <1>1, LessIs
  <2>2. \A x, y \in rows : <<x, y>> \in before <=> Less(q, x, y)
    OBVIOUS
  <2> QED
    BY <2>1, <2>2, Zenon
<1> HIDE DEF before
<1>4. /\ \A x, y \in rows : InOrder(q, x, y) => ~InOrder(q, y, x)
      /\ \A x, y, z \in rows : InOrder(q, x, z) => InOrder(q, x, y) \/ InOrder(q, y, z)
      /\ \A x, y \in rows : x # y => InOrder(q, x, y) \/ InOrder(q, y, x)
  BY <1>1, InOrderIs
<1>5. Sortable(rows, before)
  BY <1>3, <1>4, Zenon DEF Sortable
<1>6. SortsTo(rows, before, list)
  BY <1>1, <1>2, <1>5, SortedIs
<1> DEFINE n == Len(list)
<1>7. n \in Nat /\ n = Cardinality(rows)
  BY <1>1, <1>6, SortedSeq
<1> HIDE DEF n
<1>8. /\ list \in [1..n -> rows]
      /\ \A x \in rows : \E i \in 1..n : list[i] = x
      /\ \A i, j \in 1..n : i < j => <<list[j], list[i]>> \notin before
      /\ \A i, j \in 1..n : i < j => list[i] # list[j]
  <2>1. \A i, j \in 1..n : i < j => list[i] # list[j]
    BY <1>1, <1>6, <1>7, SortedDistinct
  <2> QED
    BY <1>6, <1>7, <2>1 DEF SortsTo
<1>9. list \in Seq(Mates)
  <2>1. list \in [1..n -> Mates]
    BY <1>1, <1>8
  <2> QED
    BY <1>7, <2>1
<1>10. {list[i] : i \in 1..n} = rows
  <2>1. \A i \in 1..n : list[i] \in rows
    BY <1>8, Zenon
  <2> QED
    BY <1>8, <2>1, Zenon
<1>11. ASSUME NEW i \in 1..n, NEW j \in 1..n, i < j
       PROVE  InOrder(q, list[i], list[j])
  <2>1. list[i] \in rows /\ list[j] \in rows
    BY <1>8, Zenon
  <2>2. <<list[j], list[i]>> \notin before /\ list[i] # list[j]
    BY <1>8, <1>11, Zenon
  <2> QED
    BY <1>3, <1>4, <2>1, <2>2, Zenon
<1> QED
  BY <1>9, <1>10, <1>11 DEF n, rows

\* The filter keeps the mates that are wanted.
LEMMA FilterWants ==
  ASSUME ReviewTypes, SlotTypes, NEW q \in Queries, NEW m
  PROVE  Passes(q, m) <=> Wanted(q, m)
<1>1. HasOpenWindow <=> OpenIntervals # {}
  BY FilterAgrees DEF DiscoveryAgrees
<1>2. DetailRating(m) = ListedRating(m)
  BY DetailIsListed
<1>3. q.minRating \in Nat \cup {NoMinimum}
  BY DiscoveryAssumption
<1>4. (ReviewsOf(m) = {} /\ ListedRating(m) = NoRating)
        \/ (ReviewsOf(m) # {} /\ ListedRating(m) \in Nat)
  BY RatingIs
<1>5. (q.minRating # NoMinimum =>
         IF ListedRating(m) = NoRating THEN q.minRating = 0 ELSE ListedRating(m) >= q.minRating)
      <=> (q.minRating > 0 => ReviewsOf(m) # {} /\ DetailRating(m) >= q.minRating)
  BY <1>2, <1>3, <1>4 DEF NoRating, NoMinimum
<1> QED
  BY <1>1, <1>5, Zenon DEF Passes, Wanted

\* Whether there is an open window depends on nothing but the calendar.
SomethingIsFree == \E w \in weekly, r \in Interval : Inside(r, w) /\ FreeOf(r, booked)

LEMMA OpenWindowIs == SlotTypes => (HasOpenWindow <=> SomethingIsFree)
<1> SUFFICES ASSUME SlotTypes PROVE HasOpenWindow <=> SomethingIsFree
  OBVIOUS
<1>1. \A w \in weekly : w \in Interval
  BY DEF SlotTypes
<1>2. \A w \in weekly : SlotIsOpen(w) <=> \E r \in Interval : Inside(r, w) /\ FreeOf(r, booked)
  BY <1>1, SlotIsOpenIs
<1> QED
  BY <1>2, Zenon DEF HasOpenWindow, SomethingIsFree

LEMMA OpenWindowKept ==
  SlotTypes /\ SlotTypes' /\ UNCHANGED <<weekly, booked>> => (HasOpenWindow' <=> HasOpenWindow)
<1>1. SlotTypes' => (HasOpenWindow' <=> SomethingIsFree')
  BY OpenWindowIs, PTL
<1>2. UNCHANGED <<weekly, booked>> => (SomethingIsFree' <=> SomethingIsFree)
  BY DEF SomethingIsFree
<1> QED
  BY <1>1, <1>2, OpenWindowIs

\* A list stays as it is while nothing changes that its query depends on.
LEMMA RowsKept ==
  ASSUME SlotTypes, SlotTypes', NEW q \in Queries, NEW mates,
         review' = review \/ (q.sort # "rating" /\ q.minRating = NoMinimum),
         UNCHANGED <<weekly, booked>> \/ ~q.dated
  PROVE  ListedRows(q, mates)' = ListedRows(q, mates)
<1>1. review' = review => \A m : ListedRating(m)' = ListedRating(m)
  BY DEF ListedRating, ReviewsOf, Written, RatingSum
<1>2. q.dated => (HasOpenWindow' <=> HasOpenWindow)
  BY OpenWindowKept
<1>3. \A m : Passes(q, m)' <=> Passes(q, m)
  BY <1>1, <1>2 DEF Passes
<1>4. \A m : Key(q, m)' = Key(q, m)
  <2>1. CASE review' = review
    BY <1>1, <2>1, Zenon DEF Key
  <2>2. CASE q.sort # "rating"
    <3>1. q.sort \in {"rating", "rate", "createdAt"} /\ "rate" # "createdAt"
      BY DiscoveryAssumption
    <3>2. (q.sort = "rate" /\ q.sort # "createdAt") \/ (q.sort = "createdAt" /\ q.sort # "rate")
      BY <2>2, <3>1
    <3>3. \A m : Key(q, m) = IF q.sort = "rate" THEN HourlyRate[m] ELSE CreatedAt[m]
      BY <2>2, <3>2 DEF Key
    <3>4. \A m : Key(q, m)' = IF q.sort = "rate" THEN HourlyRate[m] ELSE CreatedAt[m]
      BY <2>2, <3>2 DEF Key
    <3> QED
      BY <3>3, <3>4
  <2> QED
    BY <2>1, <2>2
<1>5. \A m, n : Less(q, m, n)' <=> Less(q, m, n)
  BY <1>4 DEF Less
<1> DEFINE rows == {m \in mates : Passes(q, m)}
           before == {p \in rows \X rows : Less(q, p[1], p[2])}
<1>6. rows' = rows
  BY <1>3
<1>7. before' = before
  <2> HIDE DEF rows
  <2> QED
    BY <1>5, <1>6
<1>8. ListedRows(q, mates) = Sorted(rows, before)
      /\ ListedRows(q, mates)' = Sorted(rows', before')
  BY DEF ListedRows
<1> HIDE DEF rows, before
<1> QED
  BY <1>6, <1>7, <1>8

LEMMA NoWalkIs == NoWalk.pc = "none" /\ NoWalk \notin Walk /\ \A w \in Walk : w.pc # "none"
BY DEF NoWalk, Walk

\* A change that is told to the walk leaves it where it is, and calm only if the
\* query does not depend on it.
LEMMA DisturbedWalk ==
  ASSUME WalkTypes, NEW change \in {"active", "reviews", "slots"}, walk' = Disturbed(change)
  PROVE  /\ walk = NoWalk => walk' = NoWalk
         /\ walk \in Walk =>
              /\ walk' \in Walk
              /\ walk'.pc = walk.pc /\ walk'.query = walk.query /\ walk'.page = walk.page
              /\ walk'.mates = walk.mates /\ walk'.seen = walk.seen
              /\ walk'.calm =>
                   /\ walk.calm /\ change # "active"
                   /\ change = "reviews" => walk.query.sort # "rating"
                                            /\ walk.query.minRating = NoMinimum
                   /\ change = "slots" => ~walk.query.dated
<1>1. walk = NoWalk => walk' = NoWalk
  BY NoWalkIs DEF Disturbed
<1> SUFFICES ASSUME walk \in Walk
             PROVE  /\ walk' \in Walk
                    /\ walk'.pc = walk.pc /\ walk'.query = walk.query /\ walk'.page = walk.page
                    /\ walk'.mates = walk.mates /\ walk'.seen = walk.seen
                    /\ walk'.calm =>
                         /\ walk.calm /\ change # "active"
                         /\ change = "reviews" => walk.query.sort # "rating"
                                                  /\ walk.query.minRating = NoMinimum
                         /\ change = "slots" => ~walk.query.dated
  BY <1>1
<1>2. PICK calm : calm = (/\ walk.calm
                          /\ CASE change = "active"  -> FALSE
                               [] change = "reviews" -> walk.query.sort # "rating"
                                                        /\ walk.query.minRating = NoMinimum
                               [] change = "slots"   -> ~walk.query.dated)
  OBVIOUS
<1>3. walk' = [walk EXCEPT !.calm = calm]
  BY <1>2, NoWalkIs, Zenon DEF Disturbed
<1>4. walk.calm \in BOOLEAN /\ calm \in BOOLEAN
  BY <1>2, Zenon DEF Walk
<1>5. calm => /\ walk.calm /\ change # "active"
              /\ change = "reviews" => walk.query.sort # "rating"
                                       /\ walk.query.minRating = NoMinimum
              /\ change = "slots" => ~walk.query.dated
  <2>1. "active" # "reviews" /\ "active" # "slots" /\ "reviews" # "slots"
    OBVIOUS
  <2> QED
    BY <1>2, <2>1, Zenon
<1>6. /\ walk' \in Walk /\ walk'.calm = calm
      /\ walk'.pc = walk.pc /\ walk'.query = walk.query /\ walk'.page = walk.page
      /\ walk'.mates = walk.mates /\ walk'.seen = walk.seen
  BY <1>3, <1>4 DEF Walk
<1> QED
  BY <1>5, <1>6, Zenon

\* What a walk has reached stands while the list that it turns stays as it is.
LEMMA WalkKept ==
  ASSUME SlotTypes, SlotTypes', CalmWalk, walk \in Walk,
         walk'.pc = walk.pc /\ walk'.query = walk.query /\ walk'.page = walk.page,
         walk'.mates = walk.mates /\ walk'.seen = walk.seen,
         walk'.calm => /\ walk.calm /\ active' = active
                       /\ review' = review \/ (walk.query.sort # "rating"
                                               /\ walk.query.minRating = NoMinimum)
                       /\ UNCHANGED <<weekly, booked>> \/ ~walk.query.dated
  PROVE  CalmWalk'
<1> SUFFICES ASSUME NEW q \in Queries, NEW mates \in SUBSET Mates,
                    walk'.calm, walk'.query = q, active' = mates
             PROVE  Reached(q, mates)'
  BY DEF CalmWalk
<1>1. walk.pc # "none"
  BY NoWalkIs
<1>2. Reached(q, mates)
  BY <1>1 DEF CalmWalk, Walks
<1>3. ListedRows(q, mates)' = ListedRows(q, mates)
  BY RowsKept
<1> QED
  BY <1>2, <1>3 DEF Reached

LEMMA DisturbedKept ==
  ASSUME SlotTypes, SlotTypes', WalkTypes, CalmWalk,
         NEW change \in {"active", "reviews", "slots"}, walk' = Disturbed(change),
         change # "active" => active' = active,
         change # "reviews" => review' = review,
         change # "slots" => UNCHANGED <<weekly, booked>>,
         active' \subseteq Mates
  PROVE  WalkTypes' /\ CalmWalk'
<1>1. CASE walk = NoWalk
  <2>1. walk' = NoWalk
    BY <1>1, DisturbedWalk
  <2> QED
    BY <2>1, NoWalkIs DEF WalkTypes, CalmWalk, Walks
<1>2. CASE walk \in Walk
  <2>1. /\ walk' \in Walk
        /\ walk'.pc = walk.pc /\ walk'.query = walk.query /\ walk'.page = walk.page
        /\ walk'.mates = walk.mates /\ walk'.seen = walk.seen
        /\ walk'.calm =>
             /\ walk.calm /\ change # "active"
             /\ change = "reviews" => walk.query.sort # "rating"
                                      /\ walk.query.minRating = NoMinimum
             /\ change = "slots" => ~walk.query.dated
    BY <1>2, DisturbedWalk
  <2>2. CalmWalk'
    BY <1>2, <2>1, WalkKept
  <2> QED
    BY <2>1, <2>2 DEF WalkTypes
<1> QED
  BY <1>1, <1>2 DEF WalkTypes

\* A new walk has seen nothing.
ListsOfMates == \A q \in Queries, mates \in SUBSET Mates : ListedRows(q, mates) \in Seq(Mates)

LEMMA ListsAreOfMates == ReviewTypes => ListsOfMates
BY RowsAre DEF ListsOfMates

LEMMA OpenStep ==
  WalkTypes /\ ReviewTypes' /\ (\E q \in Queries : Open(q)) => WalkTypes' /\ CalmWalk'
<1>1. ReviewTypes' => ListsOfMates'
  BY ListsAreOfMates, PTL
<1> SUFFICES ASSUME WalkTypes, ListsOfMates', NEW query \in Queries, Open(query)
             PROVE  WalkTypes' /\ CalmWalk'
  BY <1>1
<1>2. /\ walk' = [pc |-> "ask", query |-> query, page |-> 1, mates |-> {}, seen |-> <<>>,
                  calm |-> TRUE]
      /\ active' = active
  BY DEF Open
<1>3. WalkTypes'
  <2>1. walk' \in Walk
    BY <1>2 DEF Walk
  <2> QED
    BY <1>2, <2>1 DEF WalkTypes
<1>4. ASSUME NEW q \in Queries, NEW mates \in SUBSET Mates PROVE Reached(q, mates)'
  <2>1. Len(<<>>) = 0 /\ (1 - 1) * Limit = 0
    BY DiscoveryAssumption
  <2>2. walk'.pc = "ask" /\ walk'.page = 1 /\ walk'.seen = <<>>
    BY <1>2
  <2>3. Len(ListedRows(q, mates)') \in Nat
    BY DEF ListsOfMates
  <2> QED
    BY <2>1, <2>2, <2>3 DEF Reached, Begins, BeforePage
<1> QED
  BY <1>3, <1>4 DEF CalmWalk

\* The request for a page has read the mates.
LEMMA AskedStep ==
  ASSUME SlotTypes, SlotTypes', WalkTypes, CalmWalk, ListMates
  PROVE  WalkTypes' /\ CalmWalk'
<1>1. walk.pc = "ask" /\ walk' = [walk EXCEPT !.pc = "answer", !.mates = active]
      /\ active' = active /\ review' = review /\ UNCHANGED <<weekly, booked>>
  BY DEF ListMates, Walks, reviewVars, slotVars
<1>2. walk \in Walk /\ active \subseteq Mates
  BY <1>1, NoWalkIs DEF WalkTypes
<1>3. /\ walk' \in Walk /\ walk'.pc = "answer" /\ walk'.mates = active
      /\ walk'.query = walk.query /\ walk'.page = walk.page /\ walk'.seen = walk.seen
      /\ walk'.calm = walk.calm
  BY <1>1, <1>2 DEF Walk
<1>4. ASSUME NEW q \in Queries, NEW mates \in SUBSET Mates,
             walk.calm, walk.query = q, active = mates
      PROVE  Reached(q, mates)'
  <2>1. Reached(q, mates)
    BY <1>1, <1>4 DEF CalmWalk, Walks
  <2>2. ListedRows(q, mates)' = ListedRows(q, mates)
    BY <1>1, RowsKept
  <2> QED
    BY <1>1, <1>3, <1>4, <2>1, <2>2 DEF Reached
<1>5. CalmWalk'
  BY <1>1, <1>3, <1>4 DEF CalmWalk
<1> QED
  BY <1>1, <1>2, <1>3, <1>5 DEF WalkTypes

\* The next page continues what was seen, and the last one completes it.
LEMMA NextPage ==
  ASSUME NEW rows \in Seq(Mates), NEW page \in Nat \ {0}, NEW seen \in Seq(Mates),
         BeforePage(seen, rows, page), NEW now, now = seen \o Slice(rows, page, Limit)
  PROVE  IF page < TotalPages(Len(rows), Limit) THEN BeforePage(now, rows, page + 1)
         ELSE Len(now) = Len(rows) /\ Begins(now, rows)
<1> DEFINE first == (page - 1) * Limit
           last == page * Limit
           slice == Slice(rows, page, Limit)
           total == Len(rows)
<1>1. Limit \in Nat \ {0} /\ total \in Nat
  BY DiscoveryAssumption
<1>2. /\ first \in Nat /\ last = first + Limit
      /\ slice \in Seq(Mates)
      /\ Len(slice) = IF first >= total THEN 0 ELSE Smaller(last, total) - first
      /\ \A i \in 1..Len(slice) : first + i <= total /\ slice[i] = rows[first + i]
  BY <1>1, SliceIs
<1>3. page < TotalPages(total, Limit) <=> last < total
  BY <1>1, MorePages
<1>4. now = seen \o slice
  OBVIOUS
<1>5. Len(seen) = first /\ first <= total /\ \A k \in 1..first : seen[k] = rows[k]
  BY <1>1, <1>2 DEF Begins, BeforePage
<1> HIDE DEF first, last, slice, total
<1>6. /\ now \in Seq(Mates) /\ Len(now) = first + Len(slice)
      /\ \A k \in 1 .. first + Len(slice) :
           now[k] = IF k <= first THEN seen[k] ELSE slice[k - first]
  <2>1. /\ seen \o slice \in Seq(Mates) /\ Len(seen \o slice) = Len(seen) + Len(slice)
        /\ \A k \in 1 .. Len(seen) + Len(slice) :
             (seen \o slice)[k] = IF k <= Len(seen) THEN seen[k] ELSE slice[k - Len(seen)]
    BY <1>2, ConcatProperties
  <2> QED
    BY <1>4, <1>5, <2>1
<1>7. Len(slice) \in Nat
  BY <1>2
<1>8. /\ last < total => Len(now) = last
      /\ ~(last < total) => Len(now) = total
  BY <1>1, <1>2, <1>5, <1>6, <1>7 DEF Smaller
<1>9. ASSUME NEW k \in 1..Len(now) PROVE now[k] = rows[k]
  <2>1. k \in Nat \ {0} /\ k <= first + Len(slice)
    BY <1>2, <1>6, <1>7
  <2>2. CASE k <= first
    BY <1>2, <1>5, <1>6, <2>1, <2>2
  <2>3. CASE k > first
    <3> DEFINE i == k - first
    <3>1. i \in 1..Len(slice) /\ first + i = k /\ ~(k <= first) /\ k \in 1 .. first + Len(slice)
      BY <1>2, <1>7, <2>1, <2>3
    <3>2. now[k] = IF k <= first THEN seen[k] ELSE slice[i]
      BY <1>6, <3>1
    <3> HIDE DEF i
    <3>3. slice[i] = rows[k]
      BY <1>2, <3>1
    <3> QED
      BY <3>1, <3>2, <3>3
  <2> QED
    BY <1>2, <2>1, <2>2, <2>3
<1>10. Len(now) <= total
  BY <1>1, <1>2, <1>8
<1> QED
  <2>1. Begins(now, rows)
    BY <1>9, <1>10 DEF Begins, total
  <2>2. CASE last < total
    <3>1. ((page + 1) - 1) * Limit = last
      BY DEF last
    <3> QED
      BY <1>3, <1>8, <2>1, <2>2, <3>1 DEF total, BeforePage
  <2>3. CASE ~(last < total)
    BY <1>3, <1>8, <2>1, <2>3 DEF total
  <2> QED
    BY <2>2, <2>3

LEMMA AnsweredStep ==
  ASSUME ReviewTypes, SlotTypes, SlotTypes', WalkTypes, CalmWalk, ListAnswer
  PROVE  WalkTypes' /\ CalmWalk'
<1>1. walk.pc = "answer" /\ active' = active /\ review' = review /\ UNCHANGED <<weekly, booked>>
  BY DEF ListAnswer, Walks, reviewVars, slotVars
<1>2. walk \in Walk /\ active \subseteq Mates
  BY <1>1, NoWalkIs DEF WalkTypes
<1> DEFINE rows == ListedRows(walk.query, walk.mates)
           more == walk.page < TotalPages(Len(rows), Limit)
           slice == Slice(rows, walk.page, Limit)
<1>3. walk' = [walk EXCEPT !.pc = IF more THEN "ask" ELSE "done",
                           !.page = IF more THEN @ + 1 ELSE @,
                           !.mates = {},
                           !.seen = @ \o slice]
  BY DEF ListAnswer
<1>4. walk.query \in Queries /\ walk.mates \in SUBSET Mates /\ walk.page \in Nat \ {0}
      /\ walk.seen \in Seq(Mates) /\ walk.calm \in BOOLEAN
  BY <1>2 DEF Walk
<1>5. rows \in Seq(Mates)
  BY <1>4, RowsAre
<1>6. slice \in Seq(Mates)
  <2> HIDE DEF rows
  <2>1. Limit \in Nat \ {0}
    BY DiscoveryAssumption
  <2> QED
    BY <1>4, <1>5, <2>1, SliceIs
<1> HIDE DEF rows, slice
<1>7. walk.seen \o slice \in Seq(Mates)
  BY <1>4, <1>6
<1> HIDE DEF more
<1>8. /\ walk' \in Walk /\ walk'.calm = walk.calm /\ walk'.query = walk.query
      /\ walk'.seen = walk.seen \o slice
      /\ more => walk'.pc = "ask" /\ walk'.page = walk.page + 1
      /\ ~more => walk'.pc = "done" /\ walk'.page = walk.page
  <2>1. walk.page + 1 \in Nat \ {0}
    BY <1>4
  <2>2. CASE more
    BY <1>2, <1>3, <1>7, <2>1, <2>2 DEF Walk
  <2>3. CASE ~more
    BY <1>2, <1>3, <1>7, <2>3 DEF Walk
  <2> QED
    BY <2>2, <2>3
<1>9. ASSUME NEW q \in Queries, NEW mates \in SUBSET Mates,
             walk.calm, walk.query = q, active = mates
      PROVE  Reached(q, mates)'
  <2>1. Reached(q, mates)
    BY <1>1, <1>9 DEF CalmWalk, Walks
  <2>2. ListedRows(q, mates)' = ListedRows(q, mates)
    BY <1>1, RowsKept
  <2>3. walk.mates = mates /\ rows = ListedRows(q, mates)
    BY <1>1, <1>9, <2>1 DEF Reached, rows
  <2>4. BeforePage(walk.seen, rows, walk.page)
    BY <1>1, <2>1, <2>3 DEF Reached
  <2>5. walk'.seen = walk.seen \o Slice(rows, walk.page, Limit)
    BY <1>8 DEF slice
  <2>6. IF more THEN BeforePage(walk'.seen, rows, walk.page + 1)
        ELSE Len(walk'.seen) = Len(rows) /\ Begins(walk'.seen, rows)
    BY <1>4, <1>5, <2>4, <2>5, NextPage DEF more
  <2>7. CASE more
    BY <1>8, <2>2, <2>3, <2>6, <2>7 DEF Reached
  <2>8. CASE ~more
    BY <1>8, <2>2, <2>3, <2>6, <2>8 DEF Reached
  <2> QED
    BY <2>7, <2>8
<1>10. CalmWalk'
  BY <1>1, <1>8, <1>9 DEF CalmWalk
<1> QED
  BY <1>1, <1>2, <1>8, <1>10 DEF WalkTypes

LEMMA SlotsStep == SlotTypes /\ [SlotsNext]_slotVars => SlotTypes'
<1> SUFFICES ASSUME SlotTypes, [SlotsNext]_slotVars PROVE SlotTypes'
  OBVIOUS
<1> USE DEF SlotTypes
<1>1. CASE UNCHANGED slotVars
  BY <1>1 DEF slotVars
<1>2. ASSUME NEW w \in Interval, OpenWindow(w) \/ CloseWindow(w) PROVE SlotTypes'
  BY <1>2 DEF OpenWindow, CloseWindow
<1>3. ASSUME NEW b \in Interval, Book(b) PROVE SlotTypes'
  BY <1>3, FS_AddElement DEF Book
<1>4. ASSUME NEW b \in Interval, Release(b) PROVE SlotTypes'
  BY <1>4, FS_RemoveElement DEF Release
<1> QED
  BY <1>1, <1>2, <1>3, <1>4 DEF SlotsNext

\* Nothing else touches the calendar.
LEMMA NextIsSlotsStep == [Next]_vars => [SlotsNext]_slotVars
BY DEF Next, vars, slotVars, ToggleActive, Open, ListMates, ListAnswer

\* The inductive invariant of the readings.
DiscoveryInv == ReviewInv /\ SlotTypes /\ WalkTypes /\ CalmWalk

LEMMA WalkStep ==
  DiscoveryInv /\ ReviewInv' /\ SlotTypes' /\ [Next]_vars => WalkTypes' /\ CalmWalk'
<1> SUFFICES ASSUME ReviewTypes, SlotTypes, WalkTypes, CalmWalk, ReviewTypes', SlotTypes',
                    [Next]_vars
             PROVE  WalkTypes' /\ CalmWalk'
  BY DEF DiscoveryInv, ReviewInv
<1>1. CASE UNCHANGED vars
  <2>1. UNCHANGED <<walk, active, review, weekly, booked>>
    BY <1>1 DEF vars
  <2>2. CASE walk = NoWalk
    BY <2>1, <2>2, NoWalkIs DEF WalkTypes, CalmWalk, Walks
  <2>3. CASE walk \in Walk
    BY <2>1, <2>3, WalkKept DEF WalkTypes
  <2> QED
    BY <2>2, <2>3 DEF WalkTypes
<1>2. CASE /\ ReviewsNext
           /\ walk' = IF review' = review THEN walk ELSE Disturbed("reviews")
           /\ UNCHANGED <<slotVars, active>>
  <2>1. active' = active /\ active' \subseteq Mates /\ UNCHANGED <<weekly, booked>>
    BY <1>2 DEF slotVars, WalkTypes
  <2>2. CASE review' = review
    <3>1. walk' = walk
      BY <1>2, <2>2
    <3>2. CASE walk = NoWalk
      BY <2>1, <3>1, <3>2, NoWalkIs DEF WalkTypes, CalmWalk, Walks
    <3>3. CASE walk \in Walk
      BY <2>1, <2>2, <3>1, <3>3, WalkKept DEF WalkTypes
    <3> QED
      BY <3>2, <3>3 DEF WalkTypes
  <2>3. CASE review' # review
    <3>1. walk' = Disturbed("reviews")
      BY <1>2, <2>3
    <3> QED
      BY <2>1, <3>1, DisturbedKept
  <2> QED
    BY <2>2, <2>3
<1>3. CASE /\ SlotsNext
           /\ walk' = Disturbed("slots")
           /\ UNCHANGED <<reviewVars, active>>
  <2>1. active' = active /\ active' \subseteq Mates /\ review' = review
    BY <1>3 DEF reviewVars, WalkTypes
  <2> QED
    BY <1>3, <2>1, DisturbedKept
<1>4. ASSUME NEW m \in Mates, ToggleActive(m) PROVE WalkTypes' /\ CalmWalk'
  <2>1. /\ active' \subseteq Mates /\ review' = review /\ UNCHANGED <<weekly, booked>>
        /\ walk' = Disturbed("active")
    BY <1>4 DEF ToggleActive, WalkTypes, reviewVars, slotVars
  <2> QED
    BY <2>1, DisturbedKept
<1>5. CASE \E q \in Queries : Open(q)
  BY <1>5, OpenStep
<1>6. CASE ListMates
  BY <1>6, AskedStep
<1>7. CASE ListAnswer
  BY <1>7, AnsweredStep
<1> QED
  BY <1>1, <1>2, <1>3, <1>4, <1>5, <1>6, <1>7 DEF Next

\* The tables of Reviews and the calendar are typed, and a calm walk has seen the
\* beginning of the list as it stands.
THEOREM DiscoveryInvariant == Spec => []DiscoveryInv
<1>1. Init => DiscoveryInv
  <2>1. Init => SlotTypes
    BY FS_EmptySet DEF Init, SlotsInit, SlotTypes
  <2>2. Init => WalkTypes /\ CalmWalk
    BY NoWalkIs DEF Init, WalkTypes, CalmWalk, Walks
  <2> QED
    BY <2>1, <2>2, ReviewInvInit DEF DiscoveryInv
<1>2. DiscoveryInv /\ [Next]_vars => DiscoveryInv'
  BY ReviewStep, NextIsReviewStep, SlotsStep, NextIsSlotsStep, WalkStep DEF DiscoveryInv
<1> QED
  BY <1>1, <1>2, PTL DEF Spec

\* A walk that is done and was not disturbed has seen the mates that are wanted, in order.
LEMMA CalmWalkIsComplete == DiscoveryInv => WalkIsComplete
<1> SUFFICES ASSUME ReviewTypes, SlotTypes, WalkTypes, CalmWalk, walk.pc = "done", walk.calm
             PROVE  /\ ToSet(walk.seen) = {m \in active : Wanted(walk.query, m)}
                    /\ \A i, j \in 1..Len(walk.seen) :
                         i < j => InOrder(walk.query, walk.seen[i], walk.seen[j])
  BY DEF DiscoveryInv, ReviewInv, WalkIsComplete, Walks
<1> DEFINE q == walk.query
           seen == walk.seen
           rows == ListedRows(q, active)
<1>1. walk \in Walk /\ active \in SUBSET Mates
  BY NoWalkIs DEF WalkTypes
<1>2. q \in Queries /\ seen \in Seq(Mates)
  BY <1>1 DEF Walk
<1>3. /\ {rows[i] : i \in 1..Len(rows)} = {m \in active : Passes(q, m)}
      /\ \A i, j \in 1..Len(rows) : i < j => InOrder(q, rows[i], rows[j])
  BY <1>1, <1>2, RowsAre
<1>4. Reached(q, active)
  BY <1>1, <1>2 DEF CalmWalk, Walks
<1>5. Len(seen) = Len(rows) /\ \A k \in 1..Len(seen) : seen[k] = rows[k]
  BY <1>4 DEF Reached, Begins
<1>6. \A m \in active : Passes(q, m) <=> Wanted(q, m)
  BY <1>2, FilterWants
<1> HIDE DEF q, seen, rows
<1>7. ToSet(seen) = {seen[k] : k \in 1..Len(seen)}
  <2>1. DOMAIN seen = 1..Len(seen)
    BY <1>2
  <2> QED
    BY <2>1 DEF ToSet
<1>8. ToSet(seen) = {m \in active : Wanted(q, m)}
  BY <1>3, <1>5, <1>6, <1>7
<1>9. \A i, j \in 1..Len(seen) : i < j => InOrder(q, seen[i], seen[j])
  BY <1>3, <1>5
<1> QED
  BY <1>8, <1>9 DEF q, seen

\* Turning the pages of an undisturbed list shows each wanted mate once, in order.
THEOREM WalkTheorem == Spec => []WalkIsComplete
BY DiscoveryInvariant, CalmWalkIsComplete, PTL

\* A time can be booked exactly when it lies in what is shown as open.
THEOREM OffersTheorem == Spec => []OffersMatchBookings
<1>1. DiscoveryInv => OffersMatchBookings
  BY OffersMatch DEF DiscoveryInv
<1> QED
  BY <1>1, DiscoveryInvariant, PTL

\* The filter of the list finds a mate exactly when its page shows something open.
THEOREM FilterTheorem == Spec => []DiscoveryAgrees
<1>1. DiscoveryInv => DiscoveryAgrees
  BY FilterAgrees DEF DiscoveryInv
<1> QED
  BY <1>1, DiscoveryInvariant, PTL

\* The list, a mate's page and the pages of its reviews agree.
THEOREM ReviewsTheorem == Spec => []ReviewsAgree
<1>1. DiscoveryInv => ReviewsAgree
  BY ReviewPagesAgree DEF DiscoveryInv, ReviewInv
<1> QED
  BY <1>1, DiscoveryInvariant, PTL
===============================================================================
