----------------------------- MODULE Discovery -----------------------------
(***************************************************************************)
(* The public reading of the mates: the list of the discovery page         *)
(* (mate-discovery.service.ts), a mate's own page (mate-detail.service.ts) *)
(* and the pages of reviews (mate-review.service.ts), over the tables of   *)
(* Reviews and OpenSlots.  They keep no state.  A client that turns the    *)
(* pages of the list makes one request per page, and each request reads    *)
(* the mates first and the rest of the tables afterwards.                  *)
(*                                                                         *)
(* The filters on what does not change here (text, place, rate, lookups)   *)
(* are left out, and the ban of an owner, which hides a mate as the        *)
(* deactivation of the profile does.                                       *)
(***************************************************************************)
EXTENDS Reviews, OpenSlots

CONSTANTS Mates,          \* ids
          MateOf,         \* the mate of each booking
          HourlyRate, CreatedAt,
          ReviewedAt,     \* createdAt of the reviews
          CalendarOf,     \* the mate whose calendar OpenSlots holds
          Limit,          \* of a page of the list
          ReviewLimit,    \* of a page of reviews
          Queries         \* [sort, descending, minRating in tenths, dated]

NoRating == -1            \* null: before every number
NoMinimum == -1           \* a query without minRating

ASSUME DiscoveryAssumption ==
  /\ Queries \subseteq [sort : {"rating", "rate", "createdAt"}, descending : BOOLEAN,
                        minRating : Nat \cup {NoMinimum}, dated : BOOLEAN]
  /\ Mates \subseteq Nat /\ IsFiniteSet(Mates) /\ {Limit, ReviewLimit} \subseteq Nat \ {0}
  /\ MateOf \in [Bookings -> Mates] /\ CalendarOf \in Mates
  /\ HourlyRate \in [Mates -> Nat] /\ CreatedAt \in [Mates -> Nat]
  /\ ReviewedAt \in [ReviewIds -> Nat]

VARIABLES active,         \* mates whose profile is active
          walk            \* a client that turns the pages of the list

vars == <<completed, review, job, weekly, booked, active, walk>>

ReviewsOf(m) == {id \in Written : MateOf[review[id].booking] = m}
RatingSum(ids) == SumFunction([id \in ids |-> review[id].rating])

\* toFixed(1), in tenths; exact for the few reviews of a mate in an instance.
Tenths(sum, count) == (20 * sum + count) \div (2 * count)

(***************************************************************************)
(* list                                                                    *)
(***************************************************************************)

ListedRating(m) ==
  LET ids == ReviewsOf(m) IN
  IF ids = {} THEN NoRating ELSE Tenths(RatingSum(ids), Cardinality(ids))

\* minRating = 0 lets mates without a review pass, every other minimum does not.
Passes(q, m) ==
  /\ q.minRating # NoMinimum =>
       IF ListedRating(m) = NoRating THEN q.minRating = 0
       ELSE ListedRating(m) >= q.minRating
  /\ q.dated => m = CalendarOf /\ HasOpenWindow

Key(q, m) == CASE q.sort = "rating"    -> ListedRating(m)
               [] q.sort = "rate"      -> HourlyRate[m]
               [] q.sort = "createdAt" -> CreatedAt[m]

\* Mutant of Less: the direction turns the order of the ids, too.
LessTurned(q, m, n) ==
  LET x == Key(q, m)  y == Key(q, n) IN
  IF x = y THEN (m < n) # q.descending ELSE (x < y) # q.descending

\* The direction does not turn the order of the ids, which decides between equals.
Less(q, m, n) ==
  LET x == Key(q, m)  y == Key(q, n) IN
  IF x = y THEN m < n ELSE (x < y) # q.descending

ListedRows(q, mates) ==
  LET rows == {m \in mates : Passes(q, m)} IN
  Sorted(rows, {p \in rows \X rows : Less(q, p[1], p[2])})
TotalPages(total, limit) == (total + limit - 1) \div limit
Slice(rows, page, limit) ==
  SubSeq(rows, (page - 1) * limit + 1, Smaller(page * limit, Len(rows)))

NoWalk == [pc |-> "none"]
Walks(pc) == walk.pc = pc

\* What the walk has seen is no longer up to date if it depends on what changes.
Disturbed(change) ==
  IF walk.pc = "none" THEN walk
  ELSE [walk EXCEPT !.calm =
          /\ @
          /\ CASE change = "active"  -> FALSE
               [] change = "reviews" -> walk.query.sort # "rating"
                                        /\ walk.query.minRating = NoMinimum
               [] change = "slots"   -> ~walk.query.dated]

Open(q) ==
  /\ Walks("none") \/ Walks("done")
  /\ walk' = [pc |-> "ask", query |-> q, page |-> 1, mates |-> {}, seen |-> <<>>, calm |-> TRUE]
  /\ UNCHANGED <<reviewVars, slotVars, active>>

ListMates ==
  /\ Walks("ask")
  /\ walk' = [walk EXCEPT !.pc = "answer", !.mates = active]
  /\ UNCHANGED <<reviewVars, slotVars, active>>

\* The page, and whether the client finds in its meta that there are more.
ListAnswer ==
  /\ Walks("answer")
  /\ LET rows == ListedRows(walk.query, walk.mates)
         more == walk.page < TotalPages(Len(rows), Limit) IN
       walk' = [walk EXCEPT !.pc = IF more THEN "ask" ELSE "done",
                            !.page = IF more THEN @ + 1 ELSE @,
                            !.mates = {},
                            !.seen = @ \o Slice(rows, walk.page, Limit)]
  /\ UNCHANGED <<reviewVars, slotVars, active>>

(***************************************************************************)
(* findOne, and the pages of reviews                                       *)
(***************************************************************************)

\* averageRating goes over the reviews in the order that the database returns.
DetailRating(m) ==
  LET reviews == Sorted(ReviewsOf(m), {}) IN
  IF reviews = <<>> THEN NoRating
  ELSE Tenths(FoldLeft(LAMBDA total, id : total + review[id].rating, 0, reviews), Len(reviews))

\* The order is by createdAt alone: how ties are broken is up to the database, each
\* time anew.
LatestFirst(ids) ==
  Sortings(ids, {p \in ids \X ids : ReviewedAt[p[1]] > ReviewedAt[p[2]]})

\* Mutant of ReviewPage: the average is that of the page.
ReviewPageAverage(m, page, rows) ==
  LET items == Slice(rows, page, ReviewLimit) IN
  [average |-> IF items = <<>> THEN NoRating
               ELSE Tenths(RatingSum(ToSet(items)), Len(items)),
   count   |-> Cardinality(ReviewsOf(m)),
   items   |-> items]

\* A page of the reviews in the order rows in which the database returns them; the
\* average and the count are those of all reviews of the mate.
ReviewPage(m, page, rows) ==
  LET ids == ReviewsOf(m) IN
  [average |-> IF ids = {} THEN NoRating ELSE Tenths(RatingSum(ids), Cardinality(ids)),
   count   |-> Cardinality(ids),
   items   |-> Slice(rows, page, ReviewLimit)]

(***************************************************************************)
(* The tables change underneath                                            *)
(***************************************************************************)

ToggleActive(m) ==
  /\ active' = IF m \in active THEN active \ {m} ELSE active \cup {m}
  /\ walk' = Disturbed("active")
  /\ UNCHANGED <<reviewVars, slotVars>>

Init ==
  /\ ReviewsInit
  /\ SlotsInit
  /\ active = Mates
  /\ walk = NoWalk

Next ==
  \/ /\ ReviewsNext
     /\ walk' = IF review' = review THEN walk ELSE Disturbed("reviews")
     /\ UNCHANGED <<slotVars, active>>
  \/ /\ SlotsNext
     /\ walk' = Disturbed("slots")
     /\ UNCHANGED <<reviewVars, active>>
  \/ \E m \in Mates : ToggleActive(m)
  \/ \E q \in Queries : Open(q)
  \/ ListMates \/ ListAnswer

Spec == Init /\ [][Next]_vars

(***************************************************************************)
(* Properties                                                              *)
(***************************************************************************)

Wanted(q, m) ==
  /\ q.minRating > 0 => ReviewsOf(m) # {} /\ DetailRating(m) >= q.minRating
  /\ q.dated => m = CalendarOf /\ OpenIntervals # {}

InOrder(q, m, n) ==
  LET x == Key(q, m)  y == Key(q, n) IN
  \/ x = y /\ m < n
  \/ IF q.descending THEN x > y ELSE x < y

\* A client that turns all pages sees each mate it wants once and in the order it
\* asked for, as long as nothing changes that the query depends on: reviews may
\* come and go under an order by rate (SEARCH-05, SEARCH-08, SEARCH-09).
WalkIsComplete ==
  Walks("done") /\ walk.calm =>
    LET seen == walk.seen IN
    /\ ToSet(seen) = {m \in active : Wanted(walk.query, m)}
    /\ \A i, j \in 1..Len(seen) : i < j => InOrder(walk.query, seen[i], seen[j])

\* No other of these reviews was written at the same instant.
Untied(ids, id) == \A other \in ids : ReviewedAt[other] = ReviewedAt[id] => other = id

\* The list, the mate's page and every page of reviews show the same average.  The
\* pages of reviews put together hold each review once, latest first, however the
\* database breaks ties on each page; only reviews of one instant may be missing or
\* be there again on a later page (REVIEW-10, REVIEW-11).
ReviewsAgree ==
  \A m \in Mates :
    LET ids == ReviewsOf(m)
        pages == 1..TotalPages(Cardinality(ids), ReviewLimit) IN
    /\ DetailRating(m) = ListedRating(m)
    /\ \A order \in [pages -> LatestFirst(ids)] :
         LET Page(p) == ReviewPage(m, p, order[p])
             Items(p) == Page(p).items IN
         /\ \A p \in pages : Page(p).average = ListedRating(m) /\ ToSet(Items(p)) \subseteq ids
         /\ \A id \in ids : Untied(ids, id) => \E p \in pages : id \in ToSet(Items(p))
         /\ \A p, n \in pages : \A i \in DOMAIN Items(p), j \in DOMAIN Items(n) :
              p < n \/ (p = n /\ i < j) =>
                /\ ReviewedAt[Items(p)[i]] >= ReviewedAt[Items(n)[j]]
                /\ Items(p)[i] = Items(n)[j] => p # n /\ ~Untied(ids, Items(p)[i])
===============================================================================
