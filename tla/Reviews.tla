------------------------------ MODULE Reviews -------------------------------
(***************************************************************************)
(* ReviewsService.create and the organiser's avg_rating, over all of the   *)
(* organiser's events.  The review is inserted, then one UPDATE recomputes *)
(* the rating from a subquery whose snapshot is the statement's: what      *)
(* commits between the snapshot and the row's write is not in it.  A       *)
(* rating stands for the reviews it averages.                              *)
(***************************************************************************)
EXTENDS Integers, FiniteSets

CONSTANTS
  Authors,        \* signed-in users but the organiser
  Gatherings,     \* the organiser's events
  Reviewers,      \* handlers of create
  NoReview,
  MaxReviewFaults \* bound, see the README

AllReviews == Authors \X Gatherings

ASSUME ReviewConstants == NoReview \notin AllReviews /\ MaxReviewFaults \in Nat

VARIABLES
  standing,         \* the events not removed
  reviews,          \* the rows of reviews, unique by author and event
  rated,            \* the reviews behind business_profiles.avg_rating
  rpc, rreview,     \* each reviewer: step, author and event
  rsnap,            \* ... and the reviews its UPDATE's snapshot holds
  raced,            \* history: two UPDATEs of the rating have overlapped
  unrated,          \* history: reviews whose handler died before its UPDATE, until
                    \* another's UPDATE counts them
  reviewFaults

reviewerVars == <<rpc, rreview, rsnap>>
reviewVars   == <<standing, reviews, rated, reviewerVars, raced, unrated, reviewFaults>>

-----------------------------------------------------------------------------
(* A profile as it is created (the seed's invented ratings are left out).  *)
ReviewInit ==
  /\ standing = Gatherings /\ reviews = {} /\ rated = {}
  /\ rpc = [r \in Reviewers |-> "idle"]
  /\ rreview = [r \in Reviewers |-> NoReview]
  /\ rsnap = [r \in Reviewers |-> {}]
  /\ raced = FALSE /\ unrated = {} /\ reviewFaults = 0

ReviewerTo(r, from, to, a, snap) ==
  /\ rpc[r] = from
  /\ rpc' = [rpc EXCEPT ![r] = to]
  /\ rreview' = [rreview EXCEPT ![r] = a]
  /\ rsnap' = [rsnap EXCEPT ![r] = snap]

-----------------------------------------------------------------------------
(* The event is live when it is read.                                      *)
ReviewRead(r, x) ==
  /\ x[2] \in standing
  /\ ReviewerTo(r, "idle", "inserting", x, {})
  /\ UNCHANGED <<standing, reviews, rated, raced, unrated, reviewFaults>>

(* The insert: refused for the author's second review of the event, or for *)
(* an event removed meanwhile.                                             *)
ReviewInsert(r) ==
  LET x == rreview[r] IN
  /\ rpc[r] = "inserting"
  /\ IF x[2] \in standing /\ x \notin reviews
     THEN reviews' = reviews \cup {x} /\ ReviewerTo(r, "inserting", "rating", x, {})
     ELSE reviews' = reviews /\ ReviewerTo(r, "inserting", "idle", NoReview, {})
  /\ UNCHANGED <<standing, rated, raced, unrated, reviewFaults>>

(* Mutant: the average leaves out the review just written.                 *)
RateOthers(r) ==
  /\ rpc[r] = "rating"
  /\ ReviewerTo(r, "rating", "writing", rreview[r], reviews \ {rreview[r]})
  /\ raced' = (raced \/ \E q \in Reviewers : rpc[q] = "writing")
  /\ UNCHANGED <<standing, reviews, rated, unrated, reviewFaults>>

(* recomputeOrganiserRating: the subquery, over every event there is ...   *)
RateRead(r) ==
  /\ rpc[r] = "rating"
  /\ ReviewerTo(r, "rating", "writing", rreview[r], reviews)
  /\ raced' = (raced \/ \E q \in Reviewers : rpc[q] = "writing")
  /\ UNCHANGED <<standing, reviews, rated, unrated, reviewFaults>>

(* ... and the row it is written to.                                       *)
RateWrite(r) ==
  /\ rpc[r] = "writing"
  /\ rated' = rsnap[r] /\ unrated' = unrated \ rsnap[r]
  /\ ReviewerTo(r, "writing", "idle", NoReview, {})
  /\ UNCHANGED <<standing, reviews, raced, reviewFaults>>

ReviewerDies(r) ==
  /\ rpc[r] # "idle" /\ reviewFaults < MaxReviewFaults
  /\ reviewFaults' = reviewFaults + 1
  /\ unrated' = IF rpc[r] = "inserting" THEN unrated ELSE unrated \cup {rreview[r]}
  /\ ReviewerTo(r, rpc[r], "idle", NoReview, {})
  /\ UNCHANGED <<standing, reviews, rated, raced>>

(* EventsService.remove: its reviews go with the event, the rating stays.  *)
EventRemoved(v) ==
  /\ v \in standing
  /\ standing' = standing \ {v}
  /\ reviews' = {x \in reviews : x[2] # v}
  /\ UNCHANGED <<rated, reviewerVars, raced, unrated, reviewFaults>>

ReviewNext ==
  \/ \E v \in Gatherings : EventRemoved(v)
  \/ \E r \in Reviewers :
       \/ ReviewInsert(r) \/ RateRead(r) \/ RateWrite(r) \/ ReviewerDies(r)
       \/ \E x \in AllReviews : ReviewRead(r, x)

ReviewSpec == ReviewInit /\ [][ReviewNext]_reviewVars

-----------------------------------------------------------------------------
ReviewTypeOK ==
  /\ standing \subseteq Gatherings /\ reviews \subseteq AllReviews
  /\ rated \subseteq AllReviews /\ unrated \subseteq AllReviews
  /\ rpc \in [Reviewers -> {"idle", "inserting", "rating", "writing"}]
  /\ rreview \in [Reviewers -> AllReviews \cup {NoReview}]
  /\ rsnap \in [Reviewers -> SUBSET AllReviews]
  /\ \A r \in Reviewers : rpc[r] # "idle" => rreview[r] \in AllReviews
  /\ raced \in BOOLEAN /\ reviewFaults \in Nat

RatingDue == {rreview[r] : r \in {q \in Reviewers : rpc[q] \in {"rating", "writing"}}}

(* "The same number shows on the event card, profile chip, and Reviews     *)
(* page": if no two recounts raced, the stored rating lacks a review only  *)
(* while its handler has yet to count it, or has died and no other handler *)
(* has recounted since; and what it averages beyond the rows there are     *)
(* went with an event that was removed.                                    *)
RatingMatches ==
  ~raced =>
    /\ reviews \ rated \subseteq RatingDue \cup unrated
    /\ \A x \in rated \ reviews : x[2] \notin standing
=============================================================================
