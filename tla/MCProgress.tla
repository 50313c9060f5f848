----------------------------- MODULE MCProgress -----------------------------
(* What must happen in the end: three components that share no state, one  *)
(* of which runs in each behaviour, each under its own fairness.           *)
EXTENDS WebSession, EventListings, ConnectionPool, TLC

CONSTANTS b1, b2, b3

(* Two bookings of one stall and one of another.                           *)
MCStall == [b \in Bookers |-> IF b = b3 THEN "s2" ELSE "s1"]

VARIABLE running

Init ==
  /\ running \in {"web", "listings", "pool"}
  /\ AuthInit /\ WebInit /\ ListingInit /\ PoolInit
  /\ running # "listings" => status = "none" /\ autoApprove

Next ==
  /\ \/ running = "web" /\ WebNext /\ UNCHANGED <<listingVars, poolVars>>
     \/ running = "listings" /\ ListingNext /\ UNCHANGED <<authVars, webVars, poolVars>>
     \/ running = "pool" /\ PoolNext /\ UNCHANGED <<authVars, webVars, listingVars>>
  /\ running' = running

Spec ==
  /\ Init /\ [][Next]_<<running, authVars, webVars, listingVars, poolVars>>
  /\ WebFairness /\ ListingFairness /\ PoolFairness
=============================================================================
