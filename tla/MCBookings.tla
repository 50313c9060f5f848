----------------------------- MODULE MCBookings -----------------------------
(* Small instances of Bookings: two vendors and an organiser, one event,   *)
(* a stall type with two slots at 1.00 rupee and one with a single slot at *)
(* 2.00, and vendors who can pay for either, or the cheap one twice, but   *)
(* not for both.                                                           *)
EXTENDS Bookings, TLC

CONSTANTS v1, v2, org, biz, s1, s2, e1, b1, b2, b3, h1, h2

MCEventOf   == [s \in Stalls |-> e1]
MCOrganiser == [e \in Events |-> org]
MCBusiness  == [e \in Events |-> biz]
MCPrice     == [s \in Stalls |-> IF s = s1 THEN 100 ELSE 200]
MCAvailable == [s \in Stalls |-> IF s = s1 THEN 2 ELSE 1]
MCFunds     == [u \in Users |-> IF u = org THEN 0 ELSE 250]

(* At most one edit of the dates or one failure per behaviour.             *)
OneMishap == edits + faults <= 1

(* Vendors, handlers and booking ids are interchangeable.                  *)
Symmetry == Permutations({v1, v2}) \cup Permutations(Handlers)
              \cup Permutations(BookingIds)
=============================================================================
