-------------------------- MODULE MCBookingsRefine --------------------------
(* The instance for the refinement: two stalls of the same price, so that  *)
(* what a cancellation of one gives back pays for the other before the     *)
(* cancellation has committed, and a third too cheap (5 paise) for its     *)
(* 10 % fee to be a positive amount.                                       *)
EXTENDS BookingsRefine

CONSTANTS v1, v2, org, biz, s1, s2, s3, e1, b1, b2, h1, h2, w1, w2

MCEventOf   == [s \in Stalls |-> e1]
MCOrganiser == [e \in Events |-> org]
MCBusiness  == [e \in Events |-> biz]
MCPrice     == [s \in Stalls |-> IF s = s3 THEN 5 ELSE 100]
MCAvailable == [s \in Stalls |-> 1]
MCFunds     == [u \in Users |-> IF u = org THEN 0 ELSE 150]
=============================================================================
