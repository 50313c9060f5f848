----------------------------- MODULE MCCashflow -----------------------------
(* One user with a top-up of 105 rupees, enough for a withdrawal of 100    *)
(* with its fee of 5 (for two when it is credited twice); two handlers of  *)
(* webhooks, two of withdrawal requests, and two admins.                   *)
EXTENDS Cashflow, TLC

CONSTANTS u1, biz, p1, d1, d2, a1, a2, r1, r2, q1, q2

MCPayer  == [p \in Topups |-> u1]
MCAmount == [p \in Topups |-> 10500]

(* Handlers and row ids are interchangeable.                               *)
Symmetry == Permutations(Receivers) \cup Permutations(Deciders)
              \cup Permutations(RequestIds) \cup Permutations(Requesters)
=============================================================================
