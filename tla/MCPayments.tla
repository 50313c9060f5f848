----------------------------- MODULE MCPayments -----------------------------
(* Top-ups of one user, each of 105 rupees, and two handlers of webhooks.  *)
EXTENDS Payments

CONSTANTS u1, p1, p2, d1, d2

MCPayer  == [p \in Topups |-> u1]
MCAmount == [p \in Topups |-> 10500]
=============================================================================
