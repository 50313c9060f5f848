------------------------------ MODULE Cashflow ------------------------------
(***************************************************************************)
(* Money in and money out together: top-ups and withdrawals interleave     *)
(* over the same wallets, which begin empty.                               *)
(***************************************************************************)
EXTENDS Payments, Withdrawals

vars == <<wallets, payVars, cashVars>>

Init == PayInit /\ CashInit

Next ==
  \/ PayNext /\ UNCHANGED cashVars
  \/ CashNext /\ UNCHANGED payVars

Spec == Init /\ [][Next]_vars

(* The types of both services' rows and handlers.                          *)
TypeOK ==
  PayTypeOK /\ CashTypeOK /\ wallets \in [Owners -> WalletRow]

(* What a user has, in both buckets, is what was topped up less what was   *)
(* paid out and the fees of the requests not returned: however handlers of *)
(* both services interleave and fail, no paisa of a user is lost or made.  *)
UserMoneyAccounted ==
  \A u \in Users :
    LET R == RequestsOf(u) IN
    wallets[u].available + wallets[u].pending
      = SumFunctionOnSet([p \in Topups |-> credited[p] * Amount[p]],
                         {p \in Topups : Payer[p] = u})
          - SumFunctionOnSet([r \in RequestIds |-> paidOut[r] * AmountOf(r)], R)
          - WithdrawFee * (holds[u] - SumFunctionOnSet(returned, R))
=============================================================================
