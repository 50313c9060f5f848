---------------------------- MODULE Withdrawals ----------------------------
(***************************************************************************)
(* WithdrawalsService: a user's request holds the money in the wallet's    *)
(* pending bucket and pays a flat fee; an admin's decision pays the hold   *)
(* out or returns it with the fee.  The reads, the transfer and the row's  *)
(* write are separate statements of the service, in no transaction.        *)
(***************************************************************************)
EXTENDS Wallet

CONSTANTS
  RequestIds,        \* withdrawal_requests rows
  Requesters,        \* handlers of POST /wallet/withdraw
  Deciders,          \* handlers of POST /admin/withdrawals/:id/decide
  RequestAmounts,    \* the amounts a user may ask for, in paise
  Nobody,            \* "no user" and "no request"
  MaxDecisions, MaxCashFaults   \* bounds, see the README

ASSUME WithdrawalConstants ==
  /\ IsFiniteSet(RequestIds) /\ IsFiniteSet(Requesters)
  /\ RequestAmounts \subseteq Nat \ {0}
  /\ Nobody \notin Users \cup RequestIds
  /\ MaxDecisions \in Nat /\ MaxCashFaults \in Nat

VARIABLES
  request,             \* the rows
  holds,               \* [Users -> Nat]: transfers that held and took the fee
  paidOut, returned,   \* [RequestIds -> Nat]: transfers of decisions
  qpc, quser, qamount, \* each requester: step and arguments
  dpc, drow, approve,  \* each decider: step, row and verdict
  cashFaults

cashVars == <<request, holds, paidOut, returned, qpc, quser, qamount, dpc, drow,
              approve, cashFaults>>
requesterVars == <<qpc, quser, qamount>>
deciderVars   == <<dpc, drow, approve>>

-----------------------------------------------------------------------------
WithdrawFee == 500   \* WITHDRAW_FEE_PAISE

HoldLegs(u, a) ==
  << Leg(u, "D", a + WithdrawFee, "available"),
     Leg(u, "C", a, "pending"),
     Leg(House, "C", WithdrawFee, "available") >>

(* Mutant: the bucket of the first leg is forgotten.                       *)
PayoutFromAvailable(u, a) ==
  << Leg(u, "D", a, "available"), Leg(House, "C", a, "available") >>

PayoutLegs(u, a) ==
  << Leg(u, "D", a, "pending"), Leg(House, "C", a, "available") >>

(* Mutant: a rejection keeps the fee.                                      *)
ReturnWithoutFee(u, a) ==
  << Leg(u, "D", a, "pending"), Leg(u, "C", a, "available") >>

ReturnLegs(u, a) ==
  << Leg(u, "D", a, "pending"),
     Leg(u, "C", a + WithdrawFee, "available"),
     Leg(House, "D", WithdrawFee, "available") >>

NoRequest   == [user |-> Nobody, amount |-> 0, status |-> "none"]
RequestRows == [user : Users, amount : RequestAmounts,
                status : {"pending", "approved", "rejected"}]
Decisions(r) == paidOut[r] + returned[r]

CashInit ==
  /\ request = [r \in RequestIds |-> NoRequest]
  /\ holds = [u \in Users |-> 0]
  /\ paidOut = [r \in RequestIds |-> 0]
  /\ returned = [r \in RequestIds |-> 0]
  /\ qpc = [q \in Requesters |-> "idle"]
  /\ quser = [q \in Requesters |-> Nobody]
  /\ qamount = [q \in Requesters |-> 0]
  /\ dpc = [d \in Deciders |-> "idle"]
  /\ drow = [d \in Deciders |-> Nobody]
  /\ approve = [d \in Deciders |-> FALSE]
  /\ cashFaults = 0

-----------------------------------------------------------------------------
(* POST /wallet/withdraw                                                   *)

RequestEnds(q) ==
  /\ qpc' = [qpc EXCEPT ![q] = "idle"]
  /\ quser' = [quser EXCEPT ![q] = Nobody]
  /\ qamount' = [qamount EXCEPT ![q] = 0]

(* "Block if there's already a pending withdrawal": a read, no constraint. *)
RequestBegin(q, u, a) ==
  /\ qpc[q] = "idle"
  /\ ~\E r \in RequestIds : request[r].user = u /\ request[r].status = "pending"
  /\ qpc' = [qpc EXCEPT ![q] = "checked"]
  /\ quser' = [quser EXCEPT ![q] = u]
  /\ qamount' = [qamount EXCEPT ![q] = a]
  /\ UNCHANGED <<wallets, request, holds, paidOut, returned, deciderVars, cashFaults>>

RequestFunds(q) ==
  /\ qpc[q] = "checked"
  /\ wallets[quser[q]].available >= qamount[q] + WithdrawFee
  /\ qpc' = [qpc EXCEPT ![q] = "funded"]
  /\ UNCHANGED <<wallets, request, holds, paidOut, returned, quser, qamount, deciderVars,
                 cashFaults>>

RequestHold(q) ==
  /\ qpc[q] = "funded"
  /\ Transfer(HoldLegs(quser[q], qamount[q]))
  /\ holds' = [holds EXCEPT ![quser[q]] = @ + 1]
  /\ qpc' = [qpc EXCEPT ![q] = "held"]
  /\ UNCHANGED <<request, paidOut, returned, quser, qamount, deciderVars, cashFaults>>

RequestCreate(q) ==
  /\ qpc[q] = "held"
  /\ \E r \in RequestIds :
       /\ request[r] = NoRequest
       /\ request' = [request EXCEPT ![r] =
                        [user |-> quser[q], amount |-> qamount[q], status |-> "pending"]]
  /\ RequestEnds(q)
  /\ UNCHANGED <<wallets, holds, paidOut, returned, deciderVars, cashFaults>>

(* Insufficient funds, a refused transfer, or a failure before it.         *)
RequestRefused(q) ==
  /\ qpc[q] \in {"checked", "funded"}
  /\ RequestEnds(q)
  /\ UNCHANGED <<wallets, request, holds, paidOut, returned, deciderVars, cashFaults>>

(* The insert fails, or the process dies, with the money held.             *)
RequestLost(q) ==
  /\ qpc[q] = "held" /\ cashFaults < MaxCashFaults
  /\ cashFaults' = cashFaults + 1
  /\ RequestEnds(q)
  /\ UNCHANGED <<wallets, request, holds, paidOut, returned, deciderVars>>

-----------------------------------------------------------------------------
(* POST /admin/withdrawals/:id/decide                                      *)

DecideEnds(d) ==
  /\ dpc' = [dpc EXCEPT ![d] = "idle"]
  /\ drow' = [drow EXCEPT ![d] = Nobody]
  /\ approve' = [approve EXCEPT ![d] = FALSE]

DecideBegin(d, r) ==
  /\ dpc[d] = "idle" /\ request[r].status = "pending"
  /\ dpc' = [dpc EXCEPT ![d] = "deciding"]
  /\ drow' = [drow EXCEPT ![d] = r]
  /\ \E verdict \in BOOLEAN : approve' = [approve EXCEPT ![d] = verdict]
  /\ UNCHANGED <<wallets, request, holds, paidOut, returned, requesterVars, cashFaults>>

DecidePay(d) ==
  LET r == drow[d] IN
  /\ dpc[d] = "deciding" /\ Decisions(r) < MaxDecisions
  /\ \/ /\ approve[d]
        /\ Transfer(PayoutLegs(request[r].user, request[r].amount))
        /\ paidOut' = [paidOut EXCEPT ![r] = @ + 1]
        /\ returned' = returned
     \/ /\ ~approve[d]
        /\ Transfer(ReturnLegs(request[r].user, request[r].amount))
        /\ returned' = [returned EXCEPT ![r] = @ + 1]
        /\ paidOut' = paidOut
  /\ dpc' = [dpc EXCEPT ![d] = "paid"]
  /\ UNCHANGED <<request, holds, requesterVars, drow, approve, cashFaults>>

Verdict(d) == IF approve[d] THEN "approved" ELSE "rejected"

(* Mutant: the row is updated before the money has moved.                  *)
DecideMarksFirst(d) ==
  /\ dpc[d] = "deciding"
  /\ request' = [request EXCEPT ![drow[d]].status = Verdict(d)]
  /\ UNCHANGED <<wallets, holds, paidOut, returned, requesterVars, deciderVars, cashFaults>>

(* Unconditional: the status by now is not looked at.                      *)
DecideMark(d) ==
  /\ dpc[d] = "paid"
  /\ request' = [request EXCEPT ![drow[d]].status = Verdict(d)]
  /\ DecideEnds(d)
  /\ UNCHANGED <<wallets, holds, paidOut, returned, requesterVars, cashFaults>>

DecideRefused(d) ==
  /\ dpc[d] = "deciding"
  /\ DecideEnds(d)
  /\ UNCHANGED <<wallets, request, holds, paidOut, returned, requesterVars, cashFaults>>

(* The status is never written, and the request stays pending.             *)
DecideLost(d) ==
  /\ dpc[d] = "paid" /\ cashFaults < MaxCashFaults
  /\ cashFaults' = cashFaults + 1
  /\ DecideEnds(d)
  /\ UNCHANGED <<wallets, request, holds, paidOut, returned, requesterVars>>

RequestStep(q) ==
  \/ \E u \in Users, a \in RequestAmounts : RequestBegin(q, u, a)
  \/ RequestFunds(q) \/ RequestHold(q) \/ RequestCreate(q)
  \/ RequestRefused(q) \/ RequestLost(q)

DecideStep(d) ==
  \/ \E r \in RequestIds : DecideBegin(d, r)
  \/ DecidePay(d) \/ DecideMark(d) \/ DecideRefused(d) \/ DecideLost(d)

CashNext ==
  (\E q \in Requesters : RequestStep(q)) \/ (\E d \in Deciders : DecideStep(d))

-----------------------------------------------------------------------------
CashTypeOK ==
  /\ request \in [RequestIds -> RequestRows \cup {NoRequest}]
  /\ holds \in [Users -> Nat]
  /\ paidOut \in [RequestIds -> Nat] /\ returned \in [RequestIds -> Nat]
  /\ qpc \in [Requesters -> {"idle", "checked", "funded", "held"}]
  /\ quser \in [Requesters -> Users \cup {Nobody}]
  /\ qamount \in [Requesters -> RequestAmounts \cup {0}]
  /\ dpc \in [Deciders -> {"idle", "deciding", "paid"}]
  /\ drow \in [Deciders -> RequestIds \cup {Nobody}]
  /\ approve \in [Deciders -> BOOLEAN]
  /\ cashFaults \in Nat

RequestsOf(u) == {r \in RequestIds : request[r].user = u}
AmountOf(r)   == request[r].amount

(* While no request of a user was decided twice, the pending bucket covers *)
(* every request not yet decided, and, if no handler was lost between its  *)
(* transfer and its write, is exactly that and what is about to be listed. *)
HoldsAccounted ==
  \A u \in Users :
    LET waiting == SumFunctionOnSet([r \in RequestIds |-> AmountOf(r)],
                                    {r \in RequestsOf(u) : Decisions(r) = 0})
        listing == SumFunctionOnSet(qamount,
                                    {q \in Requesters : qpc[q] = "held" /\ quser[q] = u})
    IN (\A r \in RequestsOf(u) : Decisions(r) <= 1)
         => /\ wallets[u].pending >= waiting
            /\ cashFaults = 0 => wallets[u].pending = waiting + listing

(* A request says approved only once its money has left, and rejected only *)
(* once it is back, whichever admins race and whatever fails.              *)
DecisionIsPaid ==
  \A r \in RequestIds :
    /\ request[r].status = "approved" => paidOut[r] >= 1
    /\ request[r].status = "rejected" => returned[r] >= 1
=============================================================================
