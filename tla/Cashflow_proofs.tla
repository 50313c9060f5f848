--------------------------- MODULE Cashflow_proofs ---------------------------
(***************************************************************************)
(* Top-ups and withdrawals over the same wallets, for any number of users, *)
(* payments, requests and handlers and any amounts.  A row of either       *)
(* service is marked by a handler that remembers a transfer: the invariant *)
(* says for every step of a handler which transfer stands behind it.       *)
(***************************************************************************)
EXTENDS Cashflow, TLAPS, FiniteSetTheorems, Sums

-----------------------------------------------------------------------------
(* Payments.                                                               *)

(* What a webhook's handler knows at each step of the row it holds.        *)
Received ==
  \A d \in Receivers :
    /\ rpc[d] # "idle" <=> topup[d] \in Topups
    /\ rpc[d] = "credited" => credited[topup[d]] >= 1

(* Of a row no two handlers had at once: who has it now is alone, has      *)
(* nothing credited before its own transfer, and a credit is either marked *)
(* or about to be.                                                         *)
Alone(p) ==
  /\ \A d, e \in Receivers : topup[d] = p /\ topup[e] = p => d = e
  /\ \A d \in Receivers :
       topup[d] = p /\ rpc[d] \in {"crediting", "failing"} => credited[p] = 0
  /\ credited[p] # 0 => \/ evt[p] = "success"
                        \/ \E d \in Receivers : topup[d] = p /\ rpc[d] = "credited"
  /\ credited[p] <= 1

InTurn == payFaults = 0 => \A p \in Topups : p \notin raced => Alone(p)

PayInv == PayTypeOK /\ Received /\ InTurn /\ SuccessIsCredited

LEMMA PayInitInv == PayInit => PayInv
  BY PaymentConstants
     DEF PayInit, PayInv, PayTypeOK, Received, InTurn, Alone, SuccessIsCredited

(* A handler that takes a row either finds it alone, not yet credited for  *)
(* all that its status says, or the row counts as raced from then on.      *)
LEMMA TakeKeeps ==
  ASSUME PayInv, NEW d \in Receivers, NEW p \in Topups, NEW step \in {"crediting", "failing"},
         Take(d, p, step), evt[p] # "success",
         evt' \in [Topups -> {"none", "pending", "failed", "success"}],
         \A q \in Topups : (evt'[q] = "success") = (evt[q] = "success"),
         UNCHANGED <<production, paid, credited, payFaults>>
  PROVE  PayInv'
<1> USE DEF PayInv, PayTypeOK
<1>1. /\ rpc[d] = "idle" /\ topup[d] = NoTopup
      /\ rpc' = [rpc EXCEPT ![d] = step] /\ topup' = [topup EXCEPT ![d] = p]
      /\ raced' = IF Handling(p) = {} THEN raced ELSE raced \cup {p}
  BY DEF Take, Received
<1>2. PayTypeOK'
  BY <1>1
<1>3. Received'
  BY <1>1, PaymentConstants DEF Received
<1>4. SuccessIsCredited'
  BY <1>1 DEF SuccessIsCredited
<1>5. InTurn'
  <2> SUFFICES ASSUME payFaults = 0, NEW q \in Topups, q \notin raced' PROVE Alone(q)'
    BY DEF InTurn
  <2>1. Alone(q)
    BY <1>1 DEF InTurn
  <2>2. CASE q = p
    <3>1. \A e \in Receivers : topup[e] # p
      BY <1>1, <2>2 DEF Handling
    <3>2. credited[p] = 0
      BY <2>1, <2>2, <3>1 DEF Alone
    <3> QED
      BY <1>1, <2>2, <3>1, <3>2 DEF Alone
  <2>3. CASE q # p
    <3>1. \A e \in Receivers : topup'[e] = q => topup[e] = q /\ rpc'[e] = rpc[e]
      BY <1>1, <2>3
    <3>2. \A e \in Receivers : topup[e] = q /\ rpc[e] = "credited"
                                 => topup'[e] = q /\ rpc'[e] = "credited"
      BY <1>1, <2>3
    <3> QED
      BY <2>1, <3>1, <3>2 DEF Alone
  <2> QED
    BY <2>2, <2>3
<1> QED
  BY <1>2, <1>3, <1>4, <1>5

LEMMA PayStep == PayInv /\ [PayNext]_payVars => PayInv'
<1> SUFFICES ASSUME PayInv, [PayNext]_payVars PROVE PayInv'
  OBVIOUS
<1> USE DEF PayInv, PayTypeOK
<1>1. ASSUME NEW p \in Topups, InitiateTopup(p) PROVE PayInv'
  <2>1. PayTypeOK' /\ Received' /\ SuccessIsCredited'
    BY <1>1 DEF InitiateTopup, Received, SuccessIsCredited
  <2>2. InTurn'
    BY <1>1 DEF InitiateTopup, InTurn, Alone
  <2> QED
    BY <2>1, <2>2
<1>2. ASSUME NEW p \in Topups, PspPaid(p) PROVE PayInv'
  BY <1>2 DEF PspPaid, Received, SuccessIsCredited, InTurn, Alone
<1>3. ASSUME NEW d \in Receivers, NEW p \in Topups, SimulateTopup(d, p) PROVE PayInv'
  <2>1. \A q \in Topups : (evt'[q] = "success") = (evt[q] = "success")
    BY <1>3 DEF SimulateTopup
  <2> QED
    BY <1>3, <2>1, TakeKeeps DEF SimulateTopup
<1>4. ASSUME NEW d \in Receivers, NEW p \in Topups, NEW outcome \in {"failed", "success"},
             Webhook(d, p, outcome)
      PROVE  PayInv'
  <2>1. Step(outcome) \in {"crediting", "failing"} /\ evt[p] # "success" /\ evt' = evt
    BY <1>4 DEF Step, Webhook, Unsettled
  <2> QED
    BY <1>4, <2>1, TakeKeeps DEF Webhook
<1>5. ASSUME NEW d \in Receivers, CreditUser(d) PROVE PayInv'
  <2>1. topup[d] \in Topups /\ rpc[d] = "crediting"
    BY <1>5 DEF CreditUser, Received
  <2>2. /\ credited' = [credited EXCEPT ![topup[d]] = @ + 1]
        /\ rpc' = [rpc EXCEPT ![d] = "credited"]
        /\ UNCHANGED <<production, evt, paid, topup, raced, payFaults>>
    BY <1>5 DEF CreditUser
  <2>3. PayTypeOK' /\ SuccessIsCredited'
    BY <2>1, <2>2 DEF SuccessIsCredited
  <2>4. Received'
    BY <2>1, <2>2 DEF Received
  <2>5. InTurn'
    <3> SUFFICES ASSUME payFaults = 0, NEW q \in Topups, q \notin raced PROVE Alone(q)'
      BY <2>2 DEF InTurn
    <3>1. Alone(q)
      BY DEF InTurn
    <3>2. CASE q = topup[d]
      <4>1. credited[q] = 0 /\ \A e \in Receivers : topup[e] = q => e = d
        BY <2>1, <3>1, <3>2 DEF Alone
      <4> QED
        BY <2>2, <3>1, <3>2, <4>1 DEF Alone
    <3>3. CASE q # topup[d]
      BY <2>1, <2>2, <3>1, <3>3 DEF Alone
    <3> QED
      BY <3>2, <3>3
  <2> QED
    BY <2>3, <2>4, <2>5
<1>6. ASSUME NEW d \in Receivers, MarkSuccess(d) PROVE PayInv'
  <2>1. topup[d] \in Topups /\ credited[topup[d]] >= 1
    BY <1>6 DEF MarkSuccess, Received
  <2>2. PayTypeOK' /\ SuccessIsCredited'
    BY <1>6, <2>1 DEF MarkSuccess, Done, SuccessIsCredited
  <2>3. Received'
    BY <1>6, PaymentConstants DEF MarkSuccess, Done, Received
  <2>4. InTurn'
    BY <1>6, <2>1, PaymentConstants DEF MarkSuccess, Done, InTurn, Alone
  <2> QED
    BY <2>2, <2>3, <2>4
<1>7. ASSUME NEW d \in Receivers, MarkFailed(d) PROVE PayInv'
  <2>1. topup[d] \in Topups
    BY <1>7 DEF MarkFailed, Received
  <2>2. PayTypeOK' /\ SuccessIsCredited'
    BY <1>7, <2>1 DEF MarkFailed, Done, SuccessIsCredited
  <2>3. Received'
    BY <1>7, PaymentConstants DEF MarkFailed, Done, Received
  <2>4. InTurn'
    BY <1>7, <2>1, PaymentConstants DEF MarkFailed, Done, InTurn, Alone
  <2> QED
    BY <2>2, <2>3, <2>4
<1>8. ASSUME NEW d \in Receivers, ReceiverFails(d) PROVE PayInv'
  <2>1. PayTypeOK' /\ SuccessIsCredited' /\ Received'
    BY <1>8, PaymentConstants
       DEF ReceiverFails, Done, Received, SuccessIsCredited
  <2>2. InTurn'
    BY <1>8 DEF ReceiverFails, InTurn
  <2> QED
    BY <2>1, <2>2
<1>9. CASE UNCHANGED payVars
  BY <1>9 DEF payVars, Received, InTurn, Alone, SuccessIsCredited
<1> QED
  BY <1>1, <1>2, <1>3, <1>4, <1>5, <1>6, <1>7, <1>8, <1>9 DEF PayNext, ReceiverGoesOn

-----------------------------------------------------------------------------
(* Withdrawals.                                                            *)

(* What the handlers of requests and decisions hold at each step.          *)
Decided ==
  /\ \A q \in Requesters :
       qpc[q] # "idle" => quser[q] \in Users /\ qamount[q] \in RequestAmounts
  /\ \A d \in Deciders :
       /\ dpc[d] # "idle" => drow[d] \in RequestIds /\ request[drow[d]] \in RequestRows
       /\ dpc[d] = "paid" => /\ approve[d] => paidOut[drow[d]] >= 1
                             /\ ~approve[d] => returned[drow[d]] >= 1

CashInv == CashTypeOK /\ Decided /\ DecisionIsPaid

(* A row that is not there is told apart by its status.                    *)
LEMMA RequestFacts ==
  /\ NoRequest.status = "none" /\ NoRequest \notin RequestRows
  /\ \A r \in RequestRows : r.status # "none"
  BY DEF NoRequest, RequestRows

LEMMA CashInitInv == CashInit => CashInv
  BY WithdrawalConstants, RequestFacts
     DEF CashInit, CashInv, CashTypeOK, Decided, DecisionIsPaid

(* The requester's steps change no row but one that was not there.         *)
LEMMA RequestKeeps ==
  ASSUME CashInv, NEW q \in Requesters, RequestStep(q)
  PROVE  CashInv'
<1> USE WithdrawalConstants DEF CashInv, CashTypeOK, RequestEnds, deciderVars
<1>1. ASSUME NEW u \in Users, NEW a \in RequestAmounts, RequestBegin(q, u, a) PROVE CashInv'
  BY <1>1 DEF RequestBegin, Decided, DecisionIsPaid
<1>2. CASE RequestFunds(q)
  BY <1>2 DEF RequestFunds, Decided, DecisionIsPaid
<1>3. CASE RequestHold(q)
  <2>1. quser[q] \in Users
    BY <1>3 DEF RequestHold, Decided
  <2> QED
    BY <1>3, <2>1 DEF RequestHold, Decided, DecisionIsPaid
<1>4. CASE RequestCreate(q)
  <2> DEFINE new == [user |-> quser[q], amount |-> qamount[q], status |-> "pending"]
  <2>1. PICK r \in RequestIds : request[r] = NoRequest /\ request' = [request EXCEPT ![r] = new]
    BY <1>4 DEF RequestCreate
  <2>2. new \in RequestRows /\ new.status = "pending"
    BY <1>4 DEF RequestCreate, Decided, RequestRows
  <2>3. CashTypeOK'
    BY <1>4, <2>1, <2>2 DEF RequestCreate
  <2>4. Decided'
    BY <1>4, <2>1, <2>2, RequestFacts DEF RequestCreate, Decided
  <2>5. DecisionIsPaid'
    BY <1>4, <2>1, <2>2 DEF RequestCreate, DecisionIsPaid
  <2> QED
    BY <2>3, <2>4, <2>5
<1>5. CASE RequestRefused(q)
  BY <1>5 DEF RequestRefused, Decided, DecisionIsPaid
<1>6. CASE RequestLost(q)
  BY <1>6 DEF RequestLost, Decided, DecisionIsPaid
<1> QED
  BY <1>1, <1>2, <1>3, <1>4, <1>5, <1>6 DEF RequestStep

(* The decider marks a row only after the transfer it stands for.          *)
LEMMA DecideKeeps ==
  ASSUME CashInv, NEW d \in Deciders, DecideStep(d)
  PROVE  CashInv'
<1> USE WithdrawalConstants, RequestFacts DEF CashInv, CashTypeOK, DecideEnds, requesterVars
<1>1. ASSUME NEW r \in RequestIds, DecideBegin(d, r) PROVE CashInv'
  <2>1. request[r] \in RequestRows
    BY <1>1 DEF DecideBegin
  <2>2. PICK verdict \in BOOLEAN : approve' = [approve EXCEPT ![d] = verdict]
    BY <1>1 DEF DecideBegin
  <2> QED
    BY <1>1, <2>1, <2>2 DEF DecideBegin, Decided, DecisionIsPaid
<1>2. CASE DecidePay(d)
  <2>1. drow[d] \in RequestIds
    BY <1>2 DEF DecidePay, Decided
  <2>2. \/ /\ approve[d] /\ returned' = returned
           /\ paidOut' = [paidOut EXCEPT ![drow[d]] = @ + 1]
        \/ /\ ~approve[d] /\ paidOut' = paidOut
           /\ returned' = [returned EXCEPT ![drow[d]] = @ + 1]
    BY <1>2 DEF DecidePay
  <2>3. /\ dpc' = [dpc EXCEPT ![d] = "paid"]
        /\ UNCHANGED <<request, holds, qpc, quser, qamount, drow, approve, cashFaults>>
    BY <1>2 DEF DecidePay
  <2>4. \A r \in RequestIds : /\ paidOut'[r] \in Nat /\ paidOut'[r] >= paidOut[r]
                              /\ returned'[r] \in Nat /\ returned'[r] >= returned[r]
    BY <2>1, <2>2
  <2>5. CashTypeOK' /\ DecisionIsPaid'
    BY <2>1, <2>2, <2>3, <2>4 DEF DecisionIsPaid
  <2>6. approve[d] => paidOut'[drow[d]] >= 1
    BY <2>1, <2>2
  <2>7. ~approve[d] => returned'[drow[d]] >= 1
    BY <2>1, <2>2
  <2>8. ASSUME NEW e \in Deciders, e # d, dpc[e] = "paid"
        PROVE  /\ approve[e] => paidOut'[drow[e]] >= 1
               /\ ~approve[e] => returned'[drow[e]] >= 1
    BY <2>4, <2>8 DEF Decided
  <2>9. Decided'
    BY <2>1, <2>3, <2>6, <2>7, <2>8, <1>2 DEF Decided, DecidePay
  <2> QED
    BY <2>5, <2>9
<1>3. CASE DecideMark(d)
  <2>1. drow[d] \in RequestIds /\ request[drow[d]] \in RequestRows
    BY <1>3 DEF DecideMark, Decided
  <2>2. Verdict(d) \in {"approved", "rejected"} /\ (Verdict(d) = "approved" <=> approve[d])
    BY DEF Verdict
  <2>3. request' = [request EXCEPT ![drow[d]].status = Verdict(d)]
    BY <1>3 DEF DecideMark
  <2>4. request'[drow[d]] \in RequestRows /\ request'[drow[d]].status = Verdict(d)
    BY <2>1, <2>2, <2>3 DEF RequestRows
  <2>5. \A r \in RequestIds : r # drow[d] => request'[r] = request[r]
    BY <2>3
  <2>6. CashTypeOK'
    BY <1>3, <2>1, <2>3, <2>4, <2>5 DEF DecideMark
  <2>7. Decided'
    BY <1>3, <2>1, <2>4, <2>5 DEF DecideMark, Decided
  <2>8. /\ approve[d] => paidOut[drow[d]] >= 1
        /\ ~approve[d] => returned[drow[d]] >= 1
    BY <1>3 DEF DecideMark, Decided
  <2>9. DecisionIsPaid'
    BY <1>3, <2>1, <2>2, <2>4, <2>5, <2>8 DEF DecideMark, DecisionIsPaid
  <2> QED
    BY <2>6, <2>7, <2>9
<1>4. CASE DecideRefused(d)
  BY <1>4 DEF DecideRefused, Decided, DecisionIsPaid
<1>5. CASE DecideLost(d)
  BY <1>5 DEF DecideLost, Decided, DecisionIsPaid
<1> QED
  BY <1>1, <1>2, <1>3, <1>4, <1>5 DEF DecideStep

-----------------------------------------------------------------------------
(* Both services together.                                                 *)
CashflowInv == PayInv /\ CashInv

LEMMA CashflowInit == Init => CashflowInv
  BY PayInitInv, CashInitInv DEF Init, CashflowInv

LEMMA CashflowStep == CashflowInv /\ [Next]_vars => CashflowInv'
<1> SUFFICES ASSUME CashflowInv, [Next]_vars PROVE CashflowInv'
  OBVIOUS
<1>1. PayInv'
  BY PayStep DEF CashflowInv, Next, vars
<1>2. CashInv'
  <2>1. CASE UNCHANGED cashVars
    BY <2>1 DEF CashflowInv, CashInv, CashTypeOK, Decided, DecisionIsPaid, cashVars
  <2>2. CASE CashNext
    BY <2>2, RequestKeeps, DecideKeeps DEF CashNext, CashflowInv
  <2> QED
    BY <2>1, <2>2 DEF Next, vars
<1> QED
  BY <1>1, <1>2 DEF CashflowInv

(* The strengthening of the four properties below, in every state.         *)
THEOREM CashflowInvariant == Spec => []CashflowInv
  BY CashflowInit, CashflowStep, PTL DEF Spec

(* A payment's row says success only once its money is in the wallet, for  *)
(* any number of deliveries, in any order, and failures between any two    *)
(* steps of a webhook's handler.                                           *)
THEOREM SuccessStandsForMoney == Spec => []SuccessIsCredited
<1>1. CashflowInv => SuccessIsCredited
  BY DEF CashflowInv, PayInv
<1> QED
  BY <1>1, CashflowInvariant, PTL

(* A row whose money is in the wallet says success, or is about to, for    *)
(* reports in any order that are handled in turn: a late "failed" does not *)
(* hide the payment.                                                       *)
THEOREM CreditsAreMarked == Spec => []CreditIsMarked
<1>1. CashflowInv => CreditIsMarked
  BY DEF CashflowInv, PayInv, PayTypeOK, InTurn, Alone, CreditIsMarked, Handling
<1> QED
  BY <1>1, CashflowInvariant, PTL

(* Deliveries of a payment that never overlap and are never cut short      *)
(* credit it once, however many there are.                                 *)
THEOREM InTurnCreditedOnce == Spec => []CreditedOnceInTurn
<1>1. CashflowInv => CreditedOnceInTurn
  BY DEF CashflowInv, PayInv, InTurn, Alone, CreditedOnceInTurn
<1> QED
  BY <1>1, CashflowInvariant, PTL

(* A withdrawal says approved or rejected only once the transfer that says *)
(* so has been made, whichever admins decide it and however often.         *)
THEOREM DecisionsArePaid == Spec => []DecisionIsPaid
<1>1. CashflowInv => DecisionIsPaid
  BY DEF CashflowInv, CashInv
<1> QED
  BY <1>1, CashflowInvariant, PTL

-----------------------------------------------------------------------------
(* What transfers do to the wallets of users.                              *)

(* One leg adds its signed amount to one bucket of one wallet.             *)
LEMMA LegMoves ==
  ASSUME NEW ws \in [Owners -> WalletRow], NEW o \in Owners, NEW d, NEW a \in Int, NEW k
  PROVE  LET l  == Leg(o, d, a, k)
             to == Apply(ws, l)
         IN /\ to \in [Owners -> WalletRow]
            /\ \A v \in Owners :
                 /\ to[v].available
                      = ws[v].available + IF v = o /\ k = "available" THEN Signed(l) ELSE 0
                 /\ to[v].pending
                      = ws[v].pending + IF v = o /\ k # "available" THEN Signed(l) ELSE 0
<1> DEFINE l == Leg(o, d, a, k)
<1>1. Signed(l) \in Int /\ l.owner = o /\ l.bucket = k
  BY DEF Signed, Leg
<1>2. \A v \in Owners : ws[v].available \in Int /\ ws[v].pending \in Int /\ ws[v] \in WalletRow
  BY DEF WalletRow
<1> HIDE DEF l
<1>3. CASE k = "available"
  BY <1>1, <1>2, <1>3 DEF Apply, WalletRow, l
<1>4. CASE k # "available"
  BY <1>1, <1>2, <1>4 DEF Apply, WalletRow, l
<1> QED
  BY <1>3, <1>4

LEMMA OwnerFacts ==
  /\ House \in Owners /\ House \notin Users
  /\ \A u \in Users : u \in Owners
  BY OwnersDistinct DEF Owners

LEMMA TopupMoves ==
  ASSUME wallets \in [Owners -> WalletRow], NEW p \in Topups, Transfer(TopupLegs(p))
  PROVE  /\ wallets' \in [Owners -> WalletRow]
         /\ \A v \in Users :
              /\ wallets'[v].available
                   = wallets[v].available + IF v = Payer[p] THEN Amount[p] ELSE 0
              /\ wallets'[v].pending = wallets[v].pending
<1> DEFINE u == Payer[p]
           a == Amount[p]
           l1 == Leg(House, "D", a, "available")
           l2 == Leg(u, "C", a, "available")
           w1 == Apply(wallets, l1)
           w2 == Apply(w1, l2)
<1>1. a \in Int /\ u \in Owners
  BY PaymentConstants, OwnerFacts
<1>2. w1 \in [Owners -> WalletRow]
      /\ \A v \in Users : w1[v].available = wallets[v].available
                          /\ w1[v].pending = wallets[v].pending
  <2>1. \A v \in Owners : wallets[v].available \in Int /\ wallets[v].pending \in Int
    BY DEF WalletRow
  <2> QED
    BY <1>1, <2>1, OwnerFacts, LegMoves
<1>3. Signed(l2) = a
  BY <1>1 DEF Signed, Leg
<1>4. \A v \in Owners : w1[v].available \in Int /\ w1[v].pending \in Int
  BY <1>2 DEF WalletRow
<1>5. wallets' = w2
  BY DEF Transfer, Posted, TopupLegs, MaxLegs
<1> HIDE DEF l1, w1, u, a
<1>6. w2 \in [Owners -> WalletRow]
      /\ \A v \in Owners :
           /\ w2[v].available = w1[v].available + IF v = u THEN Signed(l2) ELSE 0
           /\ w2[v].pending = w1[v].pending
  BY <1>1, <1>2, <1>4, LegMoves
<1> HIDE DEF l2, w2
<1> QED
  BY <1>2, <1>3, <1>4, <1>5, <1>6, OwnerFacts DEF u, a

LEMMA HoldMoves ==
  ASSUME wallets \in [Owners -> WalletRow], NEW u \in Users, NEW a \in Int,
         Transfer(HoldLegs(u, a))
  PROVE  /\ wallets' \in [Owners -> WalletRow]
         /\ \A v \in Users :
              /\ wallets'[v].available
                   = wallets[v].available - IF v = u THEN a + WithdrawFee ELSE 0
              /\ wallets'[v].pending = wallets[v].pending + IF v = u THEN a ELSE 0
<1> DEFINE l1 == Leg(u, "D", a + WithdrawFee, "available")
           l2 == Leg(u, "C", a, "pending")
           l3 == Leg(House, "C", WithdrawFee, "available")
           w1 == Apply(wallets, l1)
           w2 == Apply(w1, l2)
           w3 == Apply(w2, l3)
<1>1. /\ Signed(l1) = -(a + WithdrawFee) /\ Signed(l2) = a /\ a + WithdrawFee \in Int
      /\ WithdrawFee \in Int
  BY DEF Signed, Leg, WithdrawFee
<1>2. \A v \in Owners : wallets[v].available \in Int /\ wallets[v].pending \in Int
  BY DEF WalletRow
<1>3. wallets' = w3
  BY DEF Transfer, Posted, HoldLegs, MaxLegs
<1>4. w1 \in [Owners -> WalletRow]
      /\ \A v \in Owners :
           /\ w1[v].available = wallets[v].available + IF v = u THEN Signed(l1) ELSE 0
           /\ w1[v].pending = wallets[v].pending
  BY <1>1, <1>2, OwnerFacts, LegMoves
<1> HIDE DEF l1, w1
<1>5. \A v \in Owners : w1[v].available \in Int /\ w1[v].pending \in Int
  BY <1>4 DEF WalletRow
<1>6. w2 \in [Owners -> WalletRow]
      /\ \A v \in Owners :
           /\ w2[v].available = w1[v].available
           /\ w2[v].pending = w1[v].pending + IF v = u THEN Signed(l2) ELSE 0
  BY <1>4, <1>5, OwnerFacts, LegMoves
<1> HIDE DEF l2, w2
<1>7. \A v \in Owners : w2[v].available \in Int /\ w2[v].pending \in Int
  BY <1>6 DEF WalletRow
<1>8. w3 \in [Owners -> WalletRow]
      /\ \A v \in Users : w3[v].available = w2[v].available /\ w3[v].pending = w2[v].pending
  BY <1>1, <1>6, <1>7, OwnerFacts, LegMoves
<1> HIDE DEF l3, w3
<1> QED
  BY <1>1, <1>2, <1>3, <1>4, <1>6, <1>8, OwnerFacts

LEMMA PayoutMoves ==
  ASSUME wallets \in [Owners -> WalletRow], NEW u \in Users, NEW a \in Int,
         Transfer(PayoutLegs(u, a))
  PROVE  /\ wallets' \in [Owners -> WalletRow]
         /\ \A v \in Users :
              /\ wallets'[v].available = wallets[v].available
              /\ wallets'[v].pending = wallets[v].pending - IF v = u THEN a ELSE 0
<1> DEFINE l1 == Leg(u, "D", a, "pending")
           l2 == Leg(House, "C", a, "available")
           w1 == Apply(wallets, l1)
           w2 == Apply(w1, l2)
<1>1. Signed(l1) = -a
  BY DEF Signed, Leg
<1>2. \A v \in Owners : wallets[v].available \in Int /\ wallets[v].pending \in Int
  BY DEF WalletRow
<1>3. wallets' = w2
  BY DEF Transfer, Posted, PayoutLegs, MaxLegs
<1>4. w1 \in [Owners -> WalletRow]
      /\ \A v \in Owners :
           /\ w1[v].available = wallets[v].available
           /\ w1[v].pending = wallets[v].pending + IF v = u THEN Signed(l1) ELSE 0
  BY <1>1, <1>2, OwnerFacts, LegMoves
<1> HIDE DEF l1, w1
<1>5. \A v \in Owners : w1[v].available \in Int /\ w1[v].pending \in Int
  BY <1>4 DEF WalletRow
<1>6. w2 \in [Owners -> WalletRow]
      /\ \A v \in Users : w2[v].available = w1[v].available /\ w2[v].pending = w1[v].pending
  BY <1>4, <1>5, OwnerFacts, LegMoves
<1> HIDE DEF l2, w2
<1> QED
  BY <1>1, <1>2, <1>3, <1>4, <1>6, OwnerFacts

LEMMA ReturnMoves ==
  ASSUME wallets \in [Owners -> WalletRow], NEW u \in Users, NEW a \in Int,
         Transfer(ReturnLegs(u, a))
  PROVE  /\ wallets' \in [Owners -> WalletRow]
         /\ \A v \in Users :
              /\ wallets'[v].available
                   = wallets[v].available + IF v = u THEN a + WithdrawFee ELSE 0
              /\ wallets'[v].pending = wallets[v].pending - IF v = u THEN a ELSE 0
<1> DEFINE l1 == Leg(u, "D", a, "pending")
           l2 == Leg(u, "C", a + WithdrawFee, "available")
           l3 == Leg(House, "D", WithdrawFee, "available")
           w1 == Apply(wallets, l1)
           w2 == Apply(w1, l2)
           w3 == Apply(w2, l3)
<1>1. /\ Signed(l1) = -a /\ Signed(l2) = a + WithdrawFee /\ a + WithdrawFee \in Int
      /\ WithdrawFee \in Int
  BY DEF Signed, Leg, WithdrawFee
<1>2. \A v \in Owners : wallets[v].available \in Int /\ wallets[v].pending \in Int
  BY DEF WalletRow
<1>3. wallets' = w3
  BY DEF Transfer, Posted, ReturnLegs, MaxLegs
<1>4. w1 \in [Owners -> WalletRow]
      /\ \A v \in Owners :
           /\ w1[v].available = wallets[v].available
           /\ w1[v].pending = wallets[v].pending + IF v = u THEN Signed(l1) ELSE 0
  BY <1>1, <1>2, OwnerFacts, LegMoves
<1> HIDE DEF l1, w1
<1>5. \A v \in Owners : w1[v].available \in Int /\ w1[v].pending \in Int
  BY <1>4 DEF WalletRow
<1>6. w2 \in [Owners -> WalletRow]
      /\ \A v \in Owners :
           /\ w2[v].available = w1[v].available + IF v = u THEN Signed(l2) ELSE 0
           /\ w2[v].pending = w1[v].pending
  BY <1>1, <1>4, <1>5, OwnerFacts, LegMoves
<1> HIDE DEF l2, w2
<1>7. \A v \in Owners : w2[v].available \in Int /\ w2[v].pending \in Int
  BY <1>6 DEF WalletRow
<1>8. w3 \in [Owners -> WalletRow]
      /\ \A v \in Users : w3[v].available = w2[v].available /\ w3[v].pending = w2[v].pending
  BY <1>1, <1>6, <1>7, OwnerFacts, LegMoves
<1> HIDE DEF l3, w3
<1> QED
  BY <1>1, <1>2, <1>3, <1>4, <1>6, <1>8, OwnerFacts

-----------------------------------------------------------------------------
(* Where the money of a user is.  Each sum runs over all rows, or handlers, *)
(* with those of other users at zero, so that no step changes its domain.  *)
ToppedUp(u) ==
  SumFunctionOnSet([p \in Topups |-> IF Payer[p] = u THEN credited[p] * Amount[p] ELSE 0],
                   Topups)
PaidTo(u) ==
  SumFunctionOnSet([r \in RequestIds |->
                      IF request[r].user = u THEN paidOut[r] * AmountOf(r) ELSE 0], RequestIds)
Returns(u) ==
  SumFunctionOnSet([r \in RequestIds |-> IF request[r].user = u THEN returned[r] ELSE 0],
                   RequestIds)
Undecided(u) ==
  SumFunctionOnSet([r \in RequestIds |->
                      IF request[r].user = u /\ Decisions(r) = 0 THEN AmountOf(r) ELSE 0],
                   RequestIds)
Unlisted(u) ==
  SumFunctionOnSet([q \in Requesters |->
                      IF qpc[q] = "held" /\ quser[q] = u THEN qamount[q] ELSE 0], Requesters)

(* A row not there yet has been neither paid out nor returned.             *)
Unborn ==
  \A r \in RequestIds : request[r] = NoRequest => paidOut[r] = 0 /\ returned[r] = 0

Accounted ==
  \A u \in Users :
    wallets[u].available + wallets[u].pending
      = ToppedUp(u) - PaidTo(u) - WithdrawFee * (holds[u] - Returns(u))

(* HoldsAccounted with the holds no row tells of yet counted whatever has  *)
(* failed: without them the bound is lost when one of them gets its row.   *)
Held ==
  \A u \in Users : (\A r \in RequestsOf(u) : Decisions(r) <= 1) =>
    /\ wallets[u].pending >= Undecided(u) + Unlisted(u)
    /\ cashFaults = 0 => wallets[u].pending = Undecided(u) + Unlisted(u)

MoneyInv ==
  CashflowInv /\ wallets \in [Owners -> WalletRow] /\ Unborn /\ Accounted /\ Held

LEMMA AskedFacts ==
  /\ \A a \in RequestAmounts : a \in Nat
  /\ CashTypeOK => \A q \in Requesters : qamount[q] \in Nat
<1>1. \A a \in RequestAmounts : a \in Nat
  BY WithdrawalConstants
<1> QED
  BY <1>1 DEF CashTypeOK

(* The values the sums add up are integers, and so are the sums.           *)
LEMMA RowValues ==
  ASSUME CashTypeOK, NEW r \in RequestIds
  PROVE  /\ AmountOf(r) \in Nat /\ paidOut[r] \in Nat /\ returned[r] \in Nat
         /\ Decisions(r) \in Nat /\ paidOut[r] * AmountOf(r) \in Nat
<1>1. request[r] \in RequestRows \cup {NoRequest} /\ paidOut[r] \in Nat /\ returned[r] \in Nat
  BY DEF CashTypeOK
<1>2. request[r].amount \in Nat
  BY <1>1, AskedFacts DEF RequestRows, NoRequest
<1>3. \A m, n \in Nat : m * n \in Nat
  OBVIOUS
<1> QED
  BY <1>1, <1>2, <1>3 DEF AmountOf, Decisions

LEMMA TopupValues ==
  ASSUME PayTypeOK, NEW p \in Topups
  PROVE  credited[p] \in Nat /\ Amount[p] \in Nat /\ credited[p] * Amount[p] \in Nat
<1>1. credited[p] \in Nat /\ Amount[p] \in Nat
  BY PaymentConstants DEF PayTypeOK
<1>2. \A m, n \in Nat : m * n \in Nat
  OBVIOUS
<1> QED
  BY <1>1, <1>2

LEMMA SumsTyped ==
  ASSUME PayTypeOK, CashTypeOK, NEW u
  PROVE  /\ ToppedUp(u) \in Int /\ PaidTo(u) \in Int /\ Returns(u) \in Int
         /\ Undecided(u) \in Int /\ Unlisted(u) \in Int
<1> DEFINE f == [p \in Topups |-> IF Payer[p] = u THEN credited[p] * Amount[p] ELSE 0]
           g == [r \in RequestIds |->
                   IF request[r].user = u THEN paidOut[r] * AmountOf(r) ELSE 0]
           h == [r \in RequestIds |-> IF request[r].user = u THEN returned[r] ELSE 0]
           i == [r \in RequestIds |->
                   IF request[r].user = u /\ Decisions(r) = 0 THEN AmountOf(r) ELSE 0]
           j == [q \in Requesters |->
                   IF qpc[q] = "held" /\ quser[q] = u THEN qamount[q] ELSE 0]
<1>1. \A p \in Topups : f[p] \in Int
  BY TopupValues
<1>2. \A r \in RequestIds : g[r] \in Int /\ h[r] \in Int /\ i[r] \in Int
  <2> TAKE r \in RequestIds
  <2>1. AmountOf(r) \in Nat /\ returned[r] \in Nat /\ paidOut[r] * AmountOf(r) \in Nat
    BY RowValues
  <2> QED
    BY <2>1
<1>3. \A q \in Requesters : j[q] \in Int
  BY AskedFacts
<1>4. IsFiniteSet(Topups) /\ IsFiniteSet(RequestIds) /\ IsFiniteSet(Requesters)
  BY PaymentConstants, WithdrawalConstants
<1> HIDE DEF f, g, h, i, j
<1>5. SumFunctionOnSet(f, Topups) \in Int
  BY <1>1, <1>4, SumType
<1>6. /\ SumFunctionOnSet(g, RequestIds) \in Int /\ SumFunctionOnSet(h, RequestIds) \in Int
      /\ SumFunctionOnSet(i, RequestIds) \in Int
  BY <1>2, <1>4, SumType
<1>7. SumFunctionOnSet(j, Requesters) \in Int
  BY <1>3, <1>4, SumType
<1> QED
  BY <1>5, <1>6, <1>7 DEF ToppedUp, PaidTo, Returns, Undecided, Unlisted, f, g, h, i, j

(* The sums of the two properties are these.                               *)
LEMMA MoneyInvImplies == MoneyInv => HoldsAccounted /\ UserMoneyAccounted
<1> SUFFICES ASSUME MoneyInv, NEW u \in Users
             PROVE  /\ LET waiting == SumFunctionOnSet([r \in RequestIds |-> AmountOf(r)],
                                        {r \in RequestsOf(u) : Decisions(r) = 0})
                           listing == SumFunctionOnSet(qamount,
                                        {q \in Requesters : qpc[q] = "held" /\ quser[q] = u})
                       IN (\A r \in RequestsOf(u) : Decisions(r) <= 1)
                            => /\ wallets[u].pending >= waiting
                               /\ cashFaults = 0 => wallets[u].pending = waiting + listing
                    /\ wallets[u].available + wallets[u].pending
                        = SumFunctionOnSet([p \in Topups |-> credited[p] * Amount[p]],
                                           {p \in Topups : Payer[p] = u})
                          - SumFunctionOnSet([r \in RequestIds |-> paidOut[r] * AmountOf(r)],
                                             RequestsOf(u))
                          - WithdrawFee * (holds[u] - SumFunctionOnSet(returned, RequestsOf(u)))
  BY DEF HoldsAccounted, UserMoneyAccounted
<1>1. PayTypeOK /\ CashTypeOK
  BY DEF MoneyInv, CashflowInv, PayInv, CashInv
<1>2. IsFiniteSet(Topups) /\ IsFiniteSet(RequestIds) /\ IsFiniteSet(Requesters)
  BY PaymentConstants, WithdrawalConstants
<1>3. SumFunctionOnSet([p \in Topups |-> credited[p] * Amount[p]],
                       {p \in Topups : Payer[p] = u}) = ToppedUp(u)
  <2> DEFINE T == {p \in Topups : Payer[p] = u}
             f == [p \in Topups |-> credited[p] * Amount[p]]
             g == [p \in Topups |-> IF Payer[p] = u THEN credited[p] * Amount[p] ELSE 0]
  <2>1. \A p \in Topups : f[p] \in Int /\ g[p] = IF p \in T THEN f[p] ELSE 0
    BY <1>1, TopupValues
  <2>2. T \in SUBSET Topups
    OBVIOUS
  <2> HIDE DEF f, g, T
  <2>3. SumFunctionOnSet(f, T) = SumFunctionOnSet(g, Topups)
    BY <1>2, <2>1, <2>2, SumPart
  <2> QED
    BY <2>3 DEF ToppedUp, f, g, T
<1>4. SumFunctionOnSet([r \in RequestIds |-> paidOut[r] * AmountOf(r)], RequestsOf(u))
        = PaidTo(u)
  <2> DEFINE f == [r \in RequestIds |-> paidOut[r] * AmountOf(r)]
             g == [r \in RequestIds |->
                     IF request[r].user = u THEN paidOut[r] * AmountOf(r) ELSE 0]
  <2>1. \A r \in RequestIds : f[r] \in Int /\ g[r] = IF r \in RequestsOf(u) THEN f[r] ELSE 0
    <3> TAKE r \in RequestIds
    <3>1. paidOut[r] * AmountOf(r) \in Int
      BY <1>1, RowValues
    <3> QED
      BY <3>1 DEF RequestsOf
  <2>2. RequestsOf(u) \in SUBSET RequestIds
    BY DEF RequestsOf
  <2> HIDE DEF f, g
  <2>3. SumFunctionOnSet(f, RequestsOf(u)) = SumFunctionOnSet(g, RequestIds)
    BY <1>2, <2>1, <2>2, SumPart
  <2> QED
    BY <2>3 DEF PaidTo, f, g
<1>5. SumFunctionOnSet(returned, RequestsOf(u)) = Returns(u)
  <2> DEFINE g == [r \in RequestIds |-> IF request[r].user = u THEN returned[r] ELSE 0]
  <2>1. \A r \in RequestIds : /\ returned[r] \in Int
                              /\ g[r] = IF r \in RequestsOf(u) THEN returned[r] ELSE 0
    BY <1>1 DEF CashTypeOK, RequestsOf
  <2>2. RequestsOf(u) \in SUBSET RequestIds
    BY DEF RequestsOf
  <2> HIDE DEF g
  <2>3. SumFunctionOnSet(returned, RequestsOf(u)) = SumFunctionOnSet(g, RequestIds)
    BY <1>2, <2>1, <2>2, SumPart
  <2> QED
    BY <2>3 DEF Returns, g
<1>6. SumFunctionOnSet([r \in RequestIds |-> AmountOf(r)],
                       {r \in RequestsOf(u) : Decisions(r) = 0}) = Undecided(u)
  <2> DEFINE T == {r \in RequestsOf(u) : Decisions(r) = 0}
             f == [r \in RequestIds |-> AmountOf(r)]
             g == [r \in RequestIds |->
                     IF request[r].user = u /\ Decisions(r) = 0 THEN AmountOf(r) ELSE 0]
  <2>1. \A r \in RequestIds : f[r] \in Int /\ g[r] = IF r \in T THEN f[r] ELSE 0
    <3> TAKE r \in RequestIds
    <3>1. AmountOf(r) \in Int
      BY <1>1, RowValues
    <3> QED
      BY <3>1 DEF RequestsOf
  <2>2. T \in SUBSET RequestIds
    BY DEF RequestsOf
  <2> HIDE DEF f, g, T
  <2>3. SumFunctionOnSet(f, T) = SumFunctionOnSet(g, RequestIds)
    BY <1>2, <2>1, <2>2, SumPart
  <2> QED
    BY <2>3 DEF Undecided, f, g, T
<1>7. SumFunctionOnSet(qamount, {q \in Requesters : qpc[q] = "held" /\ quser[q] = u})
        = Unlisted(u)
  <2> DEFINE T == {q \in Requesters : qpc[q] = "held" /\ quser[q] = u}
             g == [q \in Requesters |->
                     IF qpc[q] = "held" /\ quser[q] = u THEN qamount[q] ELSE 0]
  <2>1. \A q \in Requesters : qamount[q] \in Nat /\ g[q] = IF q \in T THEN qamount[q] ELSE 0
    BY <1>1, AskedFacts
  <2>2. T \in SUBSET Requesters
    OBVIOUS
  <2> HIDE DEF g, T
  <2>3. SumFunctionOnSet(qamount, T) = SumFunctionOnSet(g, Requesters)
    BY <1>2, <2>1, <2>2, SumPart
  <2> QED
    BY <2>3 DEF Unlisted, g, T
<1>8. /\ Undecided(u) \in Int
      /\ wallets[u].pending \in Int /\ wallets[u].available \in Int
  BY <1>1, SumsTyped, OwnerFacts DEF MoneyInv, WalletRow
<1>9. Unlisted(u) \in Nat
  <2> DEFINE g == [q \in Requesters |->
                     IF qpc[q] = "held" /\ quser[q] = u THEN qamount[q] ELSE 0]
  <2>1. \A q \in Requesters : g[q] \in Nat
    BY <1>1, AskedFacts
  <2> HIDE DEF g
  <2>2. SumFunctionOnSet(g, Requesters) \in Nat
    BY <1>2, <2>1, SumOfNaturals
  <2> QED
    BY <2>2 DEF Unlisted, g
<1>10. /\ wallets[u].available + wallets[u].pending
            = ToppedUp(u) - PaidTo(u) - WithdrawFee * (holds[u] - Returns(u))
       /\ (\A r \in RequestsOf(u) : Decisions(r) <= 1) =>
            /\ wallets[u].pending >= Undecided(u) + Unlisted(u)
            /\ cashFaults = 0 => wallets[u].pending = Undecided(u) + Unlisted(u)
  BY DEF MoneyInv, Accounted, Held
<1> QED
  BY <1>3, <1>4, <1>5, <1>6, <1>7, <1>8, <1>9, <1>10

LEMMA MoneyInit == Init => MoneyInv
<1> SUFFICES ASSUME Init PROVE MoneyInv
  OBVIOUS
<1>1. /\ credited = [p \in Topups |-> 0] /\ request = [r \in RequestIds |-> NoRequest]
      /\ holds = [u \in Users |-> 0] /\ paidOut = [r \in RequestIds |-> 0]
      /\ returned = [r \in RequestIds |-> 0] /\ qpc = [q \in Requesters |-> "idle"]
      /\ wallets = [o \in Owners |-> [available |-> 0, pending |-> 0]]
  BY DEF Init, PayInit, CashInit
<1>2. wallets \in [Owners -> WalletRow] /\ Unborn
  BY <1>1 DEF WalletRow, Unborn
<1>3. IsFiniteSet(Topups) /\ IsFiniteSet(RequestIds) /\ IsFiniteSet(Requesters)
  BY PaymentConstants, WithdrawalConstants
<1>4. ASSUME NEW u \in Users
      PROVE  ToppedUp(u) = 0 /\ PaidTo(u) = 0 /\ Returns(u) = 0 /\ Undecided(u) = 0
               /\ Unlisted(u) = 0
  <2>1. NoRequest.user # u
    BY WithdrawalConstants DEF NoRequest
  <2>2. ToppedUp(u) = 0
    <3>1. \A p \in Topups : Amount[p] \in Nat /\ 0 * Amount[p] = 0
      BY PaymentConstants
    <3> QED
      BY <1>1, <1>3, <3>1, SumZero DEF ToppedUp
  <2>3. PaidTo(u) = 0 /\ Returns(u) = 0
    BY <1>1, <1>3, <2>1, SumZero DEF PaidTo, Returns
  <2>4. Undecided(u) = 0
    BY <1>1, <1>3, <2>1, SumZero DEF Undecided
  <2>5. Unlisted(u) = 0
    BY <1>1, <1>3, SumZero DEF Unlisted
  <2> QED
    BY <2>2, <2>3, <2>4, <2>5
<1>5. \A u \in Users : wallets[u].available = 0 /\ wallets[u].pending = 0 /\ holds[u] = 0
  BY <1>1, OwnerFacts
<1>6. Accounted /\ Held
  BY <1>4, <1>5 DEF Accounted, Held, WithdrawFee
<1> QED
  BY <1>2, <1>6, CashflowInit DEF MoneyInv

(* A step that changes no amount and no owner of a row changes no sum over *)
(* the rows.                                                               *)
LEMMA RowSumsKept ==
  ASSUME paidOut' = paidOut, returned' = returned,
         \A r \in RequestIds : /\ request'[r].user = request[r].user
                               /\ request'[r].amount = request[r].amount
  PROVE  \A u : /\ PaidTo(u)' = PaidTo(u) /\ Returns(u)' = Returns(u)
                /\ Undecided(u)' = Undecided(u)
<1> SUFFICES ASSUME NEW u
             PROVE  /\ PaidTo(u)' = PaidTo(u) /\ Returns(u)' = Returns(u)
                    /\ Undecided(u)' = Undecided(u)
  OBVIOUS
<1> DEFINE f == [r \in RequestIds |->
                   IF request[r].user = u THEN paidOut[r] * AmountOf(r) ELSE 0]
           g == [r \in RequestIds |-> IF request[r].user = u THEN returned[r] ELSE 0]
           h == [r \in RequestIds |->
                   IF request[r].user = u /\ Decisions(r) = 0 THEN AmountOf(r) ELSE 0]
<1>1. f' = f /\ g' = g /\ h' = h
  BY DEF AmountOf, Decisions
<1> QED
  BY <1>1 DEF PaidTo, Returns, Undecided

(* A sum over the requesters is an integer after a step too.               *)
LEMMA UnlistedTyped == ASSUME CashTypeOK' PROVE \A u : Unlisted(u)' \in Int
<1> SUFFICES ASSUME NEW u PROVE Unlisted(u)' \in Int
  OBVIOUS
<1>1. \E f : /\ Unlisted(u)' = SumFunctionOnSet(f, Requesters)
            /\ \A q \in Requesters : f[q] \in Int
  <2> DEFINE f == [q \in Requesters |->
                     IF qpc'[q] = "held" /\ quser'[q] = u THEN qamount'[q] ELSE 0]
  <2>1. \A q \in Requesters : qamount'[q] \in Int
    BY AskedFacts DEF CashTypeOK
  <2>2. \A q \in Requesters : f[q] \in Int
    BY <2>1
  <2>3. Unlisted(u)' = SumFunctionOnSet(f, Requesters)
    BY DEF Unlisted
  <2> QED
    BY <2>2, <2>3
<1>2. IsFiniteSet(Requesters)
  BY WithdrawalConstants
<1> QED
  BY <1>1, <1>2, SumType

LEMMA TopupsKept == credited' = credited => \A u : ToppedUp(u)' = ToppedUp(u)
  BY DEF ToppedUp

(* A step that moves no money; it may lose a hold that no row tells of     *)
(* yet, if it counts as a fault.                                           *)
LEMMA MoneyKept ==
  ASSUME MoneyInv, CashflowInv', UNCHANGED <<wallets, credited, holds, paidOut, returned>>,
         \A r \in RequestIds : /\ request'[r].user = request[r].user
                               /\ request'[r].amount = request[r].amount
                               /\ request'[r] = NoRequest => request[r] = NoRequest,
         cashFaults' = 0 => cashFaults = 0,
         \A u \in Users : /\ Unlisted(u)' <= Unlisted(u)
                          /\ cashFaults' = 0 => Unlisted(u)' = Unlisted(u)
  PROVE  MoneyInv'
<1>1. \A u : /\ PaidTo(u)' = PaidTo(u) /\ Returns(u)' = Returns(u)
             /\ Undecided(u)' = Undecided(u) /\ ToppedUp(u)' = ToppedUp(u)
  BY RowSumsKept, TopupsKept
<1>2. Unborn' /\ wallets' \in [Owners -> WalletRow]
  BY DEF MoneyInv, Unborn
<1>3. Accounted'
  BY <1>1 DEF MoneyInv, Accounted
<1>4. Held'
  <2> SUFFICES ASSUME NEW u \in Users, \A r \in RequestsOf(u)' : Decisions(r)' <= 1
               PROVE  /\ wallets[u].pending >= Undecided(u) + Unlisted(u)'
                      /\ cashFaults' = 0
                           => wallets[u].pending = Undecided(u) + Unlisted(u)'
    BY <1>1 DEF Held
  <2>1. RequestsOf(u)' = RequestsOf(u) /\ \A r : Decisions(r)' = Decisions(r)
    BY DEF RequestsOf, Decisions
  <2>2. /\ wallets[u].pending >= Undecided(u) + Unlisted(u)
        /\ cashFaults = 0 => wallets[u].pending = Undecided(u) + Unlisted(u)
    BY <2>1 DEF MoneyInv, Held
  <2>3. /\ Undecided(u) \in Int /\ Unlisted(u) \in Int /\ Unlisted(u)' \in Int
        /\ wallets[u].pending \in Int
    <3>1. PayTypeOK /\ CashTypeOK /\ wallets[u] \in WalletRow
      BY OwnerFacts DEF MoneyInv, CashflowInv, PayInv, CashInv
    <3>2. (PayTypeOK /\ CashTypeOK)'
      BY DEF CashflowInv, PayInv, CashInv
    <3>3. \A v : Unlisted(v)' \in Int
      BY <3>2, UnlistedTyped
    <3> QED
      BY <3>1, <3>3, SumsTyped DEF WalletRow
  <2> QED
    BY <2>2, <2>3
<1> QED
  BY <1>2, <1>3, <1>4 DEF MoneyInv

(* The four steps that move money, or begin to tell of it.                 *)
LEMMA MoneyCredit ==
  ASSUME MoneyInv, CashflowInv', NEW d \in Receivers, CreditUser(d), UNCHANGED cashVars
  PROVE  MoneyInv'
<1> DEFINE p == topup[d]
<1>1. p \in Topups /\ PayTypeOK /\ CashTypeOK /\ wallets \in [Owners -> WalletRow]
  BY DEF CreditUser, MoneyInv, CashflowInv, PayInv, CashInv, Received
<1>2. /\ wallets' \in [Owners -> WalletRow]
      /\ \A v \in Users :
           /\ wallets'[v].available
                = wallets[v].available + IF v = Payer[p] THEN Amount[p] ELSE 0
           /\ wallets'[v].pending = wallets[v].pending
  BY <1>1, TopupMoves DEF CreditUser
<1>3. credited' = [credited EXCEPT ![p] = @ + 1]
  BY DEF CreditUser
<1>4. ASSUME NEW u \in Users
      PROVE  ToppedUp(u)' = ToppedUp(u) + IF u = Payer[p] THEN Amount[p] ELSE 0
  <2> DEFINE f == [q \in Topups |-> IF Payer[q] = u THEN credited[q] * Amount[q] ELSE 0]
             g == [q \in Topups |-> IF Payer[q] = u THEN credited'[q] * Amount[q] ELSE 0]
  <2>1. \A q \in Topups : credited'[q] = credited[q] + IF q = p THEN 1 ELSE 0
    <3>1. \A q \in Topups : credited[q] \in Nat
      BY <1>1, TopupValues
    <3>2. credited \in [Topups -> Nat] /\ p \in Topups
      BY <1>1 DEF PayTypeOK
    <3> HIDE DEF p
    <3> QED
      BY <1>3, <3>1, <3>2
  <2>2. \A m, n \in Nat : m * n \in Nat /\ (m + 1) * n \in Nat /\ (m + 1) * n = m * n + n
    OBVIOUS
  <2>3. \A q \in Topups : f[q] \in Int /\ g[q] \in Int
    <3> TAKE q \in Topups
    <3>1. /\ credited[q] \in Nat /\ Amount[q] \in Nat
          /\ credited'[q] = credited[q] \/ credited'[q] = credited[q] + 1
      BY <1>1, <2>1, TopupValues
    <3>2. credited[q] * Amount[q] \in Nat /\ credited'[q] * Amount[q] \in Nat
      BY <2>2, <3>1
    <3> QED
      BY <3>2
  <2>4. \A q \in Topups : q # p => g[q] = f[q]
    BY <1>1, <1>3
  <2>5. g[p] - f[p] = IF u = Payer[p] THEN Amount[p] ELSE 0
    <3>1. credited'[p] = credited[p] + 1 /\ credited[p] \in Nat /\ Amount[p] \in Nat
      BY <1>1, <2>1, TopupValues
    <3>2. credited'[p] * Amount[p] = credited[p] * Amount[p] + Amount[p]
          /\ credited[p] * Amount[p] \in Nat
      BY <2>2, <3>1
    <3>3. /\ f[p] = IF Payer[p] = u THEN credited[p] * Amount[p] ELSE 0
          /\ g[p] = IF Payer[p] = u THEN credited'[p] * Amount[p] ELSE 0
      BY <1>1
    <3>4. \A m, n \in Nat : n + m - n = m /\ n - n = 0
      OBVIOUS
    <3> HIDE DEF f, g, p
    <3>5. CASE u = Payer[p]
      <4>1. f[p] = credited[p] * Amount[p] /\ g[p] = credited[p] * Amount[p] + Amount[p]
        BY <3>2, <3>3, <3>5
      <4> QED
        BY <3>1, <3>2, <3>4, <3>5, <4>1
    <3>6. CASE u # Payer[p]
      BY <3>3, <3>6
    <3> QED
      BY <3>5, <3>6
  <2>6. IsFiniteSet(Topups) /\ p \in Topups
    BY <1>1, PaymentConstants
  <2>7. ToppedUp(u) = SumFunctionOnSet(f, Topups) /\ ToppedUp(u)' = SumFunctionOnSet(g, Topups)
    BY DEF ToppedUp
  <2> HIDE DEF f, g, p
  <2>8. SumFunctionOnSet(g, Topups) = SumFunctionOnSet(f, Topups) + g[p] - f[p]
    BY <2>3, <2>4, <2>6, SumChange
  <2>9. SumFunctionOnSet(f, Topups) \in Int /\ f[p] \in Int /\ g[p] \in Int
    BY <2>3, <2>6, SumType
  <2> QED
    BY <2>5, <2>7, <2>8, <2>9
<1>5. UNCHANGED <<request, holds, paidOut, returned, qpc, quser, qamount, cashFaults>>
  BY DEF cashVars
<1>6. \A u : /\ PaidTo(u)' = PaidTo(u) /\ Returns(u)' = Returns(u)
             /\ Undecided(u)' = Undecided(u) /\ Unlisted(u)' = Unlisted(u)
  BY <1>5, RowSumsKept DEF Unlisted
<1> HIDE DEF p
<1>7. Accounted'
  <2> SUFFICES ASSUME NEW u \in Users
               PROVE  wallets'[u].available + wallets'[u].pending
                        = ToppedUp(u)' - PaidTo(u) - WithdrawFee * (holds[u] - Returns(u))
    BY <1>5, <1>6 DEF Accounted
  <2>1. wallets[u].available + wallets[u].pending
          = ToppedUp(u) - PaidTo(u) - WithdrawFee * (holds[u] - Returns(u))
    BY DEF MoneyInv, Accounted
  <2>2. /\ wallets[u].available \in Int /\ wallets[u].pending \in Int /\ holds[u] \in Int
        /\ ToppedUp(u) \in Int /\ PaidTo(u) \in Int /\ Returns(u) \in Int
    BY <1>1, OwnerFacts, SumsTyped DEF WalletRow, CashTypeOK
  <2>3. Amount[p] \in Int
    BY <1>1, PaymentConstants
  <2>4. CASE u = Payer[p]
    <3>1. /\ wallets'[u].available = wallets[u].available + Amount[p]
          /\ wallets'[u].pending = wallets[u].pending
          /\ ToppedUp(u)' = ToppedUp(u) + Amount[p]
      BY <1>2, <1>4, <2>4
    <3>2. \A x, y, t, o, h, a \in Int : x + y = t - o - h => (x + a) + y = (t + a) - o - h
      OBVIOUS
    <3>3. WithdrawFee * (holds[u] - Returns(u)) \in Int
      BY <2>2 DEF WithdrawFee
    <3> QED
      BY <2>1, <2>2, <2>3, <3>1, <3>2, <3>3
  <2>5. CASE u # Payer[p]
    BY <1>2, <1>4, <2>1, <2>2, <2>5 DEF WithdrawFee
  <2> QED
    BY <2>4, <2>5
<1>8. Held' /\ Unborn'
  BY <1>2, <1>5, <1>6 DEF MoneyInv, Held, Unborn, RequestsOf, Decisions
<1> QED
  BY <1>2, <1>7, <1>8 DEF MoneyInv

LEMMA MoneyHold ==
  ASSUME MoneyInv, CashflowInv', NEW q \in Requesters, RequestHold(q), UNCHANGED payVars
  PROVE  MoneyInv'
<1> DEFINE v == quser[q]
           a == qamount[q]
<1>1. /\ v \in Users /\ a \in Nat /\ PayTypeOK /\ CashTypeOK
      /\ wallets \in [Owners -> WalletRow]
  BY AskedFacts DEF RequestHold, MoneyInv, CashflowInv, PayInv, CashInv, Decided
<1>2. /\ wallets' \in [Owners -> WalletRow]
      /\ \A u \in Users :
           /\ wallets'[u].available
                = wallets[u].available - IF u = v THEN a + WithdrawFee ELSE 0
           /\ wallets'[u].pending = wallets[u].pending + IF u = v THEN a ELSE 0
  BY <1>1, HoldMoves DEF RequestHold
<1>3. /\ holds' = [holds EXCEPT ![v] = @ + 1] /\ qpc[q] = "funded"
      /\ qpc' = [qpc EXCEPT ![q] = "held"]
      /\ UNCHANGED <<request, paidOut, returned, quser, qamount, cashFaults, credited>>
  BY DEF RequestHold, payVars
<1>4. ASSUME NEW u \in Users PROVE Unlisted(u)' = Unlisted(u) + IF u = v THEN a ELSE 0
  <2> DEFINE f == [p \in Requesters |->
                     IF qpc[p] = "held" /\ quser[p] = u THEN qamount[p] ELSE 0]
             g == [p \in Requesters |->
                     IF qpc'[p] = "held" /\ quser[p] = u THEN qamount[p] ELSE 0]
  <2>1. \A p \in Requesters : f[p] \in Int /\ g[p] \in Int
    BY <1>1, AskedFacts
  <2>2. \A p \in Requesters : p # q => g[p] = f[p]
    BY <1>1, <1>3 DEF CashTypeOK
  <2>3. f[q] = 0 /\ g[q] = IF u = v THEN a ELSE 0
    BY <1>1, <1>3 DEF CashTypeOK
  <2>4. Unlisted(u) = SumFunctionOnSet(f, Requesters)
        /\ Unlisted(u)' = SumFunctionOnSet(g, Requesters)
    BY <1>3 DEF Unlisted
  <2>5. IsFiniteSet(Requesters)
    BY WithdrawalConstants
  <2> HIDE DEF f, g
  <2>6. SumFunctionOnSet(g, Requesters) = SumFunctionOnSet(f, Requesters) + g[q] - f[q]
    BY <2>1, <2>2, <2>5, SumChange
  <2>7. SumFunctionOnSet(f, Requesters) \in Int /\ g[q] \in Int
    BY <2>1, <2>5, SumType
  <2> HIDE DEF v, a
  <2> QED
    BY <2>3, <2>4, <2>6, <2>7
<1>5. \A u : /\ PaidTo(u)' = PaidTo(u) /\ Returns(u)' = Returns(u)
             /\ Undecided(u)' = Undecided(u) /\ ToppedUp(u)' = ToppedUp(u)
  BY <1>3, RowSumsKept, TopupsKept
<1>6. \A u \in Users : /\ holds[u] \in Nat
                       /\ holds'[u] = holds[u] + IF u = v THEN 1 ELSE 0
  BY <1>1, <1>3 DEF CashTypeOK
<1>7. \A u \in Users :
        /\ wallets[u].available \in Int /\ wallets[u].pending \in Int
        /\ ToppedUp(u) \in Int /\ PaidTo(u) \in Int /\ Returns(u) \in Int
        /\ Undecided(u) \in Int /\ Unlisted(u) \in Int
  BY <1>1, OwnerFacts, SumsTyped DEF WalletRow
<1> HIDE DEF v, a
<1>8. Accounted'
  <2> SUFFICES ASSUME NEW u \in Users
               PROVE  wallets'[u].available + wallets'[u].pending
                        = ToppedUp(u) - PaidTo(u) - WithdrawFee * (holds'[u] - Returns(u))
    BY <1>5 DEF Accounted
  <2>1. wallets[u].available + wallets[u].pending
          = ToppedUp(u) - PaidTo(u) - WithdrawFee * (holds[u] - Returns(u))
    BY DEF MoneyInv, Accounted
  <2>2. CASE u = v
    BY <1>1, <1>2, <1>6, <1>7, <2>1, <2>2 DEF WithdrawFee
  <2>3. CASE u # v
    BY <1>2, <1>6, <1>7, <2>1, <2>3 DEF WithdrawFee
  <2> QED
    BY <2>2, <2>3
<1>9. Held'
  <2> SUFFICES ASSUME NEW u \in Users, \A r \in RequestsOf(u) : Decisions(r) <= 1
               PROVE  /\ wallets'[u].pending >= Undecided(u) + Unlisted(u)'
                      /\ cashFaults = 0
                           => wallets'[u].pending = Undecided(u) + Unlisted(u)'
    BY <1>3, <1>5 DEF Held, RequestsOf, Decisions
  <2>1. /\ wallets[u].pending >= Undecided(u) + Unlisted(u)
        /\ cashFaults = 0 => wallets[u].pending = Undecided(u) + Unlisted(u)
    BY DEF MoneyInv, Held
  <2>2. CASE u = v
    BY <1>1, <1>2, <1>4, <1>7, <2>1, <2>2
  <2>3. CASE u # v
    BY <1>2, <1>4, <1>7, <2>1, <2>3
  <2> QED
    BY <2>2, <2>3
<1>10. Unborn'
  BY <1>3 DEF MoneyInv, Unborn
<1> QED
  BY <1>2, <1>8, <1>9, <1>10 DEF MoneyInv

(* The row gets the amount its handler holds: one sum takes over what the  *)
(* other gives up.                                                         *)
LEMMA MoneyCreate ==
  ASSUME MoneyInv, CashflowInv', NEW q \in Requesters, RequestCreate(q), UNCHANGED payVars
  PROVE  MoneyInv'
<1> DEFINE v == quser[q]
           a == qamount[q]
           new == [user |-> v, amount |-> a, status |-> "pending"]
<1>1. /\ v \in Users /\ a \in Nat /\ PayTypeOK /\ CashTypeOK /\ qpc[q] = "held"
      /\ wallets \in [Owners -> WalletRow]
  BY AskedFacts DEF RequestCreate, MoneyInv, CashflowInv, PayInv, CashInv, Decided
<1>2. PICK r \in RequestIds : request[r] = NoRequest /\ request' = [request EXCEPT ![r] = new]
  BY DEF RequestCreate
<1>3. /\ qpc' = [qpc EXCEPT ![q] = "idle"] /\ quser' = [quser EXCEPT ![q] = Nobody]
      /\ qamount' = [qamount EXCEPT ![q] = 0]
      /\ UNCHANGED <<wallets, holds, paidOut, returned, cashFaults, credited>>
  BY DEF RequestCreate, RequestEnds, payVars
<1>4. /\ paidOut[r] = 0 /\ returned[r] = 0 /\ Decisions(r) = 0
      /\ request[r].user = Nobody /\ Nobody \notin Users
      /\ request'[r] = new /\ new.user = v /\ new.amount = a
      /\ \A s \in RequestIds : s # r => request'[s] = request[s]
  BY <1>1, <1>2, WithdrawalConstants DEF MoneyInv, Unborn, Decisions, CashTypeOK, NoRequest
<1> HIDE DEF new
<1>5. ASSUME NEW u \in Users PROVE PaidTo(u)' = PaidTo(u) /\ Returns(u)' = Returns(u)
  <2> DEFINE f == [s \in RequestIds |->
                     IF request[s].user = u THEN paidOut[s] * AmountOf(s) ELSE 0]
             g == [s \in RequestIds |->
                     IF request'[s].user = u THEN paidOut[s] * AmountOf(s)' ELSE 0]
             h == [s \in RequestIds |-> IF request[s].user = u THEN returned[s] ELSE 0]
             i == [s \in RequestIds |-> IF request'[s].user = u THEN returned[s] ELSE 0]
  <2>1. \A s \in RequestIds : s # r => g[s] = f[s] /\ i[s] = h[s]
    BY <1>4 DEF AmountOf
  <2>2. g[r] = 0 /\ f[r] = 0 /\ h[r] = 0 /\ i[r] = 0
    <3>1. 0 * a = 0 /\ AmountOf(r)' = a
      BY <1>1, <1>4 DEF AmountOf
    <3> QED
      BY <1>4, <3>1
  <2>3. \A s \in RequestIds : g[s] = f[s] /\ i[s] = h[s]
    BY <2>1, <2>2
  <2>4. /\ PaidTo(u) = SumFunctionOnSet(f, RequestIds)
        /\ PaidTo(u)' = SumFunctionOnSet(g, RequestIds)
        /\ Returns(u) = SumFunctionOnSet(h, RequestIds)
        /\ Returns(u)' = SumFunctionOnSet(i, RequestIds)
    BY <1>3 DEF PaidTo, Returns
  <2> HIDE DEF f, g, h, i
  <2> QED
    BY <2>3, <2>4, WithdrawalConstants, SumSame
<1>6. ASSUME NEW u \in Users PROVE Undecided(u)' = Undecided(u) + IF u = v THEN a ELSE 0
  <2> DEFINE f == [s \in RequestIds |->
                     IF request[s].user = u /\ Decisions(s) = 0 THEN AmountOf(s) ELSE 0]
             g == [s \in RequestIds |->
                     IF request'[s].user = u /\ Decisions(s) = 0 THEN AmountOf(s)' ELSE 0]
  <2>1. \A s \in RequestIds : s # r => g[s] = f[s]
    BY <1>4 DEF AmountOf
  <2>2. f[r] = 0 /\ g[r] = IF u = v THEN a ELSE 0
    BY <1>4 DEF AmountOf
  <2>3. \A s \in RequestIds : AmountOf(s) \in Int
    BY <1>1, RowValues
  <2>4. \A s \in RequestIds : f[s] \in Int
    BY <2>3
  <2>5. \A s \in RequestIds : Decisions(s)' = Decisions(s)
    BY <1>3 DEF Decisions
  <2>6. Undecided(u) = SumFunctionOnSet(f, RequestIds)
        /\ Undecided(u)' = SumFunctionOnSet(g, RequestIds)
    BY <2>5 DEF Undecided
  <2>7. IsFiniteSet(RequestIds)
    BY WithdrawalConstants
  <2> HIDE DEF f, g, v, a
  <2>8. \A s \in RequestIds : g[s] \in Int
    BY <1>1, <2>1, <2>2, <2>4
  <2>9. SumFunctionOnSet(g, RequestIds) = SumFunctionOnSet(f, RequestIds) + g[r] - f[r]
    BY <2>1, <2>4, <2>7, <2>8, SumChange
  <2>10. SumFunctionOnSet(f, RequestIds) \in Int /\ g[r] \in Int
    BY <2>4, <2>7, <2>8, SumType
  <2> QED
    BY <2>2, <2>6, <2>9, <2>10
<1>7. ASSUME NEW u \in Users PROVE Unlisted(u)' = Unlisted(u) - IF u = v THEN a ELSE 0
  <2> DEFINE f == [p \in Requesters |->
                     IF qpc[p] = "held" /\ quser[p] = u THEN qamount[p] ELSE 0]
             g == [p \in Requesters |->
                     IF qpc'[p] = "held" /\ quser'[p] = u THEN qamount'[p] ELSE 0]
  <2>1. \A p \in Requesters : f[p] \in Int
    BY <1>1, AskedFacts
  <2>2. \A p \in Requesters : p # q => g[p] = f[p]
    BY <1>1, <1>3 DEF CashTypeOK
  <2>3. g[q] = 0 /\ f[q] = IF u = v THEN a ELSE 0
    BY <1>1, <1>3 DEF CashTypeOK
  <2>4. Unlisted(u) = SumFunctionOnSet(f, Requesters)
        /\ Unlisted(u)' = SumFunctionOnSet(g, Requesters)
    BY DEF Unlisted
  <2>5. IsFiniteSet(Requesters)
    BY WithdrawalConstants
  <2> HIDE DEF f, g
  <2>6. \A p \in Requesters : g[p] \in Int
    BY <2>1, <2>2, <2>3
  <2>7. SumFunctionOnSet(g, Requesters) = SumFunctionOnSet(f, Requesters) + g[q] - f[q]
    BY <2>1, <2>2, <2>5, <2>6, SumChange
  <2>8. SumFunctionOnSet(f, Requesters) \in Int /\ f[q] \in Int
    BY <2>1, <2>5, SumType
  <2> HIDE DEF v, a
  <2> QED
    BY <2>3, <2>4, <2>7, <2>8
<1> HIDE DEF v, a
<1>8. \A u : ToppedUp(u)' = ToppedUp(u)
  BY <1>3, TopupsKept
<1>9. Accounted'
  BY <1>3, <1>5, <1>8 DEF MoneyInv, Accounted
<1>10. Held'
  <2> SUFFICES ASSUME NEW u \in Users, \A s \in RequestsOf(u)' : Decisions(s)' <= 1
               PROVE  /\ wallets[u].pending >= Undecided(u)' + Unlisted(u)'
                      /\ cashFaults = 0
                           => wallets[u].pending = Undecided(u)' + Unlisted(u)'
    BY <1>3 DEF Held
  <2>1. \A s \in RequestsOf(u) : Decisions(s) <= 1
    <3> SUFFICES ASSUME NEW s \in RequestsOf(u) PROVE Decisions(s) <= 1
      OBVIOUS
    <3>1. s \in RequestIds /\ s # r
      BY <1>4 DEF RequestsOf
    <3>2. s \in RequestsOf(u)' /\ Decisions(s)' = Decisions(s)
      BY <1>3, <1>4, <3>1 DEF RequestsOf, Decisions
    <3> QED
      BY <3>2
  <2>2. /\ wallets[u].pending >= Undecided(u) + Unlisted(u)
        /\ cashFaults = 0 => wallets[u].pending = Undecided(u) + Unlisted(u)
    BY <2>1 DEF MoneyInv, Held
  <2>3. wallets[u].pending \in Int /\ Undecided(u) \in Int /\ Unlisted(u) \in Int
    BY <1>1, OwnerFacts, SumsTyped DEF WalletRow
  <2>4. Undecided(u)' + Unlisted(u)' = Undecided(u) + Unlisted(u)
    BY <1>1, <1>6, <1>7, <2>3
  <2> QED
    BY <2>2, <2>4
<1>11. Unborn'
  BY <1>3, <1>4 DEF MoneyInv, Unborn
<1> QED
  BY <1>1, <1>3, <1>9, <1>10, <1>11 DEF MoneyInv

(* The first decision takes the request out of what waits; a second one    *)
(* takes its user out of HoldsAccounted.                                   *)
LEMMA MoneyDecide ==
  ASSUME MoneyInv, CashflowInv', NEW d \in Deciders, DecidePay(d), UNCHANGED payVars
  PROVE  MoneyInv'
<1>a. PICK r \in RequestIds : r = drow[d]
  BY DEF DecidePay, MoneyInv, CashflowInv, CashInv, Decided
<1> DEFINE v == request[r].user
           a == request[r].amount
<1>1. /\ r \in RequestIds /\ request[r] \in RequestRows /\ PayTypeOK /\ CashTypeOK
      /\ wallets \in [Owners -> WalletRow]
  BY <1>a DEF DecidePay, MoneyInv, CashflowInv, PayInv, CashInv, Decided
<1>2. v \in Users /\ a \in Nat /\ AmountOf(r) = a /\ request[r] # NoRequest
  BY <1>1, AskedFacts, RequestFacts DEF RequestRows, AmountOf
<1>3. UNCHANGED <<request, holds, qpc, quser, qamount, cashFaults, credited>>
  BY DEF DecidePay, requesterVars, payVars
<1>4. \/ /\ Transfer(PayoutLegs(v, a)) /\ returned' = returned
         /\ paidOut' = [paidOut EXCEPT ![r] = @ + 1]
      \/ /\ Transfer(ReturnLegs(v, a)) /\ paidOut' = paidOut
         /\ returned' = [returned EXCEPT ![r] = @ + 1]
  BY <1>a DEF DecidePay
<1>5. /\ wallets' \in [Owners -> WalletRow]
      /\ \A u \in Users : wallets'[u].pending = wallets[u].pending - IF u = v THEN a ELSE 0
  <2>1. CASE Transfer(PayoutLegs(v, a))
    BY <1>1, <1>2, <2>1, PayoutMoves
  <2>2. CASE Transfer(ReturnLegs(v, a))
    BY <1>1, <1>2, <2>2, ReturnMoves
  <2> QED
    BY <1>4, <2>1, <2>2
<1>6. /\ Decisions(r)' = Decisions(r) + 1 /\ Decisions(r) \in Nat
      /\ \A s \in RequestIds : s # r => Decisions(s)' = Decisions(s)
  <2>1. paidOut[r] \in Nat /\ returned[r] \in Nat
    BY <1>1, RowValues
  <2>2. /\ paidOut'[r] + returned'[r] = paidOut[r] + returned[r] + 1
        /\ \A s \in RequestIds : s # r => paidOut'[s] = paidOut[s] /\ returned'[s] = returned[s]
    BY <1>1, <1>4, <2>1 DEF CashTypeOK
  <2> QED
    BY <2>1, <2>2 DEF Decisions
<1>7. ASSUME NEW u \in Users, Decisions(r) = 0
      PROVE  Undecided(u)' = Undecided(u) - IF u = v THEN a ELSE 0
  <2> DEFINE f == [s \in RequestIds |->
                     IF request[s].user = u /\ Decisions(s) = 0 THEN AmountOf(s) ELSE 0]
             g == [s \in RequestIds |->
                     IF request[s].user = u /\ Decisions(s)' = 0 THEN AmountOf(s) ELSE 0]
  <2>1. \A s \in RequestIds : s # r => g[s] = f[s]
    BY <1>6
  <2>2. g[r] = 0 /\ f[r] = IF u = v THEN a ELSE 0
    BY <1>1, <1>2, <1>6, <1>7
  <2>3. \A s \in RequestIds : AmountOf(s) \in Int
    BY <1>1, RowValues
  <2>4. \A s \in RequestIds : f[s] \in Int
    BY <2>3
  <2>5. Undecided(u) = SumFunctionOnSet(f, RequestIds)
        /\ Undecided(u)' = SumFunctionOnSet(g, RequestIds)
    BY <1>3 DEF Undecided, AmountOf
  <2>6. IsFiniteSet(RequestIds)
    BY WithdrawalConstants
  <2> HIDE DEF f, g, v, a
  <2>7. \A s \in RequestIds : g[s] \in Int
    BY <2>1, <2>2, <2>4
  <2>8. SumFunctionOnSet(g, RequestIds) = SumFunctionOnSet(f, RequestIds) + g[r] - f[r]
    BY <1>1, <2>1, <2>4, <2>6, <2>7, SumChange
  <2>9. SumFunctionOnSet(f, RequestIds) \in Int /\ f[r] \in Int
    BY <1>1, <2>4, <2>6, SumType
  <2> QED
    BY <2>2, <2>5, <2>8, <2>9
<1>8. \A u : Unlisted(u)' = Unlisted(u) /\ ToppedUp(u)' = ToppedUp(u)
  BY <1>3, TopupsKept DEF Unlisted
<1>9. \A u \in Users :
        /\ wallets[u].available \in Int /\ wallets[u].pending \in Int /\ holds[u] \in Int
        /\ ToppedUp(u) \in Int /\ PaidTo(u) \in Int /\ Returns(u) \in Int
        /\ Undecided(u) \in Int /\ Unlisted(u) \in Int
  BY <1>1, OwnerFacts, SumsTyped DEF WalletRow, CashTypeOK
<1>10. Accounted'
  <2> SUFFICES ASSUME NEW u \in Users
               PROVE  wallets'[u].available + wallets'[u].pending
                        = ToppedUp(u) - PaidTo(u)' - WithdrawFee * (holds[u] - Returns(u)')
    BY <1>3, <1>8 DEF Accounted
  <2>1. wallets[u].available + wallets[u].pending
          = ToppedUp(u) - PaidTo(u) - WithdrawFee * (holds[u] - Returns(u))
    BY DEF MoneyInv, Accounted
  <2>2. CASE /\ Transfer(PayoutLegs(v, a)) /\ returned' = returned
             /\ paidOut' = [paidOut EXCEPT ![r] = @ + 1]
    <3>1. Returns(u)' = Returns(u)
      BY <1>3, <2>2 DEF Returns
    <3>2. PaidTo(u)' = PaidTo(u) + IF u = v THEN a ELSE 0
      <4> DEFINE f == [s \in RequestIds |->
                         IF request[s].user = u THEN paidOut[s] * AmountOf(s) ELSE 0]
                 g == [s \in RequestIds |->
                         IF request[s].user = u THEN paidOut'[s] * AmountOf(s) ELSE 0]
      <4>1. \A m, n \in Nat : m * n \in Nat /\ (m + 1) * n \in Nat
                                /\ (m + 1) * n = m * n + n
        OBVIOUS
      <4>2. paidOut[r] \in Nat /\ paidOut'[r] = paidOut[r] + 1
            /\ \A s \in RequestIds : s # r => paidOut'[s] = paidOut[s]
        BY <1>1, <2>2 DEF CashTypeOK
      <4>3. paidOut'[r] * a = paidOut[r] * a + a /\ paidOut[r] * a \in Nat
        BY <1>2, <4>1, <4>2
      <4>4. \A s \in RequestIds : s # r => g[s] = f[s]
        BY <4>2
      <4>5. /\ f[r] = IF u = v THEN paidOut[r] * a ELSE 0
            /\ g[r] = IF u = v THEN paidOut[r] * a + a ELSE 0
        BY <1>1, <1>2, <4>3
      <4>6. \A s \in RequestIds : f[s] \in Int
        <5> TAKE s \in RequestIds
        <5>1. paidOut[s] * AmountOf(s) \in Int
          BY <1>1, RowValues
        <5> QED
          BY <5>1
      <4>7. PaidTo(u) = SumFunctionOnSet(f, RequestIds)
            /\ PaidTo(u)' = SumFunctionOnSet(g, RequestIds)
        BY <1>3 DEF PaidTo, AmountOf
      <4>8. IsFiniteSet(RequestIds)
        BY WithdrawalConstants
      <4>9. f[r] \in Int /\ g[r] \in Int /\ g[r] - f[r] = IF u = v THEN a ELSE 0
        <5> DEFINE m == paidOut[r] * a
        <5>1. m \in Nat
          BY <4>3
        <5>2. f[r] = (IF u = v THEN m ELSE 0) /\ g[r] = (IF u = v THEN m + a ELSE 0)
          BY <4>5
        <5> HIDE DEF f, g, v, a, m
        <5>3. CASE u = v
          BY <1>2, <5>1, <5>2, <5>3
        <5>4. CASE u # v
          BY <5>1, <5>2, <5>4
        <5> QED
          BY <5>3, <5>4
      <4> HIDE DEF f, g, v, a
      <4>10. \A s \in RequestIds : g[s] \in Int
        BY <4>4, <4>6, <4>9
      <4>11. SumFunctionOnSet(g, RequestIds) = SumFunctionOnSet(f, RequestIds) + g[r] - f[r]
        BY <1>1, <4>4, <4>6, <4>8, <4>10, SumChange
      <4>12. SumFunctionOnSet(f, RequestIds) \in Int
        BY <4>6, <4>8, SumType
      <4> QED
        BY <4>7, <4>9, <4>11, <4>12
    <3>3. wallets'[u].available = wallets[u].available
      BY <1>1, <1>2, <2>2, PayoutMoves
    <3> HIDE DEF v, a
    <3>4. WithdrawFee * (holds[u] - Returns(u)) \in Int
      BY <1>9 DEF WithdrawFee
    <3>5. CASE u = v
      <4>1. \A x, y, t, o, h, b \in Int : x + y = t - o - h => x + (y - b) = t - (o + b) - h
        OBVIOUS
      <4>2. PaidTo(u)' = PaidTo(u) + a /\ wallets'[u].pending = wallets[u].pending - a
        BY <1>5, <3>2, <3>5
      <4> QED
        BY <1>2, <1>9, <2>1, <3>1, <3>3, <3>4, <4>1, <4>2
    <3>6. CASE u # v
      <4>1. PaidTo(u)' = PaidTo(u) /\ wallets'[u].pending = wallets[u].pending
        BY <1>5, <1>9, <3>2, <3>6
      <4> QED
        BY <2>1, <3>1, <3>3, <4>1
    <3> QED
      BY <3>5, <3>6
  <2>3. CASE /\ Transfer(ReturnLegs(v, a)) /\ paidOut' = paidOut
             /\ returned' = [returned EXCEPT ![r] = @ + 1]
    <3>1. PaidTo(u)' = PaidTo(u)
      BY <1>3, <2>3 DEF PaidTo, AmountOf
    <3>2. Returns(u)' = Returns(u) + IF u = v THEN 1 ELSE 0
      <4> DEFINE f == [s \in RequestIds |-> IF request[s].user = u THEN returned[s] ELSE 0]
                 g == [s \in RequestIds |-> IF request[s].user = u THEN returned'[s] ELSE 0]
      <4>1. returned \in [RequestIds -> Nat] /\ r \in RequestIds
        BY <1>1 DEF CashTypeOK
      <4>2. returned[r] \in Nat /\ returned'[r] = returned[r] + 1
            /\ \A s \in RequestIds : s # r => returned'[s] = returned[s]
        BY <2>3, <4>1
      <4>3. \A s \in RequestIds : s # r => g[s] = f[s]
        BY <4>2
      <4>4. /\ f[r] = IF u = v THEN returned[r] ELSE 0
            /\ g[r] = IF u = v THEN returned[r] + 1 ELSE 0
        BY <4>1, <4>2
      <4>5. \A s \in RequestIds : f[s] \in Int
        BY <4>1
      <4>6. Returns(u) = SumFunctionOnSet(f, RequestIds)
            /\ Returns(u)' = SumFunctionOnSet(g, RequestIds)
        BY <1>3 DEF Returns
      <4>7. IsFiniteSet(RequestIds)
        BY WithdrawalConstants
      <4> HIDE DEF f, g, v, a
      <4>8. g[r] \in Int /\ f[r] \in Int /\ g[r] - f[r] = IF u = v THEN 1 ELSE 0
        <5>1. CASE u = v
          BY <4>2, <4>4, <5>1
        <5>2. CASE u # v
          BY <4>4, <5>2
        <5> QED
          BY <5>1, <5>2
      <4>9. \A s \in RequestIds : g[s] \in Int
        BY <4>3, <4>5, <4>8
      <4>10. SumFunctionOnSet(g, RequestIds) = SumFunctionOnSet(f, RequestIds) + g[r] - f[r]
        BY <4>1, <4>3, <4>5, <4>7, <4>9, SumChange
      <4>11. SumFunctionOnSet(f, RequestIds) \in Int
        BY <4>5, <4>7, SumType
      <4> QED
        BY <4>6, <4>8, <4>10, <4>11
    <3>3. wallets'[u].available
            = wallets[u].available + IF u = v THEN a + WithdrawFee ELSE 0
      BY <1>1, <1>2, <2>3, ReturnMoves
    <3> HIDE DEF v, a
    <3>4. CASE u = v
      <4>1. \A x, y, t, o, h, m, b \in Int :
              x + y = t - o - 500 * (h - m)
                => (x + (b + 500)) + (y - b) = t - o - 500 * (h - (m + 1))
        OBVIOUS
      <4>2. /\ Returns(u)' = Returns(u) + 1 /\ wallets'[u].pending = wallets[u].pending - a
            /\ wallets'[u].available = wallets[u].available + (a + 500)
        BY <1>5, <3>2, <3>3, <3>4 DEF WithdrawFee
      <4>3. (wallets[u].available + (a + 500)) + (wallets[u].pending - a)
              = ToppedUp(u) - PaidTo(u) - 500 * (holds[u] - (Returns(u) + 1))
        <5>1. wallets[u].available + wallets[u].pending
                = ToppedUp(u) - PaidTo(u) - 500 * (holds[u] - Returns(u))
          BY <2>1 DEF WithdrawFee
        <5> QED
          BY <1>2, <1>9, <4>1, <5>1
      <4> QED
        BY <3>1, <4>2, <4>3 DEF WithdrawFee
    <3>5. CASE u # v
      <4>1. /\ Returns(u)' = Returns(u) /\ wallets'[u].pending = wallets[u].pending
            /\ wallets'[u].available = wallets[u].available
        BY <1>5, <1>9, <3>2, <3>3, <3>5
      <4> QED
        BY <2>1, <3>1, <4>1
    <3> QED
      BY <3>4, <3>5
  <2> QED
    BY <1>4, <2>2, <2>3
<1>11. Held'
  <2> SUFFICES ASSUME NEW u \in Users, \A s \in RequestsOf(u) : Decisions(s)' <= 1
               PROVE  /\ wallets'[u].pending >= Undecided(u)' + Unlisted(u)
                      /\ cashFaults = 0
                           => wallets'[u].pending = Undecided(u)' + Unlisted(u)
    BY <1>3, <1>8 DEF Held, RequestsOf
  <2>1. \A s \in RequestsOf(u) : Decisions(s) <= 1
    <3> SUFFICES ASSUME NEW s \in RequestsOf(u) PROVE Decisions(s) <= 1
      OBVIOUS
    <3>1. s \in RequestIds /\ Decisions(s)' <= 1
      BY DEF RequestsOf
    <3>2. CASE s = r
      BY <1>6, <3>1, <3>2
    <3>3. CASE s # r
      BY <1>6, <3>1, <3>3
    <3> QED
      BY <3>2, <3>3
  <2>2. /\ wallets[u].pending >= Undecided(u) + Unlisted(u)
        /\ cashFaults = 0 => wallets[u].pending = Undecided(u) + Unlisted(u)
    BY <2>1 DEF MoneyInv, Held
  <2>3. CASE u = v
    <3>1. r \in RequestsOf(u)
      BY <1>1, <2>3 DEF RequestsOf
    <3>2. Decisions(r) = 0
      BY <1>6, <3>1
    <3>3. Undecided(u)' = Undecided(u) - a /\ wallets'[u].pending = wallets[u].pending - a
      BY <1>5, <1>7, <2>3, <3>2
    <3> HIDE DEF v, a
    <3> QED
      BY <1>2, <1>9, <2>2, <3>3
  <2>4. CASE u # v
    <3>1. wallets'[u].pending = wallets[u].pending
      BY <1>5, <1>9, <2>4
    <3>2. Undecided(u)' = Undecided(u)
      <4> DEFINE f == [s \in RequestIds |->
                         IF request[s].user = u /\ Decisions(s) = 0 THEN AmountOf(s) ELSE 0]
                 g == [s \in RequestIds |->
                         IF request[s].user = u /\ Decisions(s)' = 0 THEN AmountOf(s) ELSE 0]
      <4>1. \A s \in RequestIds : request[s].user = u => Decisions(s)' = Decisions(s)
        BY <1>6, <2>4
      <4>2. f = g
        BY <4>1
      <4>3. Undecided(u) = SumFunctionOnSet(f, RequestIds)
            /\ Undecided(u)' = SumFunctionOnSet(g, RequestIds)
        BY <1>3 DEF Undecided, AmountOf
      <4> QED
        BY <4>2, <4>3
    <3> QED
      BY <2>2, <3>1, <3>2
  <2> QED
    BY <2>3, <2>4
<1>12. Unborn'
  <2>1. \A s \in RequestIds : s # r => paidOut'[s] = paidOut[s] /\ returned'[s] = returned[s]
    BY <1>1, <1>4 DEF CashTypeOK
  <2> QED
    BY <1>2, <1>3, <2>1 DEF MoneyInv, Unborn
<1> QED
  BY <1>5, <1>10, <1>11, <1>12 DEF MoneyInv

LEMMA MoneyStep == MoneyInv /\ [Next]_vars => MoneyInv'
<1> SUFFICES ASSUME MoneyInv, [Next]_vars PROVE MoneyInv'
  OBVIOUS
<1>1. CashflowInv' /\ CashTypeOK /\ CashTypeOK'
  BY CashflowStep DEF MoneyInv, CashflowInv, CashInv
<1>2. ASSUME UNCHANGED cashVars, UNCHANGED <<wallets, credited>> PROVE MoneyInv'
  BY <1>1, <1>2 DEF cashVars, MoneyInv, Unborn, Accounted, Held, ToppedUp, PaidTo, Returns,
                    Undecided, Unlisted, RequestsOf, Decisions, AmountOf
<1>3. ASSUME PayNext, UNCHANGED cashVars PROVE MoneyInv'
  <2>1. CASE \E d \in Receivers : CreditUser(d)
    BY <1>1, <1>3, <2>1, MoneyCredit
  <2>2. CASE ~\E d \in Receivers : CreditUser(d)
    BY <1>2, <1>3, <2>2 DEF PayNext, InitiateTopup, PspPaid, SimulateTopup, Webhook,
                            ReceiverGoesOn, MarkSuccess, MarkFailed, ReceiverFails
  <2> QED
    BY <2>1, <2>2
(* A handler that holds no money yet, or comes to hold none, adds nothing. *)
<1>4. ASSUME NEW q \in Requesters,
             RequestBegin(q, quser'[q], qamount'[q]) \/ RequestFunds(q) \/ RequestRefused(q)
      PROVE  \A u : Unlisted(u)' = Unlisted(u)
  <2> SUFFICES ASSUME NEW u PROVE Unlisted(u)' = Unlisted(u)
    OBVIOUS
  <2> DEFINE f == [p \in Requesters |->
                     IF qpc[p] = "held" /\ quser[p] = u THEN qamount[p] ELSE 0]
  <2>1. \A p \in Requesters :
          \/ qpc'[p] # "held" /\ qpc[p] # "held"
          \/ qpc'[p] = qpc[p] /\ quser'[p] = quser[p] /\ qamount'[p] = qamount[p]
    BY <1>1, <1>4 DEF CashTypeOK, RequestBegin, RequestFunds, RequestRefused, RequestEnds
  <2>2. f' = f
    BY <2>1
  <2> QED
    BY <2>2 DEF Unlisted
<1>5. ASSUME NEW q \in Requesters, RequestLost(q) PROVE \A u : Unlisted(u)' <= Unlisted(u)
  <2> SUFFICES ASSUME NEW u PROVE Unlisted(u)' <= Unlisted(u)
    OBVIOUS
  <2> DEFINE f == [p \in Requesters |->
                     IF qpc[p] = "held" /\ quser[p] = u THEN qamount[p] ELSE 0]
             g == [p \in Requesters |->
                     IF qpc'[p] = "held" /\ quser'[p] = u THEN qamount'[p] ELSE 0]
  <2>1. \A p \in Requesters :
          \/ qpc'[p] # "held"
          \/ qpc'[p] = qpc[p] /\ quser'[p] = quser[p] /\ qamount'[p] = qamount[p]
    BY <1>1, <1>5 DEF CashTypeOK, RequestLost, RequestEnds
  <2>2. \A p \in Requesters : qamount[p] \in Nat
    BY <1>1, AskedFacts
  <2>3. \A p \in Requesters : f[p] \in Int /\ g[p] \in Int /\ g[p] <= f[p]
    BY <2>1, <2>2
  <2>4. Unlisted(u) = SumFunctionOnSet(f, Requesters)
        /\ Unlisted(u)' = SumFunctionOnSet(g, Requesters)
    BY DEF Unlisted
  <2> HIDE DEF f, g
  <2> QED
    BY <2>3, <2>4, WithdrawalConstants, SumAtMost
<1>6. \A u \in Users : Unlisted(u) \in Int
  BY SumsTyped DEF MoneyInv, CashflowInv, PayInv, CashInv
<1>7. ASSUME NEW q \in Requesters, RequestStep(q), UNCHANGED payVars PROVE MoneyInv'
  <2>1. CASE \E u \in Users, a \in RequestAmounts : RequestBegin(q, u, a)
    <3>1. PICK u \in Users, a \in RequestAmounts : RequestBegin(q, u, a)
      BY <2>1
    <3>2. quser'[q] = u /\ qamount'[q] = a
      BY <1>1, <3>1 DEF RequestBegin, CashTypeOK
    <3>3. \A v : Unlisted(v)' = Unlisted(v)
      BY <1>4, <3>1, <3>2
    <3> QED
      BY <1>1, <1>6, <1>7, <3>1, <3>3, MoneyKept DEF RequestBegin, payVars
  <2>2. CASE RequestFunds(q)
    <3>1. \A v : Unlisted(v)' = Unlisted(v)
      BY <1>4, <2>2
    <3> QED
      BY <1>1, <1>6, <1>7, <2>2, <3>1, MoneyKept DEF RequestFunds, payVars
  <2>3. CASE RequestHold(q)
    BY <1>1, <1>7, <2>3, MoneyHold
  <2>4. CASE RequestCreate(q)
    BY <1>1, <1>7, <2>4, MoneyCreate
  <2>5. CASE RequestRefused(q)
    <3>1. \A v : Unlisted(v)' = Unlisted(v)
      BY <1>4, <2>5
    <3> QED
      BY <1>1, <1>6, <1>7, <2>5, <3>1, MoneyKept DEF RequestRefused, payVars
  <2>6. CASE RequestLost(q)
    <3>1. cashFaults' # 0
      BY <1>1, <2>6 DEF RequestLost, CashTypeOK
    <3> QED
      BY <1>1, <1>5, <1>7, <2>6, <3>1, MoneyKept DEF RequestLost, payVars
  <2> QED
    BY <1>7, <2>1, <2>2, <2>3, <2>4, <2>5, <2>6 DEF RequestStep
<1>8. ASSUME NEW d \in Deciders, DecideStep(d), UNCHANGED payVars PROVE MoneyInv'
  <2>1. CASE DecidePay(d)
    BY <1>1, <1>8, <2>1, MoneyDecide
  <2>2. ASSUME UNCHANGED <<wallets, holds, paidOut, returned, qpc, quser, qamount>>,
               \A r \in RequestIds : /\ request'[r].user = request[r].user
                                     /\ request'[r].amount = request[r].amount
                                     /\ request'[r] = NoRequest => request[r] = NoRequest,
               cashFaults' = 0 => cashFaults = 0
        PROVE  MoneyInv'
    <3>1. \A u : Unlisted(u)' = Unlisted(u)
      BY <2>2 DEF Unlisted
    <3> QED
      BY <1>1, <1>6, <1>8, <2>2, <3>1, MoneyKept DEF payVars
  <2>3. CASE \E r \in RequestIds : DecideBegin(d, r)
    BY <2>2, <2>3 DEF DecideBegin, requesterVars
  <2>4. CASE DecideMark(d)
    <3>1. drow[d] \in RequestIds /\ request[drow[d]] \in RequestRows
      BY <2>4 DEF DecideMark, MoneyInv, CashflowInv, CashInv, Decided
    <3>2. request' = [request EXCEPT ![drow[d]].status = Verdict(d)]
      BY <2>4 DEF DecideMark
    <3>3. Verdict(d) # "none"
      BY DEF Verdict
    <3>4. \A r \in RequestIds : /\ request'[r].user = request[r].user
                                /\ request'[r].amount = request[r].amount
                                /\ request'[r] = NoRequest => request[r] = NoRequest
      <4> TAKE r \in RequestIds
      <4>1. CASE r # drow[d]
        BY <3>2, <4>1
      <4>2. CASE r = drow[d]
        <5>1. request'[r] = [request[r] EXCEPT !.status = Verdict(d)]
          BY <1>1, <3>1, <3>2, <4>2 DEF CashTypeOK
        <5>2. request'[r].status = Verdict(d)
          BY <3>1, <4>2, <5>1 DEF RequestRows
        <5> QED
          BY <3>1, <3>3, <4>2, <5>1, <5>2, RequestFacts DEF RequestRows
      <4> QED
        BY <4>1, <4>2
    <3> QED
      BY <2>2, <2>4, <3>4 DEF DecideMark, requesterVars
  <2>5. CASE DecideRefused(d)
    BY <2>2, <2>5 DEF DecideRefused, requesterVars
  <2>6. CASE DecideLost(d)
    BY <1>1, <2>2, <2>6 DEF DecideLost, requesterVars, CashTypeOK
  <2> QED
    BY <1>8, <2>1, <2>3, <2>4, <2>5, <2>6 DEF DecideStep
<1>9. CASE UNCHANGED vars
  BY <1>2, <1>9 DEF vars, payVars
<1> QED
  BY <1>3, <1>7, <1>8, <1>9 DEF Next, CashNext

(* The strengthening of the two properties below, in every state.          *)
THEOREM MoneyInvariant == Spec => []MoneyInv
  BY MoneyInit, MoneyStep, PTL DEF Spec

(* No paisa of a user is lost or made: what a wallet holds is what its     *)
(* owner topped up, less payouts and the fees not given back.              *)
THEOREM MoneyIsAccounted == Spec => []UserMoneyAccounted
<1>1. MoneyInv => UserMoneyAccounted
  BY MoneyInvImplies
<1> QED
  BY <1>1, MoneyInvariant, PTL

(* Until a request of a user is decided twice, the pending bucket covers   *)
(* every request not decided; and is no more than that and the holds not   *)
(* listed yet, unless a handler was lost with one.                         *)
THEOREM HoldsAreAccounted == Spec => []HoldsAccounted
<1>1. MoneyInv => HoldsAccounted
  BY MoneyInvImplies
<1> QED
  BY <1>1, MoneyInvariant, PTL

(* Every row, handler and wallet has its type.                             *)
THEOREM TypeCorrect == Spec => []TypeOK
<1>1. MoneyInv => TypeOK
  BY DEF MoneyInv, CashflowInv, PayInv, CashInv, TypeOK
<1> QED
  BY <1>1, MoneyInvariant, PTL
=============================================================================
