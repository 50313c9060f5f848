------------------------ MODULE Bookings_seat_proofs ------------------------
(***************************************************************************)
(* Proofs about Bookings for every number of vendors, stalls, handlers and *)
(* workers, every price and every bound.  First what a transfer does to    *)
(* the wallets, and from it that every state is well typed and that no     *)
(* user or business is ever overdrawn.  Then the seats of a stall: why the *)
(* last slot is sold once and a vendor has one booking of a stall at a     *)
(* time.  A request that may still insert its booking holds the stall's    *)
(* row (Locks), and nobody can have changed what it checked while it holds *)
(* the row or waits for it (Checked).                                      *)
(***************************************************************************)
EXTENDS Bookings, TLAPS, FiniteSetTheorems

-----------------------------------------------------------------------------
(* Wallets.                                                                *)

(* One leg changes one bucket of one wallet by an integer.                 *)
LEMMA ApplyType ==
  ASSUME NEW ws \in [Owners -> WalletRow],
         NEW o \in Owners, NEW d, NEW a \in Int, NEW k
  PROVE  Apply(ws, Leg(o, d, a, k)) \in [Owners -> WalletRow]
<1>1. Signed(Leg(o, d, a, k)) \in Int
  BY DEF Signed, Leg
<1>2. ws[o].available \in Int /\ ws[o].pending \in Int /\ ws[o] \in WalletRow
  BY DEF WalletRow
<1>3. Leg(o, d, a, k).owner = o
  BY DEF Leg
<1> QED
  BY <1>1, <1>2, <1>3 DEF Apply, WalletRow

(* The money of a booking is integer paise, and its wallets exist.         *)
LEMMA MoneyType ==
  ASSUME NEW s \in Stalls
  PROVE  Price[s] \in Int /\ Fee(s) \in Int /\ Escrow(s) \in Int
           /\ Biz(s) \in Owners /\ House \in Owners
BY BookingConstants DEF Fee, Escrow, Biz, Owners

(* What a successful transfer leaves: rows of the right type, and no       *)
(* negative available bucket but the house's.                              *)
LEMMA BookTransfer ==
  ASSUME wallets \in [Owners -> WalletRow], NEW u \in Users, NEW s \in Stalls,
         Transfer(BookLegs(u, s))
  PROVE  wallets' \in [Owners -> WalletRow] /\ BalanceCheck(wallets')
<1> DEFINE l1 == Leg(u, "D", Price[s], "available")
           l2 == Leg(Biz(s), "C", Escrow(s), "pending")
           l3 == Leg(House, "C", Fee(s), "available")
<1>1. u \in Owners
  BY DEF Owners
<1>2. Apply(wallets, l1) \in [Owners -> WalletRow]
  BY <1>1, MoneyType, ApplyType
<1>3. Apply(Apply(wallets, l1), l2) \in [Owners -> WalletRow]
  BY <1>2, MoneyType, ApplyType
<1>4. Apply(Apply(Apply(wallets, l1), l2), l3) \in [Owners -> WalletRow]
  BY <1>3, MoneyType, ApplyType
<1>5. Posted(wallets, <<l1, l2, l3>>) = Apply(Apply(Apply(wallets, l1), l2), l3)
  BY DEF Posted, MaxLegs
<1>6. BookLegs(u, s) = <<l1, l2, l3>>
  BY DEF BookLegs
<1> QED
  BY <1>4, <1>5, <1>6 DEF Transfer

LEMMA RefundTransfer ==
  ASSUME wallets \in [Owners -> WalletRow], NEW u \in Users, NEW s \in Stalls,
         Transfer(RefundLegs(u, s))
  PROVE  wallets' \in [Owners -> WalletRow] /\ BalanceCheck(wallets')
<1> DEFINE l1 == Leg(Biz(s), "D", Escrow(s), "pending")
           l2 == Leg(House, "D", Fee(s), "available")
           l3 == Leg(u, "C", Price[s], "available")
<1>1. u \in Owners
  BY DEF Owners
<1>2. Apply(wallets, l1) \in [Owners -> WalletRow]
  BY MoneyType, ApplyType
<1>3. Apply(Apply(wallets, l1), l2) \in [Owners -> WalletRow]
  BY <1>2, MoneyType, ApplyType
<1>4. Apply(Apply(Apply(wallets, l1), l2), l3) \in [Owners -> WalletRow]
  BY <1>1, <1>3, MoneyType, ApplyType
<1>5. Posted(wallets, <<l1, l2, l3>>) = Apply(Apply(Apply(wallets, l1), l2), l3)
  BY DEF Posted, MaxLegs
<1>6. RefundLegs(u, s) = <<l1, l2, l3>>
  BY DEF RefundLegs
<1> QED
  BY <1>4, <1>5, <1>6 DEF Transfer

LEMMA ReleaseTransfer ==
  ASSUME wallets \in [Owners -> WalletRow], NEW s \in Stalls,
         Transfer(ReleaseLegs(s))
  PROVE  wallets' \in [Owners -> WalletRow] /\ BalanceCheck(wallets')
<1> DEFINE l1 == Leg(Biz(s), "D", Escrow(s), "pending")
           l2 == Leg(Biz(s), "C", Escrow(s), "available")
<1>1. Apply(wallets, l1) \in [Owners -> WalletRow]
  BY MoneyType, ApplyType
<1>2. Apply(Apply(wallets, l1), l2) \in [Owners -> WalletRow]
  BY <1>1, MoneyType, ApplyType
<1>3. Posted(wallets, <<l1, l2>>) = Apply(Apply(wallets, l1), l2)
  BY DEF Posted, MaxLegs
<1>4. ReleaseLegs(s) = <<l1, l2>>
  BY DEF ReleaseLegs
<1> QED
  BY <1>2, <1>3, <1>4 DEF Transfer

-----------------------------------------------------------------------------
(* Typing.  A handler's and a worker's arguments name rows that exist from *)
(* the step that sets them on: rows are never deleted, and a settled       *)
(* booking has a row.                                                      *)
Args ==
  /\ \A h \in Handlers :
       /\ pc[h] \in {"queued", "locked", "funded", "paid"}
            => who[h] \in Users /\ at[h] \in Stalls
       /\ pc[h] \in {"cancelling", "refunded"}
            => target[h] \in BookingIds /\ row[target[h]] \in Rows
  /\ \A w \in Workers :
       /\ \A b \in batch[w] : row[b] \in Rows
       /\ paying[w] # None => row[paying[w]] \in Rows
  /\ \A b \in BookingIds : Settled(b) > 0 => row[b] \in Rows

(* The CHECK constraint of every transfer, which all wallets begin with.   *)
Solvent == \A o \in Owners \ {House} : wallets[o].available >= 0

Typed == TypeOK /\ Args /\ Solvent

(* NoRow is told apart from the rows by its state.                         *)
LEMMA RowFacts ==
  /\ NoRow \notin Rows
  /\ NoRow.state = "none" /\ NoRow.stall = None /\ NoRow.user = None
  /\ \A r \in Rows : /\ r.state \in {"confirmed", "cancelled", "released"}
                      /\ r.user \in Users /\ r.stall \in Stalls
BY DEF NoRow, Rows

LEMMA TypedInit == Init => Typed
<1> SUFFICES ASSUME Init PROVE Typed
  OBVIOUS
<1> USE BookingConstants DEF Init
<1>1. wallets \in [Owners -> WalletRow]
  BY DEF WalletRow
<1>2. TypeOK
  BY <1>1 DEF TypeOK, Times, Steps
<1>3. Args
  BY DEF Args, Settled
<1>4. Solvent
  BY OwnersDistinct DEF Solvent, Owners
<1> QED
  BY <1>2, <1>3, <1>4 DEF Typed
(* What both ends of a request do to the handlers' variables.              *)
LEMMA FinishType ==
  ASSUME TypeOK, NEW h \in Handlers, pc' = [pc EXCEPT ![h] = "idle"], Finish(h)
  PROVE  /\ pc' \in [Handlers -> Steps] /\ open' \in [Handlers -> BOOLEAN]
         /\ who' \in [Handlers -> Users \cup {None}]
         /\ at' \in [Handlers -> Stalls \cup {None}]
         /\ target' \in [Handlers -> BookingIds \cup {None}]
         /\ pc'[h] = "idle"
         /\ \A g \in Handlers \ {h} :
              /\ pc'[g] = pc[g] /\ open'[g] = open[g] /\ who'[g] = who[g]
              /\ at'[g] = at[g] /\ target'[g] = target[g]
BY DEF TypeOK, Finish, Steps

LEMMA CommitType ==
  ASSUME TypeOK, NEW h \in Handlers, NEW s \in Stalls, CommitOn(h, s)
  PROVE  /\ pc' \in [Handlers -> Steps] /\ open' \in [Handlers -> BOOLEAN]
         /\ who' \in [Handlers -> Users \cup {None}]
         /\ at' \in [Handlers -> Stalls \cup {None}]
         /\ target' \in [Handlers -> BookingIds \cup {None}]
         /\ pc'[h] = "idle"
         /\ \A g \in Blocked(s) : pc'[g] = "idle"
         /\ \A g \in Handlers \ ({h} \cup Blocked(s)) :
              /\ pc'[g] = pc[g] /\ open'[g] = open[g] /\ who'[g] = who[g]
              /\ at'[g] = at[g] /\ target'[g] = target[g]
BY DEF TypeOK, CommitOn, Steps, Blocked

LEMMA UnlockedType ==
  ASSUME TypeOK, NEW h \in Handlers
  PROVE  /\ Unlocked(h) \in [Stalls -> Handlers \cup {None}]
         /\ \A s \in Stalls : holder[s] # h => Unlocked(h)[s] = holder[s]
BY DEF TypeOK, Unlocked

LEMMA TypedStep == Typed /\ [Next]_vars => Typed'
<1> SUFFICES ASSUME Typed, [Next]_vars PROVE Typed'
  OBVIOUS
<1> USE BookingConstants, RowFacts DEF Typed
<1>1. ASSUME NEW e \in Events, Submit(e) PROVE Typed'
  BY <1>1 DEF Submit, TypeOK, Args, Solvent, Settled, ledgerVars, tableVars,
              handlerVars, workerVars
<1>2. ASSUME NEW e \in Events, Update(e) PROVE Typed'
  BY <1>2 DEF Update, TypeOK, Args, Solvent, Settled, ledgerVars, tableVars,
              handlerVars, workerVars
<1>3. CASE Tick
  BY <1>3 DEF Tick, TypeOK, Times, Args, Solvent, Settled, ledgerVars, tableVars,
              handlerVars, workerVars
<1>4. ASSUME NEW h \in Handlers, Reject(h) PROVE Typed'
  BY <1>4, FinishType, UnlockedType
     DEF Reject, TypeOK, Args, Solvent, Settled, eventVars, ledgerVars, workerVars
<1>5. ASSUME NEW h \in Handlers, Expire(h) PROVE Typed'
  BY <1>5, UnlockedType
     DEF Expire, TypeOK, Args, Solvent, Settled, eventVars, ledgerVars, workerVars
<1>6. ASSUME NEW h \in Handlers, RollBack(h) PROVE Typed'
  <2>1. faults' \in Nat
    BY <1>6 DEF RollBack, TypeOK
  <2> QED
    BY <2>1, <1>6, FinishType, UnlockedType
       DEF RollBack, TypeOK, Args, Solvent, Settled, eventVars, ledgerVars, workerVars
<1>7. ASSUME NEW h \in Handlers, NEW u \in Users, NEW s \in Stalls, BookBegin(h, u, s)
      PROVE  Typed'
  <2>1. TypeOK'
    <3>1. pc' \in [Handlers -> Steps] /\ holder' \in [Stalls -> Handlers \cup {None}]
      <4>1. CASE holder[s] = None
        <5>1. pc' = [pc EXCEPT ![h] = "locked"] /\ holder' = [holder EXCEPT ![s] = h]
          BY <1>7, <4>1 DEF BookBegin
        <5> QED
          BY <5>1 DEF TypeOK, Steps
      <4>2. CASE holder[s] # None
        <5>1. pc' = [pc EXCEPT ![h] = "queued"] /\ holder' = holder
          BY <1>7, <4>2 DEF BookBegin
        <5> QED
          BY <5>1 DEF TypeOK, Steps
      <4> QED
        BY <4>1, <4>2
    <3> QED
      BY <1>7, <3>1 DEF BookBegin, TypeOK, eventVars, ledgerVars, workerVars
  <2>2. Args'
    BY <1>7 DEF BookBegin, TypeOK, Args, Settled, ledgerVars, workerVars
  <2> QED
    BY <1>7, <2>1, <2>2 DEF BookBegin, Solvent, ledgerVars
<1>8. ASSUME NEW h \in Handlers, BookGrant(h) PROVE Typed'
  BY <1>8 DEF BookGrant, TypeOK, Steps, Args, Solvent, Settled, eventVars,
              ledgerVars, workerVars
<1>9. ASSUME NEW h \in Handlers, BookFunds(h) PROVE Typed'
  BY <1>9 DEF BookFunds, TypeOK, Steps, Args, Solvent, Settled, eventVars,
              ledgerVars, tableVars, workerVars
<1>10. ASSUME NEW h \in Handlers, BookPay(h) PROVE Typed'
  <2>1. who[h] \in Users /\ at[h] \in Stalls
    BY <1>10 DEF BookPay, Args
  <2>2. wallets' \in [Owners -> WalletRow] /\ BalanceCheck(wallets')
    BY <1>10, <2>1, BookTransfer DEF BookPay, TypeOK
  <2>3. Solvent'
    BY <2>2 DEF Solvent, BalanceCheck, Owners
  <2>4. charged' \in [Users -> [Stalls -> Nat]]
    BY <1>10, <2>1 DEF BookPay, TypeOK
  <2>5. TypeOK'
    BY <1>10, <2>2, <2>4
       DEF BookPay, TypeOK, Steps, eventVars, tableVars, workerVars
  <2>6. Args'
    BY <1>10, <2>1 DEF BookPay, TypeOK, Args, Settled, tableVars, workerVars
  <2> QED
    BY <2>3, <2>5, <2>6
<1>11. ASSUME NEW h \in Handlers, BookCommit(h) PROVE Typed'
  <2>1. who[h] \in Users /\ at[h] \in Stalls
    BY <1>11 DEF BookCommit, Args
  <2>2. PICK b \in BookingIds :
          /\ row[b] = NoRow
          /\ row' = [row EXCEPT ![b] = [state |-> "confirmed", user |-> who[h],
                                        stall |-> at[h]]]
    BY <1>11 DEF BookCommit
  <2>3. /\ row' \in [BookingIds -> Rows \cup {NoRow}]
        /\ \A c \in BookingIds : row[c] \in Rows => row'[c] \in Rows
    BY <2>1, <2>2 DEF TypeOK, Rows
  <2>4. TypeOK'
    BY <1>11, <2>1, <2>3, CommitType, UnlockedType
       DEF BookCommit, TypeOK, eventVars, ledgerVars, workerVars
  <2>5. Args'
    <3>1. /\ \A c \in BookingIds : Settled(c)' = Settled(c)
          /\ batch' = batch /\ paying' = paying
      BY <1>11 DEF BookCommit, Settled, ledgerVars, workerVars
    <3>2. \A g \in Handlers :
            \/ pc'[g] = "idle"
            \/ pc'[g] = pc[g] /\ who'[g] = who[g] /\ at'[g] = at[g] /\ target'[g] = target[g]
      BY <1>11, <2>1, CommitType DEF BookCommit
    <3> QED
      BY <2>3, <3>1, <3>2 DEF TypeOK, Args
  <2> QED
    BY <1>11, <2>4, <2>5 DEF BookCommit, Solvent, ledgerVars
<1>12. ASSUME NEW h \in Handlers, NEW b \in BookingIds, CancelBegin(h, b) PROVE Typed'
  <2>1. row[b] \in Rows
    BY <1>12 DEF CancelBegin, TypeOK
  <2> QED
    BY <1>12, <2>1 DEF CancelBegin, TypeOK, Steps, Args, Solvent, Settled,
                       eventVars, ledgerVars, tableVars, workerVars
<1>13. ASSUME NEW h \in Handlers, CancelRefund(h) PROVE Typed'
  <2>1. target[h] \in BookingIds /\ row[target[h]] \in Rows
    BY <1>13 DEF CancelRefund, Args
  <2>2. wallets' \in [Owners -> WalletRow] /\ BalanceCheck(wallets')
    BY <1>13, <2>1, RefundTransfer DEF CancelRefund, TypeOK
  <2>3. Solvent'
    BY <2>2 DEF Solvent, BalanceCheck, Owners
  <2>4. TypeOK'
    BY <1>13, <2>1, <2>2
       DEF CancelRefund, TypeOK, Steps, eventVars, tableVars, workerVars
  <2>5. Args'
    BY <1>13, <2>1 DEF CancelRefund, TypeOK, Args, Settled, tableVars, workerVars
  <2> QED
    BY <2>3, <2>4, <2>5
<1>14. ASSUME NEW h \in Handlers, CancelCommit(h) PROVE Typed'
  <2>1. target[h] \in BookingIds /\ row[target[h]] \in Rows
    BY <1>14 DEF CancelCommit, Args
  <2>2. /\ row' \in [BookingIds -> Rows \cup {NoRow}]
        /\ \A c \in BookingIds : row[c] \in Rows => row'[c] \in Rows
    BY <1>14, <2>1 DEF CancelCommit, TypeOK, Rows
  <2>3. TypeOK'
    BY <1>14, <2>1, <2>2, CommitType
       DEF CancelCommit, TypeOK, eventVars, ledgerVars, workerVars
  <2>4. Args'
    <3>1. /\ \A c \in BookingIds : Settled(c)' = Settled(c)
          /\ batch' = batch /\ paying' = paying
      BY <1>14 DEF CancelCommit, Settled, ledgerVars, workerVars
    <3>2. \A g \in Handlers :
            \/ pc'[g] = "idle"
            \/ pc'[g] = pc[g] /\ who'[g] = who[g] /\ at'[g] = at[g] /\ target'[g] = target[g]
      BY <1>14, <2>1, CommitType DEF CancelCommit, Rows
    <3> QED
      BY <2>2, <3>1, <3>2 DEF TypeOK, Args
  <2> QED
    BY <1>14, <2>3, <2>4 DEF CancelCommit, Solvent, ledgerVars
<1>15. ASSUME NEW w \in Workers, ReleaseScan(w) PROVE Typed'
  <2>1. \A b \in BookingIds : Due(b) => row[b] \in Rows
    BY DEF Due, TypeOK
  <2> QED
    BY <1>15, <2>1 DEF ReleaseScan, TypeOK, Args, Solvent, Settled, eventVars,
                       ledgerVars, tableVars, handlerVars
<1>16. ASSUME NEW w \in Workers, ReleasePay(w) PROVE Typed'
  <2>1. PICK b \in batch[w] :
          /\ Transfer(ReleaseLegs(row[b].stall))
          /\ releases' = [releases EXCEPT ![b] = @ + 1]
          /\ paying' = [paying EXCEPT ![w] = b]
          /\ batch' = [batch EXCEPT ![w] = @ \ {b}]
    BY <1>16 DEF ReleasePay
  <2>2. b \in BookingIds /\ row[b] \in Rows
    BY DEF TypeOK, Args
  <2>3. wallets' \in [Owners -> WalletRow] /\ BalanceCheck(wallets')
    BY <2>1, <2>2, ReleaseTransfer DEF TypeOK
  <2>4. Solvent'
    BY <2>3 DEF Solvent, BalanceCheck, Owners
  <2>5. TypeOK'
    BY <1>16, <2>1, <2>2, <2>3
       DEF ReleasePay, TypeOK, eventVars, tableVars, handlerVars
  <2>6. Args'
    BY <1>16, <2>1, <2>2
       DEF ReleasePay, TypeOK, Args, Settled, tableVars, handlerVars
  <2> QED
    BY <2>4, <2>5, <2>6
<1>17. ASSUME NEW w \in Workers, ReleaseMark(w) PROVE Typed'
  <2>1. paying[w] \in BookingIds /\ row[paying[w]] \in Rows
    BY <1>17 DEF ReleaseMark, TypeOK, Args
  <2>2. /\ row' \in [BookingIds -> Rows \cup {NoRow}]
        /\ \A c \in BookingIds : row[c] \in Rows => row'[c] \in Rows
    BY <1>17, <2>1 DEF ReleaseMark, TypeOK, Rows
  <2> QED
    BY <1>17, <2>1, <2>2 DEF ReleaseMark, TypeOK, Args, Solvent, Settled, eventVars,
                             ledgerVars, handlerVars
<1>18. ASSUME NEW w \in Workers, WorkerFails(w) PROVE Typed'
  <2>1. /\ batch' \in [Workers -> SUBSET BookingIds]
        /\ \A x \in Workers : batch'[x] \subseteq batch[x]
    <3>1. CASE \E b \in batch[w] : batch' = [batch EXCEPT ![w] = @ \ {b}]
      <4>1. PICK b \in batch[w] : batch' = [batch EXCEPT ![w] = @ \ {b}]
        BY <3>1
      <4>2. batch[w] \ {b} \in SUBSET BookingIds
        BY DEF TypeOK
      <4> QED
        BY <4>1, <4>2 DEF TypeOK
    <3>2. CASE batch' = batch
      BY <3>2 DEF TypeOK
    <3>3. CASE batch' = [batch EXCEPT ![w] = {}]
      BY <3>3 DEF TypeOK
    <3> QED
      BY <1>18, <3>1, <3>2, <3>3 DEF WorkerFails
  <2>2. TypeOK'
    <3>1. faults' \in Nat /\ paying' \in [Workers -> BookingIds \cup {None}]
      BY <1>18 DEF WorkerFails, TypeOK
    <3>2. UNCHANGED <<eventVars, ledgerVars, tableVars, handlerVars>>
      BY <1>18 DEF WorkerFails
    <3> QED
      BY <2>1, <3>1, <3>2 DEF TypeOK, eventVars, ledgerVars, tableVars, handlerVars
  <2>3. /\ pc' = pc /\ who' = who /\ at' = at /\ target' = target /\ row' = row
        /\ wallets' = wallets
        /\ \A b \in BookingIds : Settled(b)' = Settled(b)
    BY <1>18 DEF WorkerFails, Settled, ledgerVars, tableVars, handlerVars
  <2>4. paying' = [paying EXCEPT ![w] = None]
    BY <1>18 DEF WorkerFails
  <2>5. Args'
    <3>1. \A x \in Workers : paying'[x] # None => paying'[x] = paying[x]
      BY <2>4 DEF TypeOK
    <3>2. \A x \in Workers : \A b \in batch'[x] : row'[b] \in Rows
      BY <2>1, <2>3 DEF Args
    <3>3. \A x \in Workers : paying'[x] # None => row'[paying'[x]] \in Rows
      BY <3>1, <2>3 DEF Args
    <3>4. \A b \in BookingIds : Settled(b)' > 0 => row'[b] \in Rows
      BY <2>3 DEF Args
    <3> QED
      BY <2>3, <3>2, <3>3, <3>4 DEF Args
  <2> QED
    BY <2>2, <2>3, <2>5 DEF Solvent
<1>19. CASE UNCHANGED vars
  BY <1>19 DEF vars, TypeOK, Args, Solvent, Settled, eventVars, ledgerVars,
               tableVars, handlerVars, workerVars
<1> QED
  BY <1>1, <1>2, <1>3, <1>4, <1>5, <1>6, <1>7, <1>8, <1>9, <1>10, <1>11, <1>12, <1>13,
     <1>14, <1>15, <1>16, <1>17, <1>18, <1>19
     DEF Next, OrganiserStep, HandlerStep, BookStep, CancelStep, WorkerStep

(* Every reachable state is well typed, and no user or business wallet has *)
(* a negative available balance.                                           *)
LEMMA TypedAlways == Spec => []Typed
BY TypedInit, TypedStep, PTL DEF Spec

(* The tables, the ledger's counts and the processes keep their types.     *)
THEOREM TypeCorrect == Spec => []TypeOK
BY TypedAlways, PTL DEF Typed

-----------------------------------------------------------------------------
(* Seats.                                                                  *)

Holding(h) == pc[h] \in {"locked", "funded", "paid"} /\ open[h]
Waiting(h) == pc[h] = "queued"

(* A handler past FOR UPDATE, its transaction alive, holds the row.        *)
Locks == \A h \in Handlers : Holding(h) => holder[at[h]] = h

(* What it checked is still so, and so it is for the ones that wait.       *)
CheckHolds(u, s) ==
  /\ booked[s] < Available[s]
  /\ \A b \in BookingIds :
       row[b].stall = s /\ row[b].state = "confirmed" => row[b].user # u
Checked == \A h \in Handlers : Holding(h) \/ Waiting(h) => CheckHolds(who[h], at[h])

WithinAvailable == \A s \in Stalls : booked[s] <= Available[s]

Seats == Locks /\ Checked /\ WithinAvailable /\ OneConfirmedPerVendor

LEMMA SeatsInit == Init => Seats
<1> SUFFICES ASSUME Init PROVE Seats
  OBVIOUS
<1>1. Locks /\ Checked
  BY DEF Init, Locks, Checked, Holding, Waiting
<1>2. WithinAvailable
  BY BookingConstants DEF Init, WithinAvailable
<1>3. OneConfirmedPerVendor
  BY RowFacts DEF Init, OneConfirmedPerVendor, Confirmed, RowsAt
<1> QED
  BY <1>1, <1>2, <1>3 DEF Seats

(* Rows that lose their confirmed state, and a counter that falls, keep    *)
(* every invariant that looks at the tables alone.                         *)
LEMMA OneConfirmedKept ==
  ASSUME OneConfirmedPerVendor,
         \A b \in BookingIds :
           row'[b].state = "confirmed" => row[b].state = "confirmed" /\ row'[b] = row[b]
  PROVE  OneConfirmedPerVendor'
BY DEF OneConfirmedPerVendor, Confirmed, RowsAt

(* Steps that leave the stall, the rows and the handlers alone.            *)
LEMMA SeatsQuiet ==
  Seats /\ UNCHANGED <<booked, holder, row, pc, open, who, at>> => Seats'
BY DEF Seats, Locks, Checked, WithinAvailable, OneConfirmedPerVendor, Holding, Waiting,
       CheckHolds, Confirmed, RowsAt

(* A handler gives up, or its transaction expires: its lock goes, and the  *)
(* others keep theirs.                                                     *)
LEMMA SeatsGivenUp ==
  ASSUME Typed, Seats, NEW h \in Handlers,
         holder' = Unlocked(h), ~Holding(h)', ~Waiting(h)',
         \A g \in Handlers \ {h} : pc'[g] = pc[g] /\ open'[g] = open[g]
                                     /\ who'[g] = who[g] /\ at'[g] = at[g],
         UNCHANGED <<booked, row>>
  PROVE  Seats'
<1>1. Locks'
  <2> SUFFICES ASSUME NEW g \in Handlers, Holding(g)' PROVE holder'[at'[g]] = g
    BY DEF Locks
  <2>1. g # h /\ Holding(g) /\ at'[g] = at[g] /\ at[g] \in Stalls
    BY DEF Holding, Typed, Args
  <2>2. holder[at[g]] = g
    BY <2>1 DEF Seats, Locks
  <2> QED
    BY <2>1, <2>2, UnlockedType DEF Typed
<1>2. Checked'
  BY DEF Seats, Checked, Holding, Waiting, CheckHolds
<1>3. WithinAvailable' /\ OneConfirmedPerVendor'
  BY OneConfirmedKept DEF Seats, WithinAvailable
<1> QED
  BY <1>1, <1>2, <1>3 DEF Seats

(* A handler takes its next step with the tables and its arguments as they *)
(* were.                                                                   *)
LEMMA SeatsGoOn ==
  ASSUME Typed, Seats, NEW h \in Handlers, NEW step \in Steps,
         pc' = [pc EXCEPT ![h] = step],
         Holding(h)' => Holding(h), ~Waiting(h)',
         UNCHANGED <<booked, holder, row, who, at>>,
         \A g \in Handlers \ {h} : open'[g] = open[g]
  PROVE  Seats'
<1>1. \A g \in Handlers : /\ Holding(g)' => Holding(g)
                          /\ Waiting(g)' => Waiting(g)
  BY DEF Holding, Waiting, Typed, TypeOK
<1>2. Locks' /\ Checked'
  BY <1>1 DEF Seats, Locks, Checked, CheckHolds
<1>3. WithinAvailable' /\ OneConfirmedPerVendor'
  BY OneConfirmedKept DEF Seats, WithinAvailable
<1> QED
  BY <1>2, <1>3 DEF Seats

(* The row lock is granted, at once or after a wait.                       *)
LEMMA SeatsBegin ==
  ASSUME Typed, Seats, NEW h \in Handlers, NEW u \in Users, NEW s \in Stalls,
         BookBegin(h, u, s)
  PROVE  Seats'
<1>1. CheckHolds(u, s)
  BY BookingConstants DEF BookBegin, BookChecks, CheckHolds, Confirmed, RowsAt, Typed, TypeOK
<1>2. who'[h] = u /\ at'[h] = s /\ UNCHANGED <<booked, row>>
  BY DEF BookBegin, Typed, TypeOK
<1>3. \A g \in Handlers \ {h} :
        pc'[g] = pc[g] /\ open'[g] = open[g] /\ who'[g] = who[g] /\ at'[g] = at[g]
  <2>1. CASE holder[s] = None
    BY <2>1 DEF BookBegin, Typed, TypeOK
  <2>2. CASE holder[s] # None
    BY <2>2 DEF BookBegin, Typed, TypeOK
  <2> QED
    BY <2>1, <2>2
<1>4. Checked'
  BY <1>1, <1>2, <1>3 DEF Seats, Checked, Holding, Waiting, CheckHolds
<1>5. Locks'
  <2>1. CASE holder[s] = None
    <3>1. holder' = [holder EXCEPT ![s] = h]
      BY <2>1 DEF BookBegin
    <3>2. \A g \in Handlers \ {h} : Holding(g) => holder[at[g]] = g /\ at[g] \in Stalls
      BY DEF Seats, Locks, Typed, Args, Holding
    <3>3. \A g \in Handlers \ {h} : Holding(g)' => holder'[at'[g]] = g
      BY <1>3, <2>1, <3>1, <3>2, BookingConstants DEF Holding, Typed, TypeOK
    <3>4. holder'[at'[h]] = h
      BY <1>2, <3>1 DEF Typed, TypeOK
    <3> QED
      BY <3>3, <3>4 DEF Locks
  <2>2. CASE holder[s] # None
    <3>1. holder' = holder /\ pc' = [pc EXCEPT ![h] = "queued"]
      BY <2>2 DEF BookBegin
    <3>2. ~Holding(h)'
      BY <3>1 DEF Holding, Typed, TypeOK
    <3> QED
      BY <1>3, <3>1, <3>2 DEF Seats, Locks, Holding
  <2> QED
    BY <2>1, <2>2
<1>6. WithinAvailable' /\ OneConfirmedPerVendor'
  BY <1>2, OneConfirmedKept DEF Seats, WithinAvailable
<1> QED
  BY <1>4, <1>5, <1>6 DEF Seats

LEMMA SeatsGrant ==
  ASSUME Typed, Seats, NEW h \in Handlers, BookGrant(h)
  PROVE  Seats'
<1>1. at[h] \in Stalls /\ holder[at[h]] = None /\ Waiting(h)
  BY DEF BookGrant, Typed, Args, Waiting
<1>2. /\ pc' = [pc EXCEPT ![h] = "locked"] /\ holder' = [holder EXCEPT ![at[h]] = h]
      /\ UNCHANGED <<booked, row, open, who, at>>
  BY DEF BookGrant
<1>3. Locks'
  <2>1. \A g \in Handlers \ {h} : Holding(g) => holder[at[g]] = g /\ at[g] \in Stalls
    BY DEF Seats, Locks, Typed, Args, Holding
  <2>2. \A g \in Handlers \ {h} : Holding(g)' => holder'[at'[g]] = g
    BY <1>1, <1>2, <2>1, BookingConstants DEF Holding, Typed, TypeOK
  <2>3. holder'[at'[h]] = h
    BY <1>1, <1>2 DEF Typed, TypeOK
  <2> QED
    BY <2>2, <2>3 DEF Locks
<1>4. Checked'
  BY <1>1, <1>2 DEF Seats, Checked, Holding, Waiting, CheckHolds, Typed, TypeOK
<1>5. WithinAvailable' /\ OneConfirmedPerVendor'
  BY <1>2, OneConfirmedKept DEF Seats, WithinAvailable
<1> QED
  BY <1>3, <1>4, <1>5 DEF Seats
(* The commit of a booking: nobody else held the row, and whoever waited   *)
(* for it fails.                                                           *)
LEMMA SeatsCommit ==
  ASSUME Typed, Seats, NEW h \in Handlers, BookCommit(h)
  PROVE  Seats'
<1> DEFINE u == who[h]
           s == at[h]
<1>1. u \in Users /\ s \in Stalls /\ Holding(h)
  BY DEF BookCommit, Typed, Args, Holding
<1>2. CheckHolds(u, s) /\ holder[s] = h
  BY <1>1 DEF Seats, Checked, Locks
<1>3. PICK b \in BookingIds :
        /\ row[b] = NoRow
        /\ row' = [row EXCEPT ![b] = [state |-> "confirmed", user |-> u, stall |-> s]]
  BY DEF BookCommit
<1>4. booked' = [booked EXCEPT ![s] = @ + 1] /\ holder' = Unlocked(h) /\ CommitOn(h, s)
  BY DEF BookCommit
<1>5. /\ row'[b].state = "confirmed" /\ row'[b].user = u /\ row'[b].stall = s
      /\ \A c \in BookingIds \ {b} : row'[c] = row[c]
  BY <1>3 DEF Typed, TypeOK
<1>6. \A g \in Handlers : Holding(g)' \/ Waiting(g)' =>
        /\ pc'[g] = pc[g] /\ open'[g] = open[g] /\ who'[g] = who[g] /\ at'[g] = at[g]
        /\ g # h /\ at[g] \in Stalls /\ at[g] # s
  <2> SUFFICES ASSUME NEW g \in Handlers, Holding(g)' \/ Waiting(g)'
               PROVE  /\ pc'[g] = pc[g] /\ open'[g] = open[g] /\ who'[g] = who[g]
                      /\ at'[g] = at[g] /\ g # h /\ at[g] \in Stalls /\ at[g] # s
    OBVIOUS
  <2>1. g \notin {h} \cup Blocked(s)
    BY <1>1, <1>4, CommitType DEF Typed, Holding, Waiting
  <2>2. pc'[g] = pc[g] /\ open'[g] = open[g] /\ who'[g] = who[g] /\ at'[g] = at[g]
    BY <1>1, <1>4, <2>1, CommitType DEF Typed
  <2>3. at[g] \in Stalls /\ (Holding(g) \/ Waiting(g))
    BY <2>2 DEF Typed, Args, Holding, Waiting
  <2>4. at[g] # s
    BY <1>2, <2>1, <2>3 DEF Seats, Locks, Blocked, Waiting
  <2> QED
    BY <2>1, <2>2, <2>3, <2>4
<1>7. Locks'
  <2> SUFFICES ASSUME NEW g \in Handlers, Holding(g)' PROVE holder'[at'[g]] = g
    BY DEF Locks
  <2>1. holder[at[g]] = g
    BY <1>6 DEF Seats, Locks, Holding
  <2> QED
    BY <1>4, <1>6, <2>1, UnlockedType DEF Typed
<1>8. Checked'
  <2> SUFFICES ASSUME NEW g \in Handlers, Holding(g)' \/ Waiting(g)'
               PROVE  CheckHolds(who[g], at[g])'
    BY DEF Checked
  <2>1. CheckHolds(who[g], at[g])
    BY <1>6 DEF Seats, Checked, Holding, Waiting
  <2>2. booked'[at[g]] = booked[at[g]]
    BY <1>4, <1>6 DEF Typed, TypeOK
  <2> QED
    BY <1>5, <1>6, <2>1, <2>2 DEF CheckHolds
<1>9. WithinAvailable'
  <2>1. booked[s] + 1 <= Available[s]
    BY <1>1, <1>2, BookingConstants DEF CheckHolds, Typed, TypeOK
  <2> QED
    BY <1>1, <1>4, <2>1 DEF Seats, WithinAvailable, Typed, TypeOK
<1>10. OneConfirmedPerVendor'
  <2> SUFFICES ASSUME NEW t \in Stalls, NEW c \in Confirmed(t)', NEW d \in Confirmed(t)',
                      row'[c].user = row'[d].user
               PROVE  c = d
    BY DEF OneConfirmedPerVendor
  <2>1. /\ c \in BookingIds /\ row'[c].stall = t /\ row'[c].state = "confirmed"
        /\ d \in BookingIds /\ row'[d].stall = t /\ row'[d].state = "confirmed"
    BY DEF Confirmed, RowsAt
  <2>2. CASE c # b /\ d # b
    BY <1>5, <2>1, <2>2 DEF Seats, OneConfirmedPerVendor, Confirmed, RowsAt
  <2>3. CASE c # b /\ d = b
    BY <1>2, <1>5, <2>1, <2>3 DEF CheckHolds
  <2>4. CASE c = b /\ d # b
    BY <1>2, <1>5, <2>1, <2>4 DEF CheckHolds
  <2> QED
    BY <2>2, <2>3, <2>4
<1> QED
  BY <1>7, <1>8, <1>9, <1>10 DEF Seats

(* The commit of a cancellation waits until nobody holds the row.          *)
LEMMA SeatsCancel ==
  ASSUME Typed, Seats, NEW h \in Handlers, CancelCommit(h)
  PROVE  Seats'
<1> DEFINE b == target[h]
           s == row[b].stall
<1>1. b \in BookingIds /\ row[b] \in Rows /\ s \in Stalls
  BY RowFacts DEF CancelCommit, Typed, Args
<1>2. /\ holder[s] = None /\ holder' = holder /\ CommitOn(h, s)
      /\ booked' = [booked EXCEPT ![s] = @ - 1]
      /\ row' = [row EXCEPT ![b].state = "cancelled"]
  BY DEF CancelCommit
<1>3. row'[b].state = "cancelled" /\ \A c \in BookingIds \ {b} : row'[c] = row[c]
  BY <1>1, <1>2 DEF Typed, TypeOK, Rows
<1>4. \A g \in Handlers : Holding(g)' \/ Waiting(g)' =>
        /\ pc'[g] = pc[g] /\ open'[g] = open[g] /\ who'[g] = who[g] /\ at'[g] = at[g]
        /\ at[g] \in Stalls /\ at[g] # s
  <2> SUFFICES ASSUME NEW g \in Handlers, Holding(g)' \/ Waiting(g)'
               PROVE  /\ pc'[g] = pc[g] /\ open'[g] = open[g] /\ who'[g] = who[g]
                      /\ at'[g] = at[g] /\ at[g] \in Stalls /\ at[g] # s
    OBVIOUS
  <2>1. g \notin {h} \cup Blocked(s)
    BY <1>1, <1>2, CommitType DEF Typed, Holding, Waiting
  <2>2. pc'[g] = pc[g] /\ open'[g] = open[g] /\ who'[g] = who[g] /\ at'[g] = at[g]
    BY <1>1, <1>2, <2>1, CommitType DEF Typed
  <2>3. at[g] \in Stalls /\ (Holding(g) \/ Waiting(g))
    BY <2>2 DEF Typed, Args, Holding, Waiting
  <2>4. at[g] # s
    BY <1>2, <2>1, <2>3, BookingConstants DEF Seats, Locks, Blocked, Waiting
  <2> QED
    BY <2>2, <2>3, <2>4
<1>5. Locks'
  BY <1>2, <1>4 DEF Seats, Locks, Holding
<1>6. Checked'
  <2> SUFFICES ASSUME NEW g \in Handlers, Holding(g)' \/ Waiting(g)'
               PROVE  CheckHolds(who[g], at[g])'
    BY DEF Checked
  <2>1. CheckHolds(who[g], at[g])
    BY <1>4 DEF Seats, Checked, Holding, Waiting
  <2>2. booked'[at[g]] = booked[at[g]]
    BY <1>2, <1>4 DEF Typed, TypeOK
  <2> QED
    BY <1>3, <1>4, <2>1, <2>2 DEF CheckHolds
<1>7. WithinAvailable'
  <2>1. \A t \in Stalls : booked[t] \in Int /\ Available[t] \in Int
    BY BookingConstants DEF Typed, TypeOK
  <2>2. \A t \in Stalls : booked'[t] = booked[t] \/ booked'[t] = booked[t] - 1
    BY <1>2 DEF Typed, TypeOK
  <2> QED
    BY <2>1, <2>2 DEF Seats, WithinAvailable
<1>8. OneConfirmedPerVendor'
  BY <1>3, OneConfirmedKept DEF Seats
<1> QED
  BY <1>5, <1>6, <1>7, <1>8 DEF Seats

(* The job only ever takes rows out of the confirmed state.                *)
LEMMA SeatsMark ==
  ASSUME Typed, Seats, NEW w \in Workers, ReleaseMark(w)
  PROVE  Seats'
<1>1. paying[w] \in BookingIds /\ row[paying[w]] \in Rows
  BY DEF ReleaseMark, Typed, TypeOK, Args
<1>2. row'[paying[w]].state = "released" /\ \A c \in BookingIds \ {paying[w]} : row'[c] = row[c]
  BY <1>1 DEF ReleaseMark, Typed, TypeOK, Rows
<1>3. UNCHANGED <<booked, holder, pc, open, who, at>>
  BY DEF ReleaseMark, handlerVars
<1>4. Locks'
  BY <1>3 DEF Seats, Locks, Holding
<1>5. Checked'
  BY <1>2, <1>3 DEF Seats, Checked, Holding, Waiting, CheckHolds
<1>6. WithinAvailable' /\ OneConfirmedPerVendor'
  BY <1>2, <1>3, OneConfirmedKept DEF Seats, WithinAvailable
<1> QED
  BY <1>4, <1>5, <1>6 DEF Seats

LEMMA SeatsStep == Typed /\ Seats /\ [Next]_vars => Seats'
<1> SUFFICES ASSUME Typed, Seats, [Next]_vars PROVE Seats'
  OBVIOUS
<1>1. ASSUME NEW e \in Events, Submit(e) \/ Update(e) PROVE Seats'
  BY <1>1, SeatsQuiet DEF Submit, Update, tableVars, handlerVars
<1>2. CASE Tick
  BY <1>2, SeatsQuiet DEF Tick, tableVars, handlerVars
<1>3. ASSUME NEW h \in Handlers, Reject(h) \/ RollBack(h) PROVE Seats'
  <2>1. /\ pc' = [pc EXCEPT ![h] = "idle"] /\ Finish(h) /\ holder' = Unlocked(h)
        /\ UNCHANGED <<booked, row>>
    BY <1>3 DEF Reject, RollBack
  <2>2. pc'[h] = "idle" /\ \A g \in Handlers \ {h} :
          pc'[g] = pc[g] /\ open'[g] = open[g] /\ who'[g] = who[g] /\ at'[g] = at[g]
    BY <2>1, FinishType DEF Typed
  <2>3. ~Holding(h)' /\ ~Waiting(h)'
    BY <2>2 DEF Holding, Waiting
  <2> QED
    BY <2>1, <2>2, <2>3, SeatsGivenUp
<1>4. ASSUME NEW h \in Handlers, Expire(h) PROVE Seats'
  <2>1. /\ open' = [open EXCEPT ![h] = FALSE] /\ holder' = Unlocked(h)
        /\ pc[h] # "queued" /\ UNCHANGED <<booked, row, pc, who, at>>
    BY <1>4 DEF Expire
  <2>2. ~Holding(h)' /\ ~Waiting(h)'
    BY <2>1 DEF Holding, Waiting, Typed, TypeOK
  <2>3. \A g \in Handlers \ {h} :
          pc'[g] = pc[g] /\ open'[g] = open[g] /\ who'[g] = who[g] /\ at'[g] = at[g]
    BY <2>1 DEF Typed, TypeOK
  <2> QED
    BY <2>1, <2>2, <2>3, SeatsGivenUp
<1>5. ASSUME NEW h \in Handlers, BookFunds(h) PROVE Seats'
  <2>1. pc[h] = "locked" /\ pc' = [pc EXCEPT ![h] = "funded"]
        /\ UNCHANGED <<booked, holder, row, open, who, at>>
    BY <1>5 DEF BookFunds, tableVars
  <2>2. ~Waiting(h)' /\ (Holding(h)' => Holding(h))
    BY <2>1 DEF Holding, Waiting, Typed, TypeOK
  <2>3. "funded" \in Steps
    BY DEF Steps
  <2> QED
    BY <2>1, <2>2, <2>3, SeatsGoOn
<1>6. ASSUME NEW h \in Handlers, BookPay(h) PROVE Seats'
  <2>1. pc[h] = "funded" /\ pc' = [pc EXCEPT ![h] = "paid"]
        /\ UNCHANGED <<booked, holder, row, open, who, at>>
    BY <1>6 DEF BookPay, tableVars
  <2>2. ~Waiting(h)' /\ (Holding(h)' => Holding(h))
    BY <2>1 DEF Holding, Waiting, Typed, TypeOK
  <2>3. "paid" \in Steps
    BY DEF Steps
  <2> QED
    BY <2>1, <2>2, <2>3, SeatsGoOn
<1>7. ASSUME NEW h \in Handlers, NEW b \in BookingIds, CancelBegin(h, b) PROVE Seats'
  <2>1. pc' = [pc EXCEPT ![h] = "cancelling"] /\ open' = [open EXCEPT ![h] = TRUE]
        /\ UNCHANGED <<booked, holder, row, who, at>>
    BY <1>7 DEF CancelBegin, tableVars
  <2>2. ~Waiting(h)' /\ ~Holding(h)'
    BY <2>1 DEF Holding, Waiting, Typed, TypeOK
  <2>3. "cancelling" \in Steps /\ \A g \in Handlers \ {h} : open'[g] = open[g]
    BY <2>1 DEF Steps, Typed, TypeOK
  <2> QED
    BY <2>1, <2>2, <2>3, SeatsGoOn
<1>8. ASSUME NEW h \in Handlers, CancelRefund(h) PROVE Seats'
  <2>1. pc' = [pc EXCEPT ![h] = "refunded"]
        /\ UNCHANGED <<booked, holder, row, open, who, at>>
    BY <1>8 DEF CancelRefund, tableVars
  <2>2. ~Waiting(h)' /\ ~Holding(h)'
    BY <2>1 DEF Holding, Waiting, Typed, TypeOK
  <2>3. "refunded" \in Steps
    BY DEF Steps
  <2> QED
    BY <2>1, <2>2, <2>3, SeatsGoOn
<1>9. ASSUME NEW w \in Workers, ReleaseScan(w) \/ ReleasePay(w) \/ WorkerFails(w)
      PROVE  Seats'
  BY <1>9, SeatsQuiet DEF ReleaseScan, ReleasePay, WorkerFails, tableVars, handlerVars
<1>10. CASE UNCHANGED vars
  BY <1>10, SeatsQuiet DEF vars, tableVars, handlerVars
<1> QED
  BY <1>1, <1>2, <1>3, <1>4, <1>5, <1>6, <1>7, <1>8, <1>9, <1>10, SeatsBegin, SeatsGrant,
     SeatsCommit, SeatsCancel, SeatsMark
     DEF Next, OrganiserStep, HandlerStep, BookStep, CancelStep, WorkerStep

LEMMA SeatsAlways == Spec => []Seats
BY TypedAlways, SeatsInit, SeatsStep, PTL DEF Spec

(* However requests interleave, fail and retry, a vendor never holds two   *)
(* confirmed bookings of one stall (book()'s "prevent double-book").       *)
THEOREM NeverTwoBookings == Spec => []OneConfirmedPerVendor
BY SeatsAlways, PTL DEF Seats

(* A stall's counter never passes the number of its slots.                 *)
THEOREM NeverPastAvailable == Spec => []WithinAvailable
BY SeatsAlways, PTL DEF Seats
=============================================================================
