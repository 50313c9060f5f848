----------------------- MODULE Bookings_settle_proofs -----------------------
(***************************************************************************)
(* Rows and money.  No status is ahead of its transfer, and a stall's      *)
(* counter counts its live bookings as long as the ledger shows none of    *)
(* them settled twice: a second commit of a cancellation, or a release of  *)
(* a cancelled row, needs a second settlement first.  Then why the time    *)
(* windows of cancel and of release keep a booking from being both         *)
(* refunded and released while nobody edits the dates.  Last, that         *)
(* Bookings implements BookingPromise: the step that commits a booking,    *)
(* and those that move the money of a cancellation or a release, are the   *)
(* promise's three operations, and every other step leaves it alone.       *)
(***************************************************************************)
EXTENDS Bookings_money_proofs

(* A cancelled booking is refunded; so is the target of a cancellation     *)
(* about to commit, once more if it is cancelled already or if another     *)
(* cancellation of it is about to commit too.                              *)
Refunds ==
  /\ \A b \in BookingIds : row[b].state = "cancelled" => refunds[b] >= 1
  /\ \A h \in Handlers : pc[h] = "refunded" =>
       /\ refunds[target[h]] >= 1
       /\ row[target[h]].state = "cancelled" => refunds[target[h]] >= 2
  /\ \A g, h \in Handlers :
       g # h /\ pc[g] = "refunded" /\ pc[h] = "refunded" /\ target[g] = target[h]
         => refunds[target[h]] >= 2

(* A released booking, and one about to be marked so, was paid out.        *)
Releases ==
  /\ \A b \in BookingIds : row[b].state = "released" => releases[b] >= 1
  /\ \A w \in Workers : paying[w] # None => releases[paying[w]] >= 1

Counted ==
  \A s \in Stalls :
    (\A b \in RowsAt(s) : Settled(b) <= 1) => booked[s] = Cardinality(Live(s))

Taken(u, s)   == {b \in BookingIds : row[b].stall = s /\ row[b].user = u}
AboutTo(u, s) == {h \in Handlers : pc[h] = "paid" /\ who[h] = u /\ at[h] = s}

(* Each row has a charge of its own, and so has each booking about to      *)
(* commit.                                                                 *)
Charged ==
  \A u \in Users, s \in Stalls :
    Cardinality(Taken(u, s)) + Cardinality(AboutTo(u, s)) <= charged[u][s]

Settlement == Refunds /\ Releases /\ Counted /\ Charged

LEMMA SettlementInit == Init => Settlement
<1> SUFFICES ASSUME Init PROVE Settlement
  OBVIOUS
<1>1. Refunds /\ Releases
  BY RowFacts DEF Init, Refunds, Releases
<1>2. \A s \in Stalls : Live(s) = {}
  BY RowFacts, BookingConstants DEF Init, Live, RowsAt
<1>3. Counted
  <2>1. \A s \in Stalls : Cardinality(Live(s)) = 0 /\ booked[s] = 0
    BY <1>2, FS_EmptySet DEF Init
  <2> QED
    BY <2>1 DEF Counted
<1>4. \A u \in Users, s \in Stalls : Taken(u, s) = {} /\ AboutTo(u, s) = {}
  BY RowFacts, BookingConstants DEF Init, Taken, AboutTo
<1>5. Charged
  <2>1. \A u \in Users, s \in Stalls :
          /\ Cardinality(Taken(u, s)) = 0 /\ Cardinality(AboutTo(u, s)) = 0
          /\ charged[u][s] = 0
    BY <1>4, FS_EmptySet DEF Init
  <2> QED
    BY <2>1 DEF Charged
<1> QED
  BY <1>1, <1>3, <1>5 DEF Settlement

-----------------------------------------------------------------------------
(* Refunds: only two actions refund or cancel.                             *)

LEMMA RefundsQuiet ==
  ASSUME Refunds, refunds' = refunds,
         \A b \in BookingIds : row'[b].state = "cancelled" => row[b].state = "cancelled",
         \A h \in Handlers : pc'[h] = "refunded" =>
           pc[h] = "refunded" /\ target'[h] = target[h] /\ target[h] \in BookingIds
  PROVE  Refunds'
BY DEF Refunds

LEMMA RefundsRefund ==
  ASSUME Typed, Refunds, NEW h \in Handlers, CancelRefund(h)
  PROVE  Refunds'
<1>1. target[h] \in BookingIds
  BY DEF CancelRefund, Typed, Args
<1>2. /\ refunds' = [refunds EXCEPT ![target[h]] = @ + 1]
      /\ pc' = [pc EXCEPT ![h] = "refunded"] /\ UNCHANGED <<row, target>>
  BY DEF CancelRefund, tableVars
<1>3. /\ refunds'[target[h]] = refunds[target[h]] + 1
      /\ \A b \in BookingIds : refunds'[b] >= refunds[b] /\ refunds[b] \in Nat
                                 /\ refunds'[b] \in Nat
  BY <1>1, <1>2 DEF Typed, TypeOK
<1>4. \A g \in Handlers : pc'[g] = "refunded" =>
        target[g] \in BookingIds /\ (g # h => pc[g] = "refunded")
  BY <1>1, <1>2 DEF Typed, TypeOK, Args
<1>5. \A b \in BookingIds : row'[b].state = "cancelled" => refunds'[b] >= 1
  BY <1>2, <1>3 DEF Refunds
<1>6. \A g \in Handlers : pc'[g] = "refunded" =>
        /\ refunds'[target'[g]] >= 1
        /\ row'[target'[g]].state = "cancelled" => refunds'[target'[g]] >= 2
  BY <1>1, <1>2, <1>3, <1>4 DEF Refunds
<1>7. \A f, g \in Handlers :
        f # g /\ pc'[f] = "refunded" /\ pc'[g] = "refunded" /\ target'[f] = target'[g]
          => refunds'[target'[g]] >= 2
  BY <1>1, <1>2, <1>3, <1>4 DEF Refunds
<1> QED
  BY <1>5, <1>6, <1>7 DEF Refunds

LEMMA RefundsCommit ==
  ASSUME Typed, Refunds, NEW h \in Handlers, CancelCommit(h)
  PROVE  Refunds'
<1> DEFINE b == target[h]
<1>1. pc[h] = "refunded" /\ b \in BookingIds /\ row[b] \in Rows /\ row[b].stall \in Stalls
  BY RowFacts DEF CancelCommit, Typed, Args
<1>2. /\ row' = [row EXCEPT ![b].state = "cancelled"] /\ CommitOn(h, row[b].stall)
      /\ refunds' = refunds
  BY DEF CancelCommit, ledgerVars
<1>3. row'[b].state = "cancelled" /\ \A c \in BookingIds \ {b} : row'[c] = row[c]
  BY <1>1, <1>2 DEF Typed, TypeOK, Rows
<1>4. \A g \in Handlers : pc'[g] = "refunded" =>
        g # h /\ pc[g] = "refunded" /\ target'[g] = target[g] /\ target[g] \in BookingIds
  <2> SUFFICES ASSUME NEW g \in Handlers, pc'[g] = "refunded"
               PROVE  g # h /\ pc[g] = "refunded" /\ target'[g] = target[g]
                        /\ target[g] \in BookingIds
    OBVIOUS
  <2>1. g \notin {h} \cup Blocked(row[b].stall)
    BY <1>1, <1>2, CommitType DEF Typed
  <2>2. pc[g] = "refunded" /\ target'[g] = target[g]
    BY <1>1, <1>2, <2>1, CommitType DEF Typed
  <2> QED
    BY <2>1, <2>2 DEF Typed, Args
<1>5. \A c \in BookingIds : row'[c].state = "cancelled" => refunds'[c] >= 1
  BY <1>1, <1>2, <1>3 DEF Refunds
<1>6. \A g \in Handlers : pc'[g] = "refunded" =>
        /\ refunds'[target'[g]] >= 1
        /\ row'[target'[g]].state = "cancelled" => refunds'[target'[g]] >= 2
  <2> SUFFICES ASSUME NEW g \in Handlers, pc'[g] = "refunded"
               PROVE  /\ refunds[target[g]] >= 1
                      /\ row'[target[g]].state = "cancelled" => refunds[target[g]] >= 2
    BY <1>2, <1>4
  <2>1. CASE target[g] = b
    BY <1>1, <1>4, <2>1 DEF Refunds
  <2>2. CASE target[g] # b
    BY <1>3, <1>4, <2>2 DEF Refunds
  <2> QED
    BY <2>1, <2>2
<1>7. \A f, g \in Handlers :
        f # g /\ pc'[f] = "refunded" /\ pc'[g] = "refunded" /\ target'[f] = target'[g]
          => refunds'[target'[g]] >= 2
  BY <1>2, <1>4 DEF Refunds
<1> QED
  BY <1>5, <1>6, <1>7 DEF Refunds

(* Every other action leaves the refunds alone, cancels no row and brings  *)
(* no handler to the point of committing a cancellation.                   *)
LEMMA RefundsStep == Typed /\ Refunds /\ [Next]_vars => Refunds'
<1> SUFFICES ASSUME Typed, Refunds, [Next]_vars PROVE Refunds'
  OBVIOUS
<1>0. \A h \in Handlers : pc[h] = "refunded" => target[h] \in BookingIds
  BY DEF Typed, Args
<1>1. CASE UNCHANGED <<refunds, row, pc, target>>
  BY <1>0, <1>1, RefundsQuiet
<1>2. ASSUME NEW h \in Handlers, Reject(h) \/ RollBack(h) PROVE Refunds'
  <2>1. pc' = [pc EXCEPT ![h] = "idle"] /\ Finish(h) /\ UNCHANGED <<refunds, row>>
    BY <1>2 DEF Reject, RollBack, ledgerVars
  <2>2. \A g \in Handlers : pc'[g] = "refunded" => pc[g] = "refunded" /\ target'[g] = target[g]
    BY <2>1, FinishType DEF Typed
  <2> QED
    BY <1>0, <2>1, <2>2, RefundsQuiet
<1>3. ASSUME NEW h \in Handlers, NEW u \in Users, NEW s \in Stalls, BookBegin(h, u, s)
      PROVE  Refunds'
  <2>1. UNCHANGED <<refunds, row, target>>
    BY <1>3 DEF BookBegin, ledgerVars
  <2>2. \A g \in Handlers : pc'[g] = "refunded" => pc[g] = "refunded"
    <3>1. CASE holder[s] = None
      BY <1>3, <3>1 DEF BookBegin, Typed, TypeOK
    <3>2. CASE holder[s] # None
      BY <1>3, <3>2 DEF BookBegin, Typed, TypeOK
    <3> QED
      BY <3>1, <3>2
  <2> QED
    BY <1>0, <2>1, <2>2, RefundsQuiet
<1>4. ASSUME NEW h \in Handlers, BookGrant(h) \/ BookFunds(h) \/ BookPay(h)
      PROVE  Refunds'
  <2>1. UNCHANGED <<refunds, row, target>>
    BY <1>4 DEF BookGrant, BookFunds, BookPay, ledgerVars, tableVars
  <2>2. \A g \in Handlers : pc'[g] = "refunded" => pc[g] = "refunded"
    BY <1>4 DEF BookGrant, BookFunds, BookPay, Typed, TypeOK
  <2> QED
    BY <1>0, <2>1, <2>2, RefundsQuiet
<1>5. ASSUME NEW h \in Handlers, BookCommit(h) PROVE Refunds'
  <2>1. refunds' = refunds /\ CommitOn(h, at[h]) /\ at[h] \in Stalls /\ who[h] \in Users
    BY <1>5 DEF BookCommit, ledgerVars, Typed, Args
  <2>2. \A b \in BookingIds : row'[b].state = "cancelled" => row[b].state = "cancelled"
    BY <1>5 DEF BookCommit, Typed, TypeOK
  <2>3. \A g \in Handlers : pc'[g] = "refunded" => pc[g] = "refunded" /\ target'[g] = target[g]
    BY <2>1, CommitType DEF Typed
  <2> QED
    BY <1>0, <2>1, <2>2, <2>3, RefundsQuiet
<1>6. ASSUME NEW h \in Handlers, NEW b \in BookingIds, CancelBegin(h, b) PROVE Refunds'
  <2>1. UNCHANGED <<refunds, row>>
    BY <1>6 DEF CancelBegin, ledgerVars, tableVars
  <2>2. \A g \in Handlers : pc'[g] = "refunded" => pc[g] = "refunded" /\ target'[g] = target[g]
    BY <1>6 DEF CancelBegin, Typed, TypeOK
  <2> QED
    BY <1>0, <2>1, <2>2, RefundsQuiet
<1>7. ASSUME NEW w \in Workers, ReleaseMark(w) PROVE Refunds'
  <2>1. UNCHANGED <<refunds, pc, target>>
    BY <1>7 DEF ReleaseMark, ledgerVars, handlerVars
  <2>2. paying[w] \in BookingIds /\ row[paying[w]] \in Rows
    BY <1>7 DEF ReleaseMark, Typed, TypeOK, Args
  <2>3. \A b \in BookingIds : row'[b].state = "cancelled" => row[b].state = "cancelled"
    BY <1>7, <2>2 DEF ReleaseMark, Typed, TypeOK, Rows
  <2> QED
    BY <1>0, <2>1, <2>3, RefundsQuiet
<1>8. CASE Tick \/ \E e \in Events : Submit(e) \/ Update(e)
  BY <1>1, <1>8 DEF Tick, Submit, Update, ledgerVars, tableVars, handlerVars
<1>9. ASSUME NEW h \in Handlers, Expire(h) PROVE Refunds'
  BY <1>1, <1>9 DEF Expire, ledgerVars
<1>10. ASSUME NEW w \in Workers, ReleaseScan(w) \/ ReleasePay(w) \/ WorkerFails(w)
       PROVE  Refunds'
  BY <1>1, <1>10 DEF ReleaseScan, ReleasePay, WorkerFails, ledgerVars, tableVars, handlerVars
<1>11. CASE UNCHANGED vars
  BY <1>1, <1>11 DEF vars, ledgerVars, tableVars, handlerVars
<1> QED
  BY <1>2, <1>3, <1>4, <1>5, <1>6, <1>7, <1>8, <1>9, <1>10, <1>11, RefundsRefund,
     RefundsCommit
     DEF Next, OrganiserStep, HandlerStep, BookStep, CancelStep, WorkerStep
-----------------------------------------------------------------------------
(* Releases.                                                               *)

LEMMA ReleasesQuiet ==
  ASSUME Releases, releases' = releases,
         \A b \in BookingIds : row'[b].state = "released" => row[b].state = "released",
         \A w \in Workers : paying'[w] # None => paying'[w] = paying[w]
  PROVE  Releases'
BY DEF Releases

LEMMA ReleasesStep == Typed /\ Releases /\ [Next]_vars => Releases'
<1> SUFFICES ASSUME Typed, Releases, [Next]_vars PROVE Releases'
  OBVIOUS
<1>1. CASE UNCHANGED <<releases, row, paying>>
  BY <1>1, ReleasesQuiet
<1>2. ASSUME NEW h \in Handlers, BookCommit(h) PROVE Releases'
  <2>1. UNCHANGED <<releases, paying>>
    BY <1>2 DEF BookCommit, ledgerVars, workerVars
  <2>2. \A b \in BookingIds : row'[b].state = "released" => row[b].state = "released"
    BY <1>2 DEF BookCommit, Typed, TypeOK
  <2> QED
    BY <2>1, <2>2, ReleasesQuiet
<1>3. ASSUME NEW h \in Handlers, CancelCommit(h) PROVE Releases'
  <2>1. UNCHANGED <<releases, paying>>
    BY <1>3 DEF CancelCommit, ledgerVars, workerVars
  <2>2. target[h] \in BookingIds /\ row[target[h]] \in Rows
    BY <1>3 DEF CancelCommit, Typed, Args
  <2>3. \A b \in BookingIds : row'[b].state = "released" => row[b].state = "released"
    BY <1>3, <2>2 DEF CancelCommit, Typed, TypeOK, Rows
  <2> QED
    BY <2>1, <2>3, ReleasesQuiet
<1>4. ASSUME NEW w \in Workers, ReleasePay(w) PROVE Releases'
  <2>1. PICK b \in batch[w] : /\ releases' = [releases EXCEPT ![b] = @ + 1]
                              /\ paying' = [paying EXCEPT ![w] = b]
    BY <1>4 DEF ReleasePay
  <2>2. b \in BookingIds /\ row' = row
    BY <1>4 DEF ReleasePay, tableVars, Typed, TypeOK
  <2>3. /\ releases'[b] >= 1
        /\ \A c \in BookingIds : releases[c] >= 1 => releases'[c] >= 1
    BY <2>1, <2>2 DEF Typed, TypeOK
  <2>4. \A x \in Workers : paying'[x] = b \/ paying'[x] = paying[x]
    BY <2>1 DEF Typed, TypeOK
  <2>5. \A x \in Workers : paying[x] # None => paying[x] \in BookingIds
    BY DEF Typed, TypeOK
  <2> QED
    BY <2>2, <2>3, <2>4, <2>5 DEF Releases
<1>5. ASSUME NEW w \in Workers, ReleaseMark(w) PROVE Releases'
  <2>1. paying[w] \in BookingIds /\ row[paying[w]] \in Rows /\ releases[paying[w]] >= 1
    BY <1>5 DEF ReleaseMark, Typed, TypeOK, Args, Releases
  <2>2. /\ releases' = releases
        /\ \A b \in BookingIds \ {paying[w]} : row'[b] = row[b]
        /\ \A x \in Workers : paying'[x] # None => paying'[x] = paying[x]
    BY <1>5 DEF ReleaseMark, ledgerVars, Typed, TypeOK
  <2> QED
    BY <2>1, <2>2 DEF Releases
<1>6. ASSUME NEW w \in Workers, WorkerFails(w) PROVE Releases'
  <2>1. paying' = [paying EXCEPT ![w] = None] /\ UNCHANGED <<releases, row>>
    BY <1>6 DEF WorkerFails, ledgerVars, tableVars
  <2>2. \A x \in Workers : paying'[x] # None => paying'[x] = paying[x]
    BY <2>1 DEF Typed, TypeOK
  <2> QED
    BY <2>1, <2>2, ReleasesQuiet
<1>7. CASE Tick \/ \E e \in Events : Submit(e) \/ Update(e)
  BY <1>1, <1>7 DEF Tick, Submit, Update, ledgerVars, tableVars, workerVars
<1>8. ASSUME NEW h \in Handlers, Reject(h) \/ Expire(h) \/ RollBack(h) PROVE Releases'
  BY <1>1, <1>8 DEF Reject, Expire, RollBack, ledgerVars, workerVars
<1>9. ASSUME NEW h \in Handlers, NEW u \in Users, NEW s \in Stalls, BookBegin(h, u, s)
      PROVE  Releases'
  BY <1>1, <1>9 DEF BookBegin, ledgerVars, workerVars
<1>10. ASSUME NEW h \in Handlers, BookGrant(h) \/ BookFunds(h) \/ BookPay(h)
       PROVE  Releases'
  BY <1>1, <1>10 DEF BookGrant, BookFunds, BookPay, ledgerVars, tableVars, workerVars
<1>11. ASSUME NEW h \in Handlers, NEW b \in BookingIds, CancelBegin(h, b) PROVE Releases'
  BY <1>1, <1>11 DEF CancelBegin, ledgerVars, tableVars, workerVars
<1>12. ASSUME NEW h \in Handlers, CancelRefund(h) PROVE Releases'
  BY <1>1, <1>12 DEF CancelRefund, tableVars, workerVars
<1>13. ASSUME NEW w \in Workers, ReleaseScan(w) PROVE Releases'
  BY <1>1, <1>13 DEF ReleaseScan, ledgerVars, tableVars
<1>14. CASE UNCHANGED vars
  BY <1>1, <1>14 DEF vars, ledgerVars, tableVars, workerVars
<1> QED
  BY <1>2, <1>3, <1>4, <1>5, <1>6, <1>7, <1>8, <1>9, <1>10, <1>11, <1>12, <1>13, <1>14
     DEF Next, OrganiserStep, HandlerStep, BookStep, CancelStep, WorkerStep

-----------------------------------------------------------------------------
(* The counter.                                                            *)

LEMMA LiveFinite ==
  ASSUME NEW s \in Stalls
  PROVE  IsFiniteSet(Live(s)) /\ Cardinality(Live(s)) \in Nat
<1>1. Live(s) \in SUBSET BookingIds
  BY DEF Live, RowsAt
<1> QED
  BY <1>1, BookingConstants, FS_Subset, FS_CardinalityType

(* Money may move, but the tables do not.                                  *)
LEMMA CountedQuiet ==
  ASSUME Counted, UNCHANGED <<booked, row>>,
         \A b \in BookingIds : Settled(b)' <= 1 => Settled(b) <= 1
  PROVE  Counted'
BY DEF Counted, RowsAt, Live

(* A new confirmed row is one more live booking.                           *)
LEMMA CountedBook ==
  ASSUME Typed, Counted, NEW h \in Handlers, BookCommit(h)
  PROVE  Counted'
<1>1. PICK s \in Stalls : s = at[h] /\ booked' = [booked EXCEPT ![s] = @ + 1]
  BY DEF BookCommit, Typed, Args
<1>2. PICK b \in BookingIds :
        /\ row[b] = NoRow
        /\ row' = [row EXCEPT ![b] = [state |-> "confirmed", user |-> who[h], stall |-> s]]
  BY <1>1 DEF BookCommit
<1>3. /\ row'[b].state = "confirmed" /\ row'[b].stall = s
      /\ \A c \in BookingIds \ {b} : row'[c] = row[c]
  BY <1>2 DEF Typed, TypeOK
<1>4. \A c \in BookingIds : Settled(c)' = Settled(c)
  BY DEF BookCommit, ledgerVars, Settled
<1>5. row[b].stall = None
  BY <1>2, RowFacts
<1>6. Live(s)' = Live(s) \cup {b} /\ b \notin Live(s)
  BY <1>1, <1>3, <1>5, BookingConstants DEF Live, RowsAt
<1>7. \A t \in Stalls \ {s} : Live(t)' = Live(t)
  BY <1>1, <1>3, <1>5, BookingConstants DEF Live, RowsAt
<1>8. \A t \in Stalls : RowsAt(t) \subseteq RowsAt(t)'
  BY <1>1, <1>3, <1>5, BookingConstants DEF RowsAt
<1>9. SUFFICES ASSUME NEW t \in Stalls, \A c \in RowsAt(t)' : Settled(c)' <= 1
               PROVE  booked'[t] = Cardinality(Live(t)')
  BY DEF Counted
<1>10. booked[t] = Cardinality(Live(t))
  BY <1>4, <1>8, <1>9 DEF Counted, RowsAt
<1>11. CASE t = s
  <2>1. Cardinality(Live(s) \cup {b}) = Cardinality(Live(s)) + 1
    BY <1>1, <1>6, LiveFinite, FS_AddElement
  <2> QED
    BY <1>1, <1>6, <1>10, <1>11, <2>1 DEF Typed, TypeOK
<1>12. CASE t # s
  BY <1>1, <1>7, <1>10, <1>12 DEF Typed, TypeOK
<1> QED
  BY <1>11, <1>12

(* A cancelled row is one less, unless it was cancelled before: then the   *)
(* ledger shows the second refund.                                         *)
LEMMA CountedCancel ==
  ASSUME Typed, Refunds, Counted, NEW h \in Handlers, CancelCommit(h)
  PROVE  Counted'
<1>0. PICK b \in BookingIds, s \in Stalls : b = target[h] /\ s = row[b].stall
  BY RowFacts DEF CancelCommit, Typed, Args
<1>1. /\ pc[h] = "refunded" /\ b = target[h] /\ s = row[b].stall /\ row[b] \in Rows
      /\ booked' = [booked EXCEPT ![s] = @ - 1]
  BY <1>0 DEF CancelCommit, Typed, Args
<1>2. /\ row'[b].state = "cancelled" /\ row'[b].stall = s
      /\ \A c \in BookingIds \ {b} : row'[c] = row[c]
  BY <1>1 DEF CancelCommit, Typed, TypeOK, Rows
<1>3. \A c \in BookingIds : Settled(c)' = Settled(c)
  BY DEF CancelCommit, ledgerVars, Settled
<1>4. \A t \in Stalls : RowsAt(t)' = RowsAt(t)
  BY <1>1, <1>2 DEF RowsAt
<1>5. SUFFICES ASSUME NEW t \in Stalls, \A c \in RowsAt(t)' : Settled(c)' <= 1
               PROVE  booked'[t] = Cardinality(Live(t)')
  BY DEF Counted
<1>6. booked[t] = Cardinality(Live(t))
  BY <1>3, <1>4, <1>5 DEF Counted, RowsAt
<1>7. CASE t = s
  <2>1. row[b].state # "cancelled"
    <3>1. Settled(b) <= 1
      BY <1>1, <1>3, <1>4, <1>5, <1>7 DEF RowsAt
    <3> QED
      BY <1>1, <3>1 DEF Refunds, Settled, Typed, TypeOK
  <2>2. Live(s)' = Live(s) \ {b} /\ b \in Live(s)
    BY <1>1, <1>2, <2>1 DEF Live, RowsAt
  <2>3. Cardinality(Live(s) \ {b}) = Cardinality(Live(s)) - 1
    BY <1>1, <2>2, LiveFinite, FS_RemoveElement
  <2> QED
    BY <1>1, <1>6, <1>7, <2>2, <2>3 DEF Typed, TypeOK
<1>8. CASE t # s
  <2>1. Live(t)' = Live(t)
    BY <1>1, <1>2, <1>8 DEF Live, RowsAt
  <2> QED
    BY <1>1, <1>6, <1>8, <2>1 DEF Typed, TypeOK
<1> QED
  BY <1>7, <1>8

(* Marking a row released changes no count, unless the row was cancelled:  *)
(* then the ledger shows a refund and a release of it.                     *)
LEMMA CountedMark ==
  ASSUME Typed, Refunds, Releases, Counted, NEW w \in Workers, ReleaseMark(w)
  PROVE  Counted'
<1>1. PICK b \in BookingIds : /\ b = paying[w] /\ row[b] \in Rows /\ releases[b] >= 1
                              /\ booked' = booked
  BY DEF ReleaseMark, Typed, TypeOK, Args, Releases
<1>2. /\ row'[b].state = "released" /\ row'[b].stall = row[b].stall
      /\ \A c \in BookingIds \ {b} : row'[c] = row[c]
  BY <1>1 DEF ReleaseMark, Typed, TypeOK, Rows
<1>3. \A c \in BookingIds : Settled(c)' = Settled(c)
  BY DEF ReleaseMark, ledgerVars, Settled
<1>4. \A t \in Stalls : RowsAt(t)' = RowsAt(t)
  BY <1>1, <1>2 DEF RowsAt
<1>5. SUFFICES ASSUME NEW t \in Stalls, \A c \in RowsAt(t)' : Settled(c)' <= 1
               PROVE  booked'[t] = Cardinality(Live(t)')
  BY DEF Counted
<1>6. booked[t] = Cardinality(Live(t))
  BY <1>3, <1>4, <1>5 DEF Counted, RowsAt
<1>7. b \in RowsAt(t) => row[b].state # "cancelled"
  BY <1>1, <1>3, <1>4, <1>5 DEF Refunds, Settled, Typed, TypeOK
<1>8. Live(t)' = Live(t)
  BY <1>1, <1>2, <1>4, <1>7 DEF Live, RowsAt
<1> QED
  BY <1>1, <1>6, <1>8

LEMMA CountedStep == Typed /\ Refunds /\ Releases /\ Counted /\ [Next]_vars => Counted'
<1> SUFFICES ASSUME Typed, Refunds, Releases, Counted, [Next]_vars PROVE Counted'
  OBVIOUS
<1>1. CASE UNCHANGED <<refunds, releases, booked, row>>
  BY <1>1, CountedQuiet DEF Settled
<1>2. ASSUME NEW h \in Handlers, CancelRefund(h) PROVE Counted'
  <2>1. /\ target[h] \in BookingIds /\ UNCHANGED <<releases, booked, row>>
        /\ refunds' = [refunds EXCEPT ![target[h]] = @ + 1]
    BY <1>2 DEF CancelRefund, tableVars, Typed, Args
  <2> QED
    BY <2>1, CountedQuiet DEF Settled, Typed, TypeOK
<1>3. ASSUME NEW w \in Workers, ReleasePay(w) PROVE Counted'
  <2>1. PICK b \in batch[w] : releases' = [releases EXCEPT ![b] = @ + 1]
    BY <1>3 DEF ReleasePay
  <2>2. b \in BookingIds /\ UNCHANGED <<refunds, booked, row>>
    BY <1>3 DEF ReleasePay, tableVars, Typed, TypeOK
  <2> QED
    BY <2>1, <2>2, CountedQuiet DEF Settled, Typed, TypeOK
<1>4. CASE Tick \/ \E e \in Events : Submit(e) \/ Update(e)
  BY <1>1, <1>4 DEF Tick, Submit, Update, ledgerVars, tableVars
<1>5. ASSUME NEW h \in Handlers, Reject(h) \/ Expire(h) \/ RollBack(h) PROVE Counted'
  BY <1>1, <1>5 DEF Reject, Expire, RollBack, ledgerVars
<1>6. ASSUME NEW h \in Handlers, NEW u \in Users, NEW s \in Stalls, BookBegin(h, u, s)
      PROVE  Counted'
  BY <1>1, <1>6 DEF BookBegin, ledgerVars
<1>7. ASSUME NEW h \in Handlers, BookGrant(h) \/ BookFunds(h) \/ BookPay(h)
      PROVE  Counted'
  BY <1>1, <1>7 DEF BookGrant, BookFunds, BookPay, ledgerVars, tableVars
<1>8. ASSUME NEW h \in Handlers, NEW b \in BookingIds, CancelBegin(h, b) PROVE Counted'
  BY <1>1, <1>8 DEF CancelBegin, ledgerVars, tableVars
<1>9. ASSUME NEW w \in Workers, ReleaseScan(w) \/ WorkerFails(w) PROVE Counted'
  BY <1>1, <1>9 DEF ReleaseScan, WorkerFails, ledgerVars, tableVars
<1>10. CASE UNCHANGED vars
  BY <1>1, <1>10 DEF vars, ledgerVars, tableVars
<1> QED
  BY <1>2, <1>3, <1>4, <1>5, <1>6, <1>7, <1>8, <1>9, <1>10, CountedBook, CountedCancel,
     CountedMark
     DEF Next, OrganiserStep, HandlerStep, BookStep, CancelStep, WorkerStep
-----------------------------------------------------------------------------
(* Charges.                                                                *)

LEMMA ChargedFinite ==
  ASSUME NEW u \in Users, NEW s \in Stalls
  PROVE  /\ IsFiniteSet(Taken(u, s)) /\ Cardinality(Taken(u, s)) \in Nat
         /\ IsFiniteSet(AboutTo(u, s)) /\ Cardinality(AboutTo(u, s)) \in Nat
<1>1. Taken(u, s) \in SUBSET BookingIds /\ AboutTo(u, s) \in SUBSET Handlers
  BY DEF Taken, AboutTo
<1> QED
  BY <1>1, BookingConstants, FS_Subset, FS_CardinalityType

(* Fewer handlers about to commit, the same rows for the same vendors.     *)
LEMMA ChargedQuiet ==
  ASSUME Charged, charged' = charged,
         \A b \in BookingIds : row'[b].stall = row[b].stall /\ row'[b].user = row[b].user,
         \A h \in Handlers : pc'[h] = "paid" =>
           pc[h] = "paid" /\ who'[h] = who[h] /\ at'[h] = at[h],
         Typed
  PROVE  Charged'
<1> SUFFICES ASSUME NEW u \in Users, NEW s \in Stalls
             PROVE  Cardinality(Taken(u, s)') + Cardinality(AboutTo(u, s)') <= charged'[u][s]
  BY DEF Charged
<1>1. Taken(u, s)' = Taken(u, s)
  BY DEF Taken
<1>2. AboutTo(u, s)' \in SUBSET AboutTo(u, s)
  BY DEF AboutTo
<1>3. /\ Cardinality(AboutTo(u, s)') <= Cardinality(AboutTo(u, s))
      /\ Cardinality(AboutTo(u, s)') \in Nat
  BY <1>2, ChargedFinite, FS_Subset, FS_CardinalityType
<1>4. /\ Cardinality(Taken(u, s)) + Cardinality(AboutTo(u, s)) <= charged[u][s]
      /\ charged[u][s] \in Nat /\ Cardinality(Taken(u, s)) \in Nat
      /\ Cardinality(AboutTo(u, s)) \in Nat
  BY ChargedFinite DEF Charged, Typed, TypeOK
<1> QED
  BY <1>1, <1>3, <1>4

(* One charge more, for one handler about to commit more.                  *)
LEMMA ChargedPay ==
  ASSUME Typed, Charged, NEW h \in Handlers, BookPay(h)
  PROVE  Charged'
<1>1. PICK v \in Users, t \in Stalls : v = who[h] /\ t = at[h]
  BY DEF BookPay, Typed, Args
<1>2. /\ charged' = [charged EXCEPT ![v][t] = @ + 1]
      /\ pc[h] = "funded" /\ pc' = [pc EXCEPT ![h] = "paid"] /\ UNCHANGED <<row, who, at>>
  BY <1>1 DEF BookPay, tableVars
<1> SUFFICES ASSUME NEW u \in Users, NEW s \in Stalls
             PROVE  Cardinality(Taken(u, s)') + Cardinality(AboutTo(u, s)') <= charged'[u][s]
  BY DEF Charged
<1>3. Taken(u, s)' = Taken(u, s)
  BY <1>2 DEF Taken
<1>4. /\ Cardinality(Taken(u, s)) + Cardinality(AboutTo(u, s)) <= charged[u][s]
      /\ charged[u][s] \in Nat /\ Cardinality(Taken(u, s)) \in Nat
      /\ Cardinality(AboutTo(u, s)) \in Nat
  BY ChargedFinite DEF Charged, Typed, TypeOK
<1>5. CASE u = v /\ s = t
  <2>1. AboutTo(u, s)' = AboutTo(u, s) \cup {h} /\ h \notin AboutTo(u, s)
    BY <1>1, <1>2, <1>5 DEF AboutTo, Typed, TypeOK
  <2>2. Cardinality(AboutTo(u, s)') = Cardinality(AboutTo(u, s)) + 1
    BY <2>1, ChargedFinite, FS_AddElement
  <2>3. charged'[u][s] = charged[u][s] + 1
    BY <1>2, <1>5 DEF Typed, TypeOK
  <2> QED
    BY <1>3, <1>4, <2>2, <2>3
<1>6. CASE ~(u = v /\ s = t)
  <2>1. AboutTo(u, s)' = AboutTo(u, s)
    BY <1>1, <1>2, <1>6 DEF AboutTo, Typed, TypeOK
  <2>2. charged'[u][s] = charged[u][s]
    BY <1>2, <1>6 DEF Typed, TypeOK
  <2> QED
    BY <1>3, <1>4, <2>1, <2>2
<1> QED
  BY <1>5, <1>6

(* The handler about to commit becomes the row.                            *)
LEMMA ChargedCommit ==
  ASSUME Typed, Charged, NEW h \in Handlers, BookCommit(h)
  PROVE  Charged'
<1>1. PICK v \in Users, t \in Stalls : v = who[h] /\ t = at[h]
  BY DEF BookCommit, Typed, Args
<1>2. PICK b \in BookingIds :
        /\ row[b] = NoRow
        /\ row' = [row EXCEPT ![b] = [state |-> "confirmed", user |-> v, stall |-> t]]
  BY <1>1 DEF BookCommit
<1>3. /\ row'[b].user = v /\ row'[b].stall = t /\ row[b].stall = None
      /\ \A c \in BookingIds \ {b} : row'[c] = row[c]
  BY <1>2, RowFacts DEF Typed, TypeOK
<1>4. pc[h] = "paid" /\ charged' = charged /\ CommitOn(h, t)
  BY <1>1 DEF BookCommit, ledgerVars
<1>5. \A g \in Handlers : pc'[g] = "paid" =>
        g # h /\ pc[g] = "paid" /\ who'[g] = who[g] /\ at'[g] = at[g]
  BY <1>4, CommitType DEF Typed
<1> SUFFICES ASSUME NEW u \in Users, NEW s \in Stalls
             PROVE  Cardinality(Taken(u, s)') + Cardinality(AboutTo(u, s)') <= charged'[u][s]
  BY DEF Charged
<1>6. /\ Cardinality(Taken(u, s)) + Cardinality(AboutTo(u, s)) <= charged[u][s]
      /\ charged[u][s] \in Nat /\ Cardinality(Taken(u, s)) \in Nat
      /\ Cardinality(AboutTo(u, s)) \in Nat
  BY ChargedFinite DEF Charged, Typed, TypeOK
<1>7. CASE u = v /\ s = t
  <2>1. Taken(u, s)' = Taken(u, s) \cup {b} /\ b \notin Taken(u, s)
    BY <1>3, <1>7, BookingConstants DEF Taken
  <2>2. Cardinality(Taken(u, s)') = Cardinality(Taken(u, s)) + 1
    BY <2>1, ChargedFinite, FS_AddElement
  <2>3. AboutTo(u, s)' \in SUBSET (AboutTo(u, s) \ {h}) /\ h \in AboutTo(u, s)
    BY <1>1, <1>4, <1>5, <1>7 DEF AboutTo
  <2>4. /\ IsFiniteSet(AboutTo(u, s) \ {h})
        /\ Cardinality(AboutTo(u, s) \ {h}) = Cardinality(AboutTo(u, s)) - 1
    BY <2>3, ChargedFinite, FS_RemoveElement
  <2>5. /\ Cardinality(AboutTo(u, s)') <= Cardinality(AboutTo(u, s) \ {h})
        /\ Cardinality(AboutTo(u, s)') \in Nat
    BY <2>3, <2>4, FS_Subset, FS_CardinalityType
  <2> QED
    BY <1>4, <1>6, <2>2, <2>4, <2>5
<1>8. CASE ~(u = v /\ s = t)
  <2>1. Taken(u, s)' = Taken(u, s)
    BY <1>3, <1>8, BookingConstants DEF Taken
  <2>2. AboutTo(u, s)' \in SUBSET AboutTo(u, s)
    BY <1>5 DEF AboutTo
  <2>3. /\ Cardinality(AboutTo(u, s)') <= Cardinality(AboutTo(u, s))
        /\ Cardinality(AboutTo(u, s)') \in Nat
    BY <2>2, ChargedFinite, FS_Subset, FS_CardinalityType
  <2> QED
    BY <1>4, <1>6, <2>1, <2>3
<1> QED
  BY <1>7, <1>8

LEMMA ChargedStep == Typed /\ Charged /\ [Next]_vars => Charged'
<1> SUFFICES ASSUME Typed, Charged, [Next]_vars PROVE Charged'
  OBVIOUS
<1>1. CASE UNCHANGED <<charged, row, pc, who, at>>
  BY <1>1, ChargedQuiet
<1>2. ASSUME NEW h \in Handlers, Reject(h) \/ RollBack(h) PROVE Charged'
  <2>1. pc' = [pc EXCEPT ![h] = "idle"] /\ Finish(h) /\ UNCHANGED <<charged, row>>
    BY <1>2 DEF Reject, RollBack, ledgerVars
  <2>2. \A g \in Handlers : pc'[g] = "paid" =>
          pc[g] = "paid" /\ who'[g] = who[g] /\ at'[g] = at[g]
    BY <2>1, FinishType DEF Typed
  <2> QED
    BY <2>1, <2>2, ChargedQuiet
<1>3. ASSUME NEW h \in Handlers, NEW u \in Users, NEW s \in Stalls, BookBegin(h, u, s)
      PROVE  Charged'
  <2>1. /\ UNCHANGED <<charged, row>>
        /\ who' = [who EXCEPT ![h] = u] /\ at' = [at EXCEPT ![h] = s]
    BY <1>3 DEF BookBegin, ledgerVars
  <2>2. pc'[h] # "paid" /\ \A g \in Handlers \ {h} : pc'[g] = pc[g]
    <3>1. CASE holder[s] = None
      BY <1>3, <3>1 DEF BookBegin, Typed, TypeOK
    <3>2. CASE holder[s] # None
      BY <1>3, <3>2 DEF BookBegin, Typed, TypeOK
    <3> QED
      BY <3>1, <3>2
  <2>3. \A g \in Handlers : pc'[g] = "paid" =>
          pc[g] = "paid" /\ who'[g] = who[g] /\ at'[g] = at[g]
    BY <2>1, <2>2 DEF Typed, TypeOK
  <2> QED
    BY <2>1, <2>3, ChargedQuiet
<1>4. ASSUME NEW h \in Handlers, BookGrant(h) \/ BookFunds(h) \/ CancelRefund(h)
      PROVE  Charged'
  <2>1. UNCHANGED <<charged, row, who, at>>
    BY <1>4 DEF BookGrant, BookFunds, CancelRefund, ledgerVars, tableVars
  <2>2. \A g \in Handlers : pc'[g] = "paid" => pc[g] = "paid"
    BY <1>4 DEF BookGrant, BookFunds, CancelRefund, Typed, TypeOK
  <2> QED
    BY <2>1, <2>2, ChargedQuiet
<1>5. ASSUME NEW h \in Handlers, NEW b \in BookingIds, CancelBegin(h, b) PROVE Charged'
  <2>1. UNCHANGED <<charged, row, who, at>>
    BY <1>5 DEF CancelBegin, ledgerVars, tableVars
  <2>2. \A g \in Handlers : pc'[g] = "paid" => pc[g] = "paid"
    BY <1>5 DEF CancelBegin, Typed, TypeOK
  <2> QED
    BY <2>1, <2>2, ChargedQuiet
<1>6. ASSUME NEW h \in Handlers, CancelCommit(h) PROVE Charged'
  <2>1. target[h] \in BookingIds /\ row[target[h]] \in Rows
          /\ row[target[h]].stall \in Stalls
    BY <1>6, RowFacts DEF CancelCommit, Typed, Args
  <2>2. charged' = charged /\ CommitOn(h, row[target[h]].stall)
    BY <1>6 DEF CancelCommit, ledgerVars
  <2>3. \A b \in BookingIds : row'[b].stall = row[b].stall /\ row'[b].user = row[b].user
    BY <1>6, <2>1 DEF CancelCommit, Typed, TypeOK, Rows
  <2>4. \A g \in Handlers : pc'[g] = "paid" =>
          pc[g] = "paid" /\ who'[g] = who[g] /\ at'[g] = at[g]
    BY <2>1, <2>2, CommitType DEF Typed
  <2> QED
    BY <2>2, <2>3, <2>4, ChargedQuiet
<1>7. ASSUME NEW w \in Workers, ReleaseMark(w) PROVE Charged'
  <2>1. UNCHANGED <<charged, pc, who, at>>
    BY <1>7 DEF ReleaseMark, ledgerVars, handlerVars
  <2>2. paying[w] \in BookingIds /\ row[paying[w]] \in Rows
    BY <1>7 DEF ReleaseMark, Typed, TypeOK, Args
  <2>3. \A b \in BookingIds : row'[b].stall = row[b].stall /\ row'[b].user = row[b].user
    BY <1>7, <2>2 DEF ReleaseMark, Typed, TypeOK, Rows
  <2> QED
    BY <2>1, <2>3, ChargedQuiet
<1>8. CASE Tick \/ \E e \in Events : Submit(e) \/ Update(e)
  BY <1>1, <1>8 DEF Tick, Submit, Update, ledgerVars, tableVars, handlerVars
<1>9. ASSUME NEW h \in Handlers, Expire(h) PROVE Charged'
  BY <1>1, <1>9 DEF Expire, ledgerVars
<1>10. ASSUME NEW w \in Workers, ReleaseScan(w) \/ ReleasePay(w) \/ WorkerFails(w)
       PROVE  Charged'
  BY <1>1, <1>10 DEF ReleaseScan, ReleasePay, WorkerFails, ledgerVars, tableVars, handlerVars
<1>11. CASE UNCHANGED vars
  BY <1>1, <1>11 DEF vars, ledgerVars, tableVars, handlerVars
<1> QED
  BY <1>2, <1>3, <1>4, <1>5, <1>6, <1>7, <1>8, <1>9, <1>10, <1>11, ChargedPay,
     ChargedCommit
     DEF Next, OrganiserStep, HandlerStep, BookStep, CancelStep, WorkerStep

-----------------------------------------------------------------------------
LEMMA SettlementAlways == Spec => []Settlement
<1>1. Typed /\ Settlement /\ [Next]_vars => Settlement'
  BY RefundsStep, ReleasesStep, CountedStep, ChargedStep DEF Settlement
<1> QED
  BY TypedAlways, SettlementInit, <1>1, PTL DEF Spec

LEMMA NoOversellFollows == Seats /\ Settlement => NoOversell
BY DEF Seats, WithinAvailable, Settlement, Counted, NoOversell

LEMMA StatusFollows == Typed /\ Settlement => StatusIsPaidFor
<1> SUFFICES ASSUME Typed, Settlement PROVE StatusIsPaidFor
  OBVIOUS
<1>1. ASSUME NEW u \in Users, NEW s \in Stalls
      PROVE  Cardinality({b \in RowsAt(s) : row[b].user = u}) <= charged[u][s]
  <2>1. Cardinality({b \in RowsAt(s) : row[b].user = u}) = Cardinality(Taken(u, s))
    <3>1. {b \in RowsAt(s) : row[b].user = u} = Taken(u, s)
      BY DEF RowsAt, Taken
    <3> QED
      BY <3>1
  <2>2. Cardinality(Taken(u, s)) \in Nat /\ Cardinality(AboutTo(u, s)) \in Nat
    BY ChargedFinite
  <2>3. Cardinality(Taken(u, s)) + Cardinality(AboutTo(u, s)) <= charged[u][s]
    BY DEF Settlement, Charged
  <2>4. charged[u][s] \in Nat
    BY DEF Typed, TypeOK
  <2> QED
    BY <2>1, <2>2, <2>3, <2>4
<1>2. \A b \in BookingIds : /\ row[b].state = "cancelled" => refunds[b] >= 1
                            /\ row[b].state = "released" => releases[b] >= 1
  BY DEF Settlement, Refunds, Releases
<1> QED
  BY <1>1, <1>2 DEF StatusIsPaidFor

(* The last slot is sold once: while the ledger shows no booking of a      *)
(* stall settled twice, booked counts its live bookings, within available. *)
THEOREM NeverOversold == Spec => []NoOversell
BY SeatsAlways, SettlementAlways, NoOversellFollows, PTL

(* Whichever of a booking's two transactions fails, no row is ahead of its *)
(* charge, its refund or its release.                                      *)
THEOREM StatusNeverAhead == Spec => []StatusIsPaidFor
BY TypedAlways, SettlementAlways, StatusFollows, PTL

-----------------------------------------------------------------------------
(* Refund or release.  Neither cancel() nor the job looks at what the      *)
(* other has paid; what keeps them apart is time: a cancellation begins    *)
(* before its event starts and is over before the event has cleared, and   *)
(* the job begins after.  The proof is about behaviours with no edited     *)
(* date and no failure; the runs show that either breaks the property.     *)

Undisturbed == edits = 0 /\ faults = 0
Past == End < now - 1

Dated == \A e \in Events : startsAt[e] = Start /\ endsAt[e] = End
InTime ==
  \A h \in Handlers : pc[h] \in {"cancelling", "refunded"} => open[h] /\ ~Past
RefundSeen ==
  \A b \in BookingIds : refunds[b] > 0 =>
    \/ row[b].state = "cancelled"
    \/ \E h \in Handlers : pc[h] = "refunded" /\ target[h] = b
PastOnly ==
  /\ \A w \in Workers : \A b \in batch[w] : Past /\ refunds[b] = 0
  /\ \A b \in BookingIds : releases[b] > 0 => Past /\ refunds[b] = 0

Windows == Dated /\ InTime /\ RefundSeen /\ PastOnly
Window  == Undisturbed => Windows

LEMMA WindowInit == Init => Window
<1> SUFFICES ASSUME Init PROVE Windows
  BY DEF Window
<1>1. Dated /\ InTime
  BY DEF Init, Dated, InTime
<1>2. RefundSeen /\ PastOnly
  BY DEF Init, RefundSeen, PastOnly
<1> QED
  BY <1>1, <1>2 DEF Windows

(* Counting failures and edits never goes back.                            *)
LEMMA StillUndisturbed ==
  ASSUME Typed, [Next]_vars, Undisturbed'
  PROVE  Undisturbed
<1>1. edits' \in {edits, edits + 1} /\ faults' \in {faults, faults + 1}
  <2>1. CASE UNCHANGED vars
    BY <2>1 DEF vars, eventVars
  <2>2. CASE Next
    <3>1. ASSUME NEW e \in Events, Submit(e) \/ Update(e)
          PROVE  edits' \in {edits, edits + 1} /\ faults' \in {faults, faults + 1}
      BY <3>1 DEF Submit, Update
    <3>2. CASE Tick
      BY <3>2 DEF Tick
    <3>3. ASSUME NEW h \in Handlers, HandlerStep(h)
          PROVE  edits' \in {edits, edits + 1} /\ faults' \in {faults, faults + 1}
      BY <3>3 DEF HandlerStep, BookStep, CancelStep, Reject, Expire, RollBack, BookBegin,
                  BookGrant, BookFunds, BookPay, BookCommit, CancelBegin, CancelRefund,
                  CancelCommit, eventVars
    <3>4. ASSUME NEW w \in Workers, WorkerStep(w)
          PROVE  edits' \in {edits, edits + 1} /\ faults' \in {faults, faults + 1}
      BY <3>4 DEF WorkerStep, ReleaseScan, ReleasePay, ReleaseMark, WorkerFails, eventVars
    <3> QED
      BY <2>2, <3>1, <3>2, <3>3, <3>4 DEF Next, OrganiserStep
  <2> QED
    BY <2>1, <2>2
<1> QED
  BY <1>1 DEF Undisturbed, Typed, TypeOK

(* A step that keeps the clock and the dates, moves no money to or from    *)
(* the business's escrow, and brings no handler into a cancellation nor    *)
(* out of a refund.                                                        *)
LEMMA WindowsQuiet ==
  ASSUME Windows, UNCHANGED <<now, startsAt, endsAt, refunds, releases>>,
         \A h \in Handlers :
           pc'[h] \in {"cancelling", "refunded"} => pc'[h] = pc[h] /\ open'[h] = open[h],
         \A h \in Handlers :
           pc[h] = "refunded" => pc'[h] = "refunded" /\ target'[h] = target[h],
         \A b \in BookingIds :
           refunds[b] > 0 /\ row[b].state = "cancelled" => row'[b].state = "cancelled",
         \A w \in Workers : batch'[w] \subseteq batch[w]
  PROVE  Windows'
<1>1. Dated' /\ InTime'
  BY DEF Windows, Dated, InTime, Past
<1>2. RefundSeen'
  BY DEF Windows, RefundSeen
<1>3. PastOnly'
  BY DEF Windows, PastOnly, Past
<1> QED
  BY <1>1, <1>2, <1>3 DEF Windows

(* A tick of the clock keeps the windows of cancel and release apart.      *)
LEMMA WindowsTick ==
  ASSUME Typed, Windows, Tick
  PROVE  Windows'
<1>1. now \in Int /\ End \in Int /\ now' = now + 1
  BY BookingConstants DEF Tick, Typed, TypeOK, Times
<1>2. UNCHANGED <<startsAt, endsAt, refunds, releases, row, pc, open, target, batch>>
  BY DEF Tick, ledgerVars, tableVars, handlerVars, workerVars
<1>3. Past => Past'
  BY <1>1 DEF Past
<1>4. InTime'
  <2> SUFFICES ASSUME NEW h \in Handlers, pc[h] \in {"cancelling", "refunded"}
               PROVE  open[h] /\ ~Past'
    BY <1>2 DEF InTime
  <2>1. row[target[h]].stall \in Stalls
    BY RowFacts DEF Typed, Args
  <2>2. EventOf[row[target[h]].stall] \in Events
    BY <2>1, BookingConstants
  <2>3. ~Cleared(EventOf[row[target[h]].stall], now + 1)
    BY DEF Tick
  <2>4. ~(End < (now + 1) - 1)
    BY <2>2, <2>3 DEF Cleared, Windows, Dated
  <2> QED
    BY <1>1, <2>4 DEF Windows, InTime, Past
<1>5. Dated' /\ RefundSeen'
  BY <1>2 DEF Windows, Dated, RefundSeen
<1>6. PastOnly'
  BY <1>2, <1>3 DEF Windows, PastOnly
<1> QED
  BY <1>4, <1>5, <1>6 DEF Windows

LEMMA WindowsBegin ==
  ASSUME Typed, Windows, NEW h \in Handlers, NEW b \in BookingIds, CancelBegin(h, b)
  PROVE  Windows'
<1>1. /\ pc[h] = "idle" /\ pc' = [pc EXCEPT ![h] = "cancelling"]
      /\ open' = [open EXCEPT ![h] = TRUE] /\ target' = [target EXCEPT ![h] = b]
      /\ UNCHANGED <<now, startsAt, endsAt, refunds, releases, row, batch>>
  BY DEF CancelBegin, eventVars, ledgerVars, tableVars, workerVars
<1>2. ~Past
  <2>1. row[b].stall \in Stalls
    BY RowFacts DEF CancelBegin, Typed, TypeOK
  <2>2. Start >= now
    BY <2>1, BookingConstants DEF CancelBegin, Windows, Dated
  <2> QED
    BY <2>2, BookingConstants DEF Past, Times, Typed, TypeOK
<1>3. InTime'
  BY <1>1, <1>2 DEF Windows, InTime, Past, Typed, TypeOK
<1>4. RefundSeen'
  BY <1>1 DEF Windows, RefundSeen, Typed, TypeOK
<1>5. Dated' /\ PastOnly'
  BY <1>1 DEF Windows, Dated, PastOnly, Past
<1> QED
  BY <1>3, <1>4, <1>5 DEF Windows

LEMMA WindowsRefund ==
  ASSUME Typed, Windows, NEW h \in Handlers, CancelRefund(h)
  PROVE  Windows'
<1>1. target[h] \in BookingIds /\ pc[h] = "cancelling"
  BY DEF CancelRefund, Typed, Args
<1>2. /\ refunds' = [refunds EXCEPT ![target[h]] = @ + 1]
      /\ pc' = [pc EXCEPT ![h] = "refunded"]
      /\ UNCHANGED <<now, startsAt, endsAt, releases, row, open, target, batch>>
  BY DEF CancelRefund, eventVars, tableVars, workerVars
<1>3. ~Past
  BY <1>1 DEF Windows, InTime
<1>4. InTime'
  BY <1>1, <1>2 DEF Windows, InTime, Past, Typed, TypeOK
<1>5. RefundSeen'
  BY <1>1, <1>2 DEF Windows, RefundSeen, Typed, TypeOK
<1>6. Dated' /\ PastOnly'
  BY <1>2, <1>3 DEF Windows, Dated, PastOnly, Past
<1> QED
  BY <1>4, <1>5, <1>6 DEF Windows

LEMMA WindowsCancel ==
  ASSUME Typed, Windows, NEW h \in Handlers, CancelCommit(h)
  PROVE  Windows'
<1>1. PICK b \in BookingIds, s \in Stalls :
        b = target[h] /\ s = row[b].stall /\ row[b] \in Rows
  BY RowFacts DEF CancelCommit, Typed, Args
<1>2. /\ CommitOn(h, s)
      /\ UNCHANGED <<now, startsAt, endsAt, refunds, releases, batch>>
  BY <1>1 DEF CancelCommit, eventVars, ledgerVars, workerVars
<1>3. row'[b].state = "cancelled" /\ \A c \in BookingIds \ {b} : row'[c] = row[c]
  BY <1>1 DEF CancelCommit, Typed, TypeOK, Rows
<1>4. \A g \in Handlers : pc'[g] \in {"cancelling", "refunded"} =>
        pc'[g] = pc[g] /\ open'[g] = open[g] /\ target'[g] = target[g]
  BY <1>2, CommitType DEF Typed
<1>5. \A g \in Handlers \ {h} : pc[g] = "refunded" =>
        pc'[g] = "refunded" /\ target'[g] = target[g]
  <2> SUFFICES ASSUME NEW g \in Handlers \ {h}, pc[g] = "refunded"
               PROVE  pc'[g] = "refunded" /\ target'[g] = target[g]
    OBVIOUS
  <2>1. g \notin Blocked(s)
    BY DEF Blocked
  <2> QED
    BY <1>2, <2>1, CommitType DEF Typed
<1>6. RefundSeen'
  BY <1>1, <1>2, <1>3, <1>5 DEF Windows, RefundSeen
<1>7. Dated' /\ InTime' /\ PastOnly'
  BY <1>2, <1>4 DEF Windows, Dated, InTime, PastOnly, Past
<1> QED
  BY <1>6, <1>7 DEF Windows

(* What the job reads was confirmed after its event cleared: nobody        *)
(* refunds it any more.                                                    *)
LEMMA WindowsScan ==
  ASSUME Typed, Windows, NEW w \in Workers, ReleaseScan(w)
  PROVE  Windows'
<1>1. /\ batch' = [batch EXCEPT ![w] = {b \in BookingIds : Due(b)}]
      /\ UNCHANGED <<now, startsAt, endsAt, refunds, releases, row, pc, open, target>>
  BY DEF ReleaseScan, eventVars, ledgerVars, tableVars, handlerVars
<1>2. \A b \in BookingIds : Due(b) => Past /\ refunds[b] = 0
  <2> SUFFICES ASSUME NEW b \in BookingIds, Due(b) PROVE Past /\ refunds[b] = 0
    OBVIOUS
  <2>1. row[b].stall \in Stalls /\ row[b].state = "confirmed"
    BY RowFacts DEF Due, Typed, TypeOK
  <2>2. Past
    BY <2>1, BookingConstants DEF Due, Cleared, Windows, Dated, Past
  <2>3. ~(refunds[b] > 0)
    BY <2>1, <2>2 DEF Windows, InTime, RefundSeen
  <2> QED
    BY <2>2, <2>3 DEF Typed, TypeOK
<1>3. PastOnly'
  BY <1>1, <1>2 DEF Windows, PastOnly, Past, Typed, TypeOK
<1>4. Dated' /\ InTime' /\ RefundSeen'
  BY <1>1 DEF Windows, Dated, InTime, RefundSeen, Past
<1> QED
  BY <1>3, <1>4 DEF Windows

LEMMA WindowsPay ==
  ASSUME Typed, Windows, NEW w \in Workers, ReleasePay(w)
  PROVE  Windows'
<1>1. PICK b \in batch[w] : /\ releases' = [releases EXCEPT ![b] = @ + 1]
                            /\ batch' = [batch EXCEPT ![w] = @ \ {b}]
  BY DEF ReleasePay
<1>2. b \in BookingIds /\ Past /\ refunds[b] = 0
  BY DEF Windows, PastOnly, Typed, TypeOK
<1>3. UNCHANGED <<now, startsAt, endsAt, refunds, row, pc, open, target>>
  BY DEF ReleasePay, eventVars, tableVars, handlerVars
<1>4. PastOnly'
  <2>1. \A x \in Workers : batch'[x] \subseteq batch[x]
    BY <1>1 DEF Typed, TypeOK
  <2>2. \A c \in BookingIds : releases'[c] > 0 => c = b \/ releases[c] > 0
    BY <1>1 DEF Typed, TypeOK
  <2> QED
    BY <1>2, <1>3, <2>1, <2>2 DEF Windows, PastOnly, Past
<1>5. Dated' /\ InTime' /\ RefundSeen'
  BY <1>3 DEF Windows, Dated, InTime, RefundSeen, Past
<1> QED
  BY <1>4, <1>5 DEF Windows
LEMMA WindowStep == Typed /\ Releases /\ Window /\ [Next]_vars => Window'
<1> SUFFICES ASSUME Typed, Releases, Windows, [Next]_vars, Undisturbed'
             PROVE  Windows'
  BY StillUndisturbed DEF Window
<1>0. edits' = 0 /\ faults' = 0 /\ Undisturbed
  BY StillUndisturbed DEF Undisturbed
<1>1. CASE UNCHANGED <<now, startsAt, endsAt, refunds, releases, row, pc, open, target, batch>>
  BY <1>1, WindowsQuiet
<1>2. ASSUME NEW e \in Events, Submit(e) PROVE Windows'
  BY <1>1, <1>2 DEF Submit, ledgerVars, tableVars, handlerVars, workerVars
<1>3. ASSUME NEW e \in Events, Update(e) PROVE Windows'
  BY <1>0, <1>3 DEF Update, Undisturbed
<1>4. ASSUME NEW h \in Handlers, Reject(h) PROVE Windows'
  <2>1. /\ pc[h] # "refunded" /\ pc' = [pc EXCEPT ![h] = "idle"] /\ Finish(h)
        /\ UNCHANGED <<now, startsAt, endsAt, refunds, releases, row, batch>>
    BY <1>4 DEF Reject, eventVars, ledgerVars, workerVars
  <2>2. pc'[h] = "idle" /\ \A g \in Handlers \ {h} :
          pc'[g] = pc[g] /\ open'[g] = open[g] /\ target'[g] = target[g]
    BY <2>1, FinishType DEF Typed
  <2> QED
    BY <2>1, <2>2, WindowsQuiet
<1>5. ASSUME NEW h \in Handlers, Expire(h) PROVE Windows'
  BY <1>0, <1>5 DEF Expire, Undisturbed
<1>6. ASSUME NEW h \in Handlers, RollBack(h) PROVE Windows'
  <2>1. ~open[h]
    BY <1>0, <1>6 DEF RollBack, Undisturbed
  <2>2. pc[h] # "refunded"
    BY <2>1 DEF Windows, InTime
  <2>3. /\ pc' = [pc EXCEPT ![h] = "idle"] /\ Finish(h)
        /\ UNCHANGED <<now, startsAt, endsAt, refunds, releases, row, batch>>
    BY <1>6 DEF RollBack, eventVars, ledgerVars, workerVars
  <2>4. pc'[h] = "idle" /\ \A g \in Handlers \ {h} :
          pc'[g] = pc[g] /\ open'[g] = open[g] /\ target'[g] = target[g]
    BY <2>3, FinishType DEF Typed
  <2> QED
    BY <2>2, <2>3, <2>4, WindowsQuiet
<1>7. ASSUME NEW h \in Handlers, NEW u \in Users, NEW s \in Stalls, BookBegin(h, u, s)
      PROVE  Windows'
  <2>1. /\ pc[h] = "idle" /\ open' = [open EXCEPT ![h] = TRUE]
        /\ UNCHANGED <<now, startsAt, endsAt, refunds, releases, row, target, batch>>
    BY <1>7 DEF BookBegin, eventVars, ledgerVars, workerVars
  <2>2. pc'[h] \in {"locked", "queued"} /\ \A g \in Handlers \ {h} : pc'[g] = pc[g]
    <3>1. CASE holder[s] = None
      BY <1>7, <3>1 DEF BookBegin, Typed, TypeOK
    <3>2. CASE holder[s] # None
      BY <1>7, <3>2 DEF BookBegin, Typed, TypeOK
    <3> QED
      BY <3>1, <3>2
  <2>3. \A g \in Handlers \ {h} : open'[g] = open[g]
    BY <2>1 DEF Typed, TypeOK
  <2> QED
    BY <2>1, <2>2, <2>3, WindowsQuiet
<1>8. ASSUME NEW h \in Handlers, BookGrant(h) \/ BookFunds(h) \/ BookPay(h)
      PROVE  Windows'
  <2>1. UNCHANGED <<now, startsAt, endsAt, refunds, releases, row, open, target, batch>>
    BY <1>8 DEF BookGrant, BookFunds, BookPay, eventVars, ledgerVars, tableVars, workerVars
  <2>2. /\ pc[h] \in {"queued", "locked", "funded"} /\ pc'[h] \in {"locked", "funded", "paid"}
        /\ \A g \in Handlers \ {h} : pc'[g] = pc[g]
    BY <1>8 DEF BookGrant, BookFunds, BookPay, Typed, TypeOK
  <2> QED
    BY <2>1, <2>2, WindowsQuiet
<1>9. ASSUME NEW h \in Handlers, BookCommit(h) PROVE Windows'
  <2>1. /\ at[h] \in Stalls /\ pc[h] = "paid" /\ CommitOn(h, at[h])
        /\ UNCHANGED <<now, startsAt, endsAt, refunds, releases, batch>>
    BY <1>9 DEF BookCommit, eventVars, ledgerVars, workerVars, Typed, Args
  <2>2. \A g \in Handlers : pc'[g] \in {"cancelling", "refunded"} =>
          pc'[g] = pc[g] /\ open'[g] = open[g]
    BY <2>1, CommitType DEF Typed
  <2>3. \A g \in Handlers : pc[g] = "refunded" =>
          pc'[g] = "refunded" /\ target'[g] = target[g]
    <3> SUFFICES ASSUME NEW g \in Handlers, pc[g] = "refunded"
                 PROVE  pc'[g] = "refunded" /\ target'[g] = target[g]
      OBVIOUS
    <3>1. g \notin {h} \cup Blocked(at[h])
      BY <2>1 DEF Blocked
    <3> QED
      BY <2>1, <3>1, CommitType DEF Typed
  <2>4. \A b \in BookingIds : row[b].state = "cancelled" => row'[b].state = "cancelled"
    BY <1>9, RowFacts DEF BookCommit, Typed, TypeOK
  <2> QED
    BY <2>1, <2>2, <2>3, <2>4, WindowsQuiet
<1>10. ASSUME NEW w \in Workers, ReleaseMark(w) PROVE Windows'
  <2>1. PICK b \in BookingIds : b = paying[w] /\ releases[b] >= 1
    BY <1>10 DEF ReleaseMark, Releases, Typed, TypeOK
  <2>2. refunds[b] = 0
    BY <2>1 DEF Windows, PastOnly, Typed, TypeOK
  <2>3. \A c \in BookingIds \ {b} : row'[c] = row[c]
    BY <1>10, <2>1 DEF ReleaseMark, Typed, TypeOK
  <2>4. \A c \in BookingIds :
          refunds[c] > 0 /\ row[c].state = "cancelled" => row'[c].state = "cancelled"
    BY <2>2, <2>3
  <2>5. UNCHANGED <<now, startsAt, endsAt, refunds, releases, pc, open, target, batch>>
    BY <1>10 DEF ReleaseMark, eventVars, ledgerVars, handlerVars
  <2> QED
    BY <2>4, <2>5, WindowsQuiet
<1>11. ASSUME NEW w \in Workers, WorkerFails(w) PROVE Windows'
  BY <1>0, <1>11 DEF WorkerFails, Undisturbed
<1>12. CASE UNCHANGED vars
  BY <1>1, <1>12 DEF vars, eventVars, ledgerVars, tableVars, handlerVars, workerVars
<1> QED
  BY <1>2, <1>3, <1>4, <1>5, <1>6, <1>7, <1>8, <1>9, <1>10, <1>11, <1>12, WindowsTick,
     WindowsBegin, WindowsRefund, WindowsCancel, WindowsScan, WindowsPay
     DEF Next, OrganiserStep, HandlerStep, BookStep, CancelStep, WorkerStep

LEMMA WindowAlways == Spec => []Window
<1>1. Settlement => Releases
  BY DEF Settlement
<1> QED
  BY <1>1, TypedAlways, SettlementAlways, WindowInit, WindowStep, PTL DEF Spec

LEMMA WindowFollows == Typed /\ Window => RefundedOrReleased
<1> SUFFICES ASSUME Typed, PastOnly, NEW b \in BookingIds
             PROVE  refunds[b] = 0 \/ releases[b] = 0
  BY DEF Window, Windows, Undisturbed, RefundedOrReleased
<1>1. releases[b] \in Nat
  BY DEF Typed, TypeOK
<1> QED
  BY <1>1 DEF PastOnly

(* With dates nobody edits and no failure after money has moved, no        *)
(* booking is both refunded to its vendor and released to its organiser,   *)
(* although cancel() and the job each decide alone.                        *)
THEOREM NeverBoth == Spec => []RefundedOrReleased
BY TypedAlways, WindowAlways, WindowFollows, PTL

-----------------------------------------------------------------------------
(* Refinement.  What holds of the requests and of the job while Orderly    *)
(* does.  No transaction dies, what has been charged was a valid list of   *)
(* legs, a cancellation's target is confirmed until it commits, and so is  *)
(* every booking in a worker's hand until it is marked.                    *)
Alive ==
  \A h \in Handlers : pc[h] \in {"queued", "locked", "funded", "paid"} => open[h]
LegsValid ==
  \A h \in Handlers : pc[h] = "paid" => Valid(BookLegs(who[h], at[h]))
TargetsConfirmed ==
  \A h \in Handlers :
    pc[h] \in {"cancelling", "refunded"} => row[target[h]].state = "confirmed"
HandsConfirmed ==
  \A w \in Workers : /\ \A b \in batch[w] : row[b].state = "confirmed"
                     /\ paying[w] # None => row[paying[w]].state = "confirmed"
                     /\ paying[w] \notin batch[w]

Sound == Alive /\ LegsValid /\ TargetsConfirmed /\ HandsConfirmed

LEMMA SoundInit == Init => Sound
BY DEF Init, Sound, Alive, LegsValid, TargetsConfirmed, HandsConfirmed

(* Handlers that are where they were, or idle.                             *)
LEMMA HandlersKept ==
  ASSUME Alive, LegsValid,
         \A h \in Handlers : pc'[h] \in {"queued", "locked", "funded", "paid"} =>
           pc'[h] = pc[h] /\ open'[h] = open[h] /\ who'[h] = who[h] /\ at'[h] = at[h]
  PROVE  Alive' /\ LegsValid'
<1>1. Alive'
  BY DEF Alive
<1>2. LegsValid'
  <2> SUFFICES ASSUME NEW h \in Handlers, pc'[h] = "paid"
               PROVE  Valid(BookLegs(who'[h], at'[h]))
    BY DEF LegsValid
  <2>1. pc[h] = "paid" /\ who'[h] = who[h] /\ at'[h] = at[h]
    OBVIOUS
  <2> QED
    BY <2>1 DEF LegsValid
<1> QED
  BY <1>1, <1>2

(* Rows that stay confirmed, and targets that were there.                  *)
LEMMA TargetsKept ==
  ASSUME TargetsConfirmed, Args,
         \A h \in Handlers : pc'[h] \in {"cancelling", "refunded"} =>
           /\ pc[h] \in {"cancelling", "refunded"} /\ target'[h] = target[h]
           /\ row[target[h]].state = "confirmed" => row'[target[h]].state = "confirmed"
  PROVE  TargetsConfirmed'
BY DEF TargetsConfirmed

LEMMA HandsKept ==
  ASSUME Typed, HandsConfirmed, UNCHANGED <<batch, paying>>,
         \A w \in Workers, b \in BookingIds :
           (b \in batch[w] \/ paying[w] = b) /\ row[b].state = "confirmed"
             => row'[b].state = "confirmed"
  PROVE  HandsConfirmed'
BY DEF HandsConfirmed, Typed, TypeOK

(* The windows keep what is refunded apart from what is in hand.           *)
LEMMA Apart ==
  ASSUME Typed, Refunds, Releases, Windows,
         NEW w \in Workers, NEW b \in BookingIds, b \in batch[w] \/ paying[w] = b
  PROVE  /\ Past /\ refunds[b] = 0
         /\ \A h \in Handlers : pc[h] \in {"cancelling", "refunded"} => target[h] # b
<1>1. Past /\ refunds[b] = 0
  <2>1. CASE b \in batch[w]
    BY <2>1 DEF Windows, PastOnly
  <2>2. CASE paying[w] = b
    <3>1. releases[b] >= 1
      BY <2>2, BookingConstants DEF Releases
    <3> QED
      BY <3>1 DEF Windows, PastOnly, Typed, TypeOK
  <2> QED
    BY <2>1, <2>2
<1> QED
  BY <1>1 DEF Windows, InTime

LEMMA SoundStep ==
  Typed /\ Settlement /\ Window /\ Sound /\ Orderly /\ Orderly' /\ [Next]_vars => Sound'
<1> SUFFICES ASSUME Typed, Refunds, Releases, Windows, Alive, LegsValid, TargetsConfirmed,
                    HandsConfirmed, Orderly, Orderly', [Next]_vars
             PROVE  Sound'
  BY DEF Settlement, Window, Undisturbed, Orderly, Sound
<1> USE DEF Sound
<1>1. edits = 0 /\ faults = 0 /\ edits' = 0 /\ faults' = 0
  BY DEF Orderly
<1>2. CASE UNCHANGED <<row, handlerVars, workerVars>>
  BY <1>2 DEF handlerVars, workerVars, Alive, LegsValid, TargetsConfirmed, HandsConfirmed
<1>3. ASSUME NEW e \in Events, Update(e) PROVE FALSE
  BY <1>1, <1>3 DEF Update
<1>4. ASSUME NEW h \in Handlers, Expire(h) PROVE FALSE
  BY <1>1, <1>4 DEF Expire
<1>5. ASSUME NEW h \in Handlers, RollBack(h) PROVE FALSE
  <2>1. open[h]
    BY <1>5 DEF RollBack, Alive, Windows, InTime
  <2> QED
    BY <1>1, <1>5, <2>1 DEF RollBack
<1>6. ASSUME NEW w \in Workers, WorkerFails(w) PROVE FALSE
  BY <1>1, <1>6 DEF WorkerFails
<1>7. ASSUME NEW h \in Handlers, Reject(h) PROVE Sound'
  <2>1. /\ pc' = [pc EXCEPT ![h] = "idle"] /\ Finish(h) /\ row' = row
        /\ UNCHANGED <<batch, paying>>
    BY <1>7 DEF Reject, workerVars
  <2>2. pc'[h] = "idle" /\ \A g \in Handlers \ {h} :
          /\ pc'[g] = pc[g] /\ open'[g] = open[g] /\ who'[g] = who[g]
          /\ at'[g] = at[g] /\ target'[g] = target[g]
    BY <2>1, FinishType DEF Typed
  <2>3. Alive' /\ LegsValid'
    BY <2>2, HandlersKept
  <2>4. TargetsConfirmed'
    BY <2>1, <2>2, TargetsKept DEF Typed
  <2>5. HandsConfirmed'
    BY <2>1, HandsKept
  <2> QED
    BY <2>3, <2>4, <2>5
<1>8. ASSUME NEW h \in Handlers, NEW u \in Users, NEW s \in Stalls, BookBegin(h, u, s)
      PROVE  Sound'
  <2>1. /\ open' = [open EXCEPT ![h] = TRUE] /\ UNCHANGED <<row, target, batch, paying>>
        /\ who' = [who EXCEPT ![h] = u] /\ at' = [at EXCEPT ![h] = s]
    BY <1>8 DEF BookBegin, workerVars
  <2>2. pc'[h] \in {"locked", "queued"} /\ \A g \in Handlers \ {h} : pc'[g] = pc[g]
    <3>1. CASE holder[s] = None
      BY <1>8, <3>1 DEF BookBegin, Typed, TypeOK
    <3>2. CASE holder[s] # None
      BY <1>8, <3>2 DEF BookBegin, Typed, TypeOK
    <3> QED
      BY <3>1, <3>2
  <2>3. open'[h] /\ \A g \in Handlers \ {h} :
          open'[g] = open[g] /\ who'[g] = who[g] /\ at'[g] = at[g]
    BY <2>1 DEF Typed, TypeOK
  <2>4. Alive'
    BY <2>2, <2>3 DEF Alive
  <2>5. LegsValid'
    <3>1. \A g \in Handlers : pc'[g] = "paid" =>
            pc[g] = "paid" /\ who'[g] = who[g] /\ at'[g] = at[g]
      BY <2>2, <2>3
    <3> QED
      BY <3>1 DEF LegsValid
  <2>6. TargetsConfirmed'
    BY <2>1, <2>2 DEF TargetsConfirmed
  <2>7. HandsConfirmed'
    BY <2>1, HandsKept
  <2> QED
    BY <2>4, <2>5, <2>6, <2>7
<1>9. ASSUME NEW h \in Handlers, BookGrant(h) \/ BookFunds(h) \/ BookPay(h) PROVE Sound'
  <2>1. UNCHANGED <<row, open, who, at, target, batch, paying>>
    BY <1>9 DEF BookGrant, BookFunds, BookPay, tableVars, workerVars
  <2>2. /\ pc[h] \in {"queued", "locked", "funded"} /\ pc'[h] \in {"locked", "funded", "paid"}
        /\ \A g \in Handlers \ {h} : pc'[g] = pc[g]
    BY <1>9 DEF BookGrant, BookFunds, BookPay, Typed, TypeOK
  <2>3. pc'[h] = "paid" => Valid(BookLegs(who[h], at[h]))
    BY <1>9 DEF BookGrant, BookFunds, BookPay, Transfer, Typed, TypeOK
  <2>4. Alive'
    BY <2>1, <2>2 DEF Alive
  <2>5. LegsValid'
    <3> SUFFICES ASSUME NEW g \in Handlers, pc'[g] = "paid"
                 PROVE  Valid(BookLegs(who[g], at[g]))
      BY <2>1 DEF LegsValid
    <3> QED
      BY <2>2, <2>3 DEF LegsValid
  <2>6. TargetsConfirmed'
    BY <2>1, <2>2 DEF TargetsConfirmed
  <2>7. HandsConfirmed'
    BY <2>1, HandsKept
  <2> QED
    BY <2>4, <2>5, <2>6, <2>7
<1>10. ASSUME NEW h \in Handlers, BookCommit(h) PROVE Sound'
  <2>1. /\ at[h] \in Stalls /\ CommitOn(h, at[h]) /\ UNCHANGED <<batch, paying>>
    BY <1>10 DEF BookCommit, workerVars, Typed, Args
  <2>2. \A b \in BookingIds : row[b].state = "confirmed" => row'[b].state = "confirmed"
    BY <1>10 DEF BookCommit, Typed, TypeOK
  <2>3. \A g \in Handlers : pc'[g] # "idle" =>
          /\ pc'[g] = pc[g] /\ open'[g] = open[g] /\ who'[g] = who[g]
          /\ at'[g] = at[g] /\ target'[g] = target[g]
    BY <2>1, CommitType DEF Typed
  <2>4. Alive' /\ LegsValid'
    BY <2>3, HandlersKept
  <2>5. TargetsConfirmed'
    BY <2>2, <2>3, TargetsKept DEF Typed, Args
  <2>6. HandsConfirmed'
    BY <2>1, <2>2, HandsKept
  <2> QED
    BY <2>4, <2>5, <2>6
<1>11. ASSUME NEW h \in Handlers, NEW b \in BookingIds, CancelBegin(h, b) PROVE Sound'
  <2>1. /\ pc' = [pc EXCEPT ![h] = "cancelling"] /\ target' = [target EXCEPT ![h] = b]
        /\ open' = [open EXCEPT ![h] = TRUE] /\ row[b].state = "confirmed"
        /\ UNCHANGED <<row, who, at, batch, paying>>
    BY <1>11 DEF CancelBegin, tableVars, workerVars
  <2>2. /\ pc'[h] = "cancelling" /\ target'[h] = b
        /\ \A g \in Handlers \ {h} :
             pc'[g] = pc[g] /\ target'[g] = target[g] /\ open'[g] = open[g]
    BY <2>1 DEF Typed, TypeOK
  <2>3. Alive' /\ LegsValid'
    BY <2>1, <2>2, HandlersKept
  <2>4. TargetsConfirmed'
    BY <2>1, <2>2 DEF TargetsConfirmed
  <2>5. HandsConfirmed'
    BY <2>1, HandsKept
  <2> QED
    BY <2>3, <2>4, <2>5
<1>12. ASSUME NEW h \in Handlers, CancelRefund(h) PROVE Sound'
  <2>1. /\ pc[h] = "cancelling" /\ pc' = [pc EXCEPT ![h] = "refunded"]
        /\ UNCHANGED <<row, open, who, at, target, batch, paying>>
    BY <1>12 DEF CancelRefund, tableVars, workerVars
  <2>2. pc'[h] = "refunded" /\ \A g \in Handlers \ {h} : pc'[g] = pc[g]
    BY <2>1 DEF Typed, TypeOK
  <2>3. Alive' /\ LegsValid'
    BY <2>1, <2>2, HandlersKept
  <2>4. TargetsConfirmed'
    BY <2>1, <2>2 DEF TargetsConfirmed
  <2>5. HandsConfirmed'
    BY <2>1, HandsKept
  <2> QED
    BY <2>3, <2>4, <2>5
<1>13. ASSUME NEW h \in Handlers, CancelCommit(h) PROVE Sound'
  <2>1. PICK b \in BookingIds, s \in Stalls :
          b = target[h] /\ s = row[b].stall /\ row[b] \in Rows /\ pc[h] = "refunded"
    BY <1>13, RowFacts DEF CancelCommit, Typed, Args
  <2>2. CommitOn(h, s) /\ UNCHANGED <<batch, paying>>
    BY <1>13, <2>1 DEF CancelCommit, workerVars
  <2>3. \A c \in BookingIds \ {b} : row'[c] = row[c]
    BY <1>13, <2>1 DEF CancelCommit, Typed, TypeOK, Rows
  <2>4. \A g \in Handlers : pc'[g] # "idle" =>
          /\ g # h /\ pc'[g] = pc[g] /\ open'[g] = open[g] /\ who'[g] = who[g]
          /\ at'[g] = at[g] /\ target'[g] = target[g]
    BY <2>2, CommitType DEF Typed
  <2>5. Alive' /\ LegsValid'
    BY <2>4, HandlersKept
  <2>6. \A g \in Handlers \ {h} : target[g] # b
    BY <2>1, BookingConstants DEF Orderly
  <2>7. TargetsConfirmed'
    BY <2>3, <2>4, <2>6, TargetsKept DEF Typed, Args
  <2>8. \A w \in Workers : b \notin batch[w] /\ paying[w] # b
    BY <2>1, Apart
  <2>9. HandsConfirmed'
    BY <2>2, <2>3, <2>8, HandsKept
  <2> QED
    BY <2>5, <2>7, <2>9
<1>14. ASSUME NEW w \in Workers, ReleaseScan(w) PROVE Sound'
  <2>1. /\ batch' = [batch EXCEPT ![w] = {b \in BookingIds : Due(b)}] /\ paying[w] = None
        /\ UNCHANGED <<row, pc, open, who, at, target, paying>>
    BY <1>14 DEF ReleaseScan, tableVars, handlerVars
  <2>2. \A b \in BookingIds : Due(b) => row[b].state = "confirmed"
    BY DEF Due
  <2>3. Alive' /\ LegsValid' /\ TargetsConfirmed'
    BY <2>1 DEF Alive, LegsValid, TargetsConfirmed
  <2>4. HandsConfirmed'
    BY <2>1, <2>2, BookingConstants DEF HandsConfirmed, Typed, TypeOK
  <2> QED
    BY <2>3, <2>4
<1>15. ASSUME NEW w \in Workers, ReleasePay(w) PROVE Sound'
  <2>1. PICK b \in batch[w] : /\ paying' = [paying EXCEPT ![w] = b]
                              /\ batch' = [batch EXCEPT ![w] = @ \ {b}]
    BY <1>15 DEF ReleasePay
  <2>2. UNCHANGED <<row, pc, open, who, at, target>>
    BY <1>15 DEF ReleasePay, tableVars, handlerVars
  <2>3. Alive' /\ LegsValid' /\ TargetsConfirmed'
    BY <2>2 DEF Alive, LegsValid, TargetsConfirmed
  <2>4. HandsConfirmed'
    BY <2>1, <2>2 DEF HandsConfirmed, Typed, TypeOK
  <2> QED
    BY <2>3, <2>4
<1>16. ASSUME NEW w \in Workers, ReleaseMark(w) PROVE Sound'
  <2>1. PICK b \in BookingIds : b = paying[w]
    BY <1>16 DEF ReleaseMark, Typed, TypeOK
  <2>2. /\ paying' = [paying EXCEPT ![w] = None]
        /\ UNCHANGED <<pc, open, who, at, target, batch>>
        /\ \A c \in BookingIds \ {b} : row'[c] = row[c]
    BY <1>16, <2>1 DEF ReleaseMark, handlerVars, Typed, TypeOK
  <2>3. Alive' /\ LegsValid'
    BY <2>2 DEF Alive, LegsValid
  <2>4. \A h \in Handlers : pc[h] \in {"cancelling", "refunded"} => target[h] # b
    BY <2>1, Apart
  <2>5. TargetsConfirmed'
    BY <2>2, <2>4, TargetsKept DEF Typed, Args
  <2>6. b \notin batch[w]
    BY <2>1 DEF HandsConfirmed
  <2>7. \A v \in Workers \ {w} : b \notin batch[v] /\ paying[v] # b
    BY <2>1 DEF Orderly, InHand
  <2>8. HandsConfirmed'
    <3>1. \A v \in Workers : \A c \in batch'[v] : c \in batch[v] /\ c \in BookingIds /\ c # b
      BY <2>2, <2>6, <2>7 DEF Typed, TypeOK
    <3>2. \A v \in Workers : \/ paying'[v] = None
                             \/ paying'[v] = paying[v] /\ paying[v] # b
      BY <2>2, <2>7 DEF Typed, TypeOK
    <3>3. \A v \in Workers : None \notin batch[v]
                              /\ (paying[v] # None => paying[v] \in BookingIds)
      BY BookingConstants DEF Typed, TypeOK
    <3> QED
      BY <2>2, <3>1, <3>2, <3>3 DEF HandsConfirmed
  <2> QED
    BY <2>3, <2>5, <2>8
<1>17. CASE Tick \/ \E e \in Events : Submit(e)
  BY <1>2, <1>17 DEF Tick, Submit, tableVars
<1>18. CASE UNCHANGED vars
  BY <1>2, <1>18 DEF vars, tableVars
<1> QED
  BY <1>3, <1>4, <1>5, <1>6, <1>7, <1>8, <1>9, <1>10, <1>11, <1>12, <1>13, <1>14, <1>15,
     <1>16, <1>17, <1>18
     DEF Next, OrganiserStep, HandlerStep, BookStep, CancelStep, WorkerStep

-----------------------------------------------------------------------------
(* The mapping.  The wallets that the promise sees are typed, differ from  *)
(* the real ones by what bookings under way have paid, and are no lower    *)
(* for a vendor or an organiser.                                           *)
LEMMA PaidTyped ==
  ASSUME Typed, NEW o
  PROVE  /\ DOMAIN PaidSpots(o) = Handlers /\ DOMAIN PaidHelds(o) = Handlers
         /\ \A h \in Handlers : PaidSpots(o)[h] \in Int /\ PaidHelds(o)[h] \in Int
         /\ SumFunction(PaidSpots(o)) \in Int /\ SumFunction(PaidHelds(o)) \in Int
<1>1. \A h \in Handlers : PaidSpots(o)[h] \in Int /\ PaidHelds(o)[h] \in Int
  <2> SUFFICES ASSUME NEW h \in Handlers
               PROVE  PaidSpots(o)[h] \in Int /\ PaidHelds(o)[h] \in Int
    OBVIOUS
  <2>1. CASE pc[h] = "paid"
    <3>1. at[h] \in Stalls
      BY <2>1 DEF Typed, Args
    <3> QED
      BY <2>1, <3>1, AmountFacts DEF PaidSpots, PaidHelds
  <2>2. CASE pc[h] # "paid"
    BY <2>2 DEF PaidSpots, PaidHelds
  <2> QED
    BY <2>1, <2>2
<1>2. DOMAIN PaidSpots(o) = Handlers /\ DOMAIN PaidHelds(o) = Handlers
  BY DEF PaidSpots, PaidHelds
<1>3. /\ SumFunctionOnSet(PaidSpots(o), Handlers) \in Int
      /\ SumFunctionOnSet(PaidHelds(o), Handlers) \in Int
  BY <1>1, BookingConstants, SumType
<1> QED
  BY <1>1, <1>2, <1>3 DEF SumFunction

Seen ==
  /\ Committed \in [Owners -> WalletRow]
  /\ \A o \in Owners :
       /\ Committed[o].available = wallets[o].available - SumFunction(PaidSpots(o))
       /\ Committed[o].pending = wallets[o].pending - SumFunction(PaidHelds(o))
       /\ \A h \in Handlers : PaidSpots(o)[h] \in Int /\ PaidHelds(o)[h] \in Int
  /\ \A o \in Users \cup Businesses : Committed[o].available >= 0

LEMMA CommittedTyped ==
  ASSUME Typed
  PROVE  /\ Committed \in [Owners -> WalletRow]
         /\ \A o \in Owners :
              /\ Committed[o].available = wallets[o].available - SumFunction(PaidSpots(o))
              /\ Committed[o].pending = wallets[o].pending - SumFunction(PaidHelds(o))
<1>1. \A o \in Owners : wallets[o].available \in Int /\ wallets[o].pending \in Int
  BY DEF Typed, TypeOK, WalletRow
<1> QED
  BY <1>1, PaidTyped DEF Committed, WalletRow

(* Vendors and organisers receive nothing available when a stall is booked. *)
LEMMA CommittedCovered ==
  ASSUME Typed, NEW o \in Users \cup Businesses
  PROVE  Committed[o].available >= 0
<1>1. o \in Owners /\ o # House
  BY OwnersDistinct DEF Owners
<1>2. \A h \in Handlers : PaidSpots(o)[h] \in Int /\ PaidSpots(o)[h] <= 0
  <2> SUFFICES ASSUME NEW h \in Handlers
               PROVE  PaidSpots(o)[h] \in Int /\ PaidSpots(o)[h] <= 0
    OBVIOUS
  <2>1. CASE pc[h] = "paid"
    <3>1. at[h] \in Stalls /\ Price[at[h]] \in Nat
      BY <2>1, BookingConstants DEF Typed, Args
    <3>2. PaidSpots(o)[h] = IF o = who[h] THEN -Price[at[h]] + 0 ELSE 0 + 0
      BY <1>1, <2>1 DEF PaidSpots, Spot
    <3> QED
      BY <3>1, <3>2
  <2>2. CASE pc[h] # "paid"
    BY <2>2 DEF PaidSpots
  <2> QED
    BY <2>1, <2>2
<1>3. SumFunction(PaidSpots(o)) <= 0 /\ SumFunction(PaidSpots(o)) \in Int
  <2> DEFINE zero == [h \in Handlers |-> 0]
  <2>1. \A h \in Handlers : zero[h] = 0
    OBVIOUS
  <2> HIDE DEF zero
  <2>2. SumFunctionOnSet(zero, Handlers) = 0
    BY <2>1, BookingConstants, SumZero
  <2>3. SumFunctionOnSet(PaidSpots(o), Handlers) <= SumFunctionOnSet(zero, Handlers)
    <3>1. PICK f : f = PaidSpots(o)
      OBVIOUS
    <3>2. \A h \in Handlers : f[h] \in Int /\ zero[h] \in Int /\ f[h] <= zero[h]
      BY <1>2, <2>1, <3>1
    <3>3. SumFunctionOnSet(f, Handlers) <= SumFunctionOnSet(zero, Handlers)
      BY <3>2, BookingConstants, SumAtMost
    <3> QED
      BY <3>1, <3>3
  <2> QED
    BY <2>2, <2>3, PaidTyped DEF SumFunction
<1>4. wallets[o].available >= 0 /\ wallets[o].available \in Int
  BY <1>1 DEF Typed, TypeOK, Solvent, WalletRow
<1> QED
  BY <1>1, <1>3, <1>4, CommittedTyped

LEMMA SeenNow == Typed => Seen
BY CommittedTyped, CommittedCovered, PaidTyped DEF Seen

LEMMA SeenNext == Typed' => Seen'
BY SeenNow, PTL

LEMMA SameWallets ==
  ASSUME NEW v \in [Owners -> WalletRow], NEW w \in [Owners -> WalletRow],
         \A o \in Owners : v[o].available = w[o].available /\ v[o].pending = w[o].pending
  PROVE  v = w
<1>1. \A o \in Owners : v[o] = w[o]
  <2> SUFFICES ASSUME NEW o \in Owners PROVE v[o] = w[o]
    OBVIOUS
  <2>1. v[o] \in WalletRow /\ w[o] \in WalletRow
    OBVIOUS
  <2> QED
    BY <2>1 DEF WalletRow
<1> QED
  BY <1>1

(* A transfer that the database grants is one that the promise grants.     *)
LEMMA PromiseTransfers ==
  ASSUME Typed', NEW legs, Valid(legs), Committed' = Posted(Committed, legs)
  PROVE  Promise!Transfer(legs)
<1>1. BalanceCheck(Committed')
  BY SeenNext DEF Seen, BalanceCheck
<1>2. Promise!Valid(legs)
  BY DEF Promise!Valid, Valid, Promise!Signed, Signed, Promise!MaxLegs, MaxLegs
<1>3. Promise!Posted(Committed, legs) = Posted(Committed, legs)
  BY DEF Promise!Posted, Posted, Promise!Apply, Apply, Promise!MaxLegs, MaxLegs,
         Promise!Signed, Signed
<1> QED
  BY <1>1, <1>2, <1>3 DEF Promise!Transfer, Promise!BalanceCheck, BalanceCheck

(* What one handler has paid changes the sums by as much.                  *)
SamePaid(g) ==
  /\ pc'[g] = "paid" <=> pc[g] = "paid"
  /\ pc[g] = "paid" => who'[g] = who[g] /\ at'[g] = at[g]

LEMMA PaidChange ==
  ASSUME Typed, Typed', NEW h \in Handlers, \A g \in Handlers \ {h} : SamePaid(g),
         NEW o \in Owners
  PROVE  /\ SumFunction(PaidSpots(o)')
              = SumFunction(PaidSpots(o)) + PaidSpots(o)'[h] - PaidSpots(o)[h]
         /\ SumFunction(PaidHelds(o)')
              = SumFunction(PaidHelds(o)) + PaidHelds(o)'[h] - PaidHelds(o)[h]
<1>1. PICK f, g, k, l : /\ f = PaidSpots(o) /\ g = PaidSpots(o)'
                        /\ k = PaidHelds(o) /\ l = PaidHelds(o)'
  OBVIOUS
<1>2. \A x \in Handlers : f[x] \in Int /\ g[x] \in Int /\ k[x] \in Int /\ l[x] \in Int
  BY <1>1, SeenNow, SeenNext DEF Seen
<1>3. \A x \in Handlers : x # h => g[x] = f[x] /\ l[x] = k[x]
  BY <1>1 DEF SamePaid, PaidSpots, PaidHelds
<1>4. DOMAIN f = Handlers /\ DOMAIN g = Handlers /\ DOMAIN k = Handlers /\ DOMAIN l = Handlers
  BY <1>1 DEF PaidSpots, PaidHelds
<1>5. SumFunctionOnSet(g, Handlers) = SumFunctionOnSet(f, Handlers) + g[h] - f[h]
  BY <1>2, <1>3, BookingConstants, SumChange
<1>6. SumFunctionOnSet(l, Handlers) = SumFunctionOnSet(k, Handlers) + l[h] - k[h]
  BY <1>2, <1>3, BookingConstants, SumChange
<1> QED
  BY <1>1, <1>4, <1>5, <1>6 DEF SumFunction

LEMMA MoneySame ==
  ASSUME wallets' = wallets, \A g \in Handlers : SamePaid(g)
  PROVE  Committed' = Committed
<1>1. \A o : PaidSpots(o)' = PaidSpots(o) /\ PaidHelds(o)' = PaidHelds(o)
  BY DEF SamePaid, PaidSpots, PaidHelds
<1> QED
  BY <1>1 DEF Committed

(* Money that a transfer moves at once is moved in the promise too.        *)
Moves(from, to, x, y) ==
  \A o \in Owners : /\ to[o].available = from[o].available + x[o]
                    /\ to[o].pending = from[o].pending + y[o]

LEMMA MoneyMoves ==
  ASSUME Typed, Typed', NEW legs, Transfer(legs),
         Posted(Committed, legs) \in [Owners -> WalletRow],
         NEW x \in [Owners -> Int], NEW y \in [Owners -> Int],
         Moves(wallets, wallets', x, y), Moves(Committed, Posted(Committed, legs), x, y),
         \A g \in Handlers : SamePaid(g)
  PROVE  Promise!Transfer(legs)
<1>1. \A o : PaidSpots(o)' = PaidSpots(o) /\ PaidHelds(o)' = PaidHelds(o)
  BY DEF SamePaid, PaidSpots, PaidHelds
<1>2. Seen /\ Seen'
  BY SeenNow, SeenNext
<1>3. PICK c, d, to : c = Committed /\ d = Committed' /\ to = Posted(Committed, legs)
  OBVIOUS
<1>4. \A o \in Owners : d[o].available = to[o].available /\ d[o].pending = to[o].pending
  <2> SUFFICES ASSUME NEW o \in Owners
               PROVE  d[o].available = to[o].available /\ d[o].pending = to[o].pending
    OBVIOUS
  <2>1. PICK m, n : m = SumFunction(PaidSpots(o)) /\ n = SumFunction(PaidHelds(o))
    OBVIOUS
  <2>2. m \in Int /\ n \in Int
    BY <2>1, PaidTyped
  <2>3. /\ c[o].available = wallets[o].available - m
        /\ c[o].pending = wallets[o].pending - n
        /\ d[o].available = wallets'[o].available - m
        /\ d[o].pending = wallets'[o].pending - n
    BY <1>1, <1>2, <1>3, <2>1 DEF Seen
  <2>4. wallets[o].available \in Int /\ wallets[o].pending \in Int
    BY DEF Typed, TypeOK, WalletRow
  <2>5. /\ wallets'[o].available = wallets[o].available + x[o]
        /\ wallets'[o].pending = wallets[o].pending + y[o]
        /\ to[o].available = c[o].available + x[o]
        /\ to[o].pending = c[o].pending + y[o]
        /\ x[o] \in Int /\ y[o] \in Int
    BY <1>3 DEF Moves
  <2>6. \A w, i, j \in Int : (w + i) - j = (w - j) + i
    OBVIOUS
  <2> QED
    BY <2>2, <2>3, <2>4, <2>5, <2>6
<1>5. d \in [Owners -> WalletRow] /\ to \in [Owners -> WalletRow]
  BY <1>2, <1>3 DEF Seen
<1>6. Committed' = Posted(Committed, legs)
  BY <1>3, <1>4, <1>5, SameWallets
<1> QED
  BY <1>6, PromiseTransfers DEF Transfer

(* Rows and slots nothing has happened to.                                 *)
SameBooking(b) ==
  /\ row'[b] = row[b]
  /\ Refunded(b)' <=> Refunded(b)
  /\ Releasing(b)' <=> Releasing(b)

LEMMA RowsSame ==
  ASSUME booked' = booked, \A b \in BookingIds : SameBooking(b)
  PROVE  PromisedRows' = PromisedRows /\ PromisedSeats' = PromisedSeats
<1>1. PromisedRows' = PromisedRows
  BY DEF SameBooking, PromisedRows
<1>2. \A s \in Stalls : {b \in RowsAt(s)' : Refunded(b)'} = {b \in RowsAt(s) : Refunded(b)}
  BY DEF SameBooking, RowsAt
<1>3. PromisedSeats' = PromisedSeats
  BY <1>2 DEF PromisedSeats
<1> QED
  BY <1>1, <1>3

LEMMA NothingHappens ==
  ASSUME wallets' = wallets, booked' = booked,
         \A b \in BookingIds : SameBooking(b), \A g \in Handlers : SamePaid(g)
  PROVE  UNCHANGED Promise!pvars
BY MoneySame, RowsSame DEF Promise!pvars

(* What the row and the slots of a booking are in the promise.             *)
LEMMA CountsTyped ==
  ASSUME NEW s
  PROVE  /\ IsFiniteSet({b \in RowsAt(s) : Refunded(b)})
         /\ Cardinality({b \in RowsAt(s) : Refunded(b)}) \in Nat
<1>1. {b \in RowsAt(s) : Refunded(b)} \in SUBSET BookingIds
  BY DEF RowsAt
<1> QED
  BY <1>1, BookingConstants, FS_Subset, FS_CardinalityType

-----------------------------------------------------------------------------
(* Steps.  Everything proved so far, of a state between two orderly steps. *)
Steady ==
  Typed /\ Seats /\ Refunds /\ Releases /\ Windows /\ Sound /\ Orderly

SameRefund(g) ==
  /\ pc'[g] = "refunded" <=> pc[g] = "refunded"
  /\ pc[g] = "refunded" => target'[g] = target[g]

(* Handlers other than the one that commits are where they were, or fail   *)
(* before they have paid.                                                  *)
LEMMA CommitKeeps ==
  ASSUME Typed, NEW h \in Handlers, NEW s \in Stalls, CommitOn(h, s)
  PROVE  /\ pc'[h] = "idle"
         /\ \A g \in Handlers \ {h} : SamePaid(g) /\ SameRefund(g)
<1>1. ASSUME NEW g \in Handlers \ {h}, g \in Blocked(s) PROVE SamePaid(g) /\ SameRefund(g)
  <2>1. pc[g] = "queued" /\ pc'[g] = "idle"
    BY <1>1, CommitType DEF Blocked, Typed
  <2> QED
    BY <2>1 DEF SamePaid, SameRefund
<1>2. ASSUME NEW g \in Handlers \ {h}, g \notin Blocked(s) PROVE SamePaid(g) /\ SameRefund(g)
  <2>1. pc'[g] = pc[g] /\ who'[g] = who[g] /\ at'[g] = at[g] /\ target'[g] = target[g]
    BY <1>2, CommitType DEF Typed
  <2> QED
    BY <2>1 DEF SamePaid, SameRefund
<1> QED
  BY <1>1, <1>2, CommitType DEF Typed

LEMMA PromiseBook ==
  ASSUME Steady, Steady', NEW h \in Handlers, BookCommit(h)
  PROVE  \E b \in BookingIds : Promise!Book(b, who[h], at[h])
<1>1. PICK u \in Users, s \in Stalls : u = who[h] /\ s = at[h] /\ pc[h] = "paid" /\ open[h]
  BY DEF BookCommit, Steady, Typed, Args
<1>2. PICK b \in BookingIds :
        /\ row[b] = NoRow
        /\ row' = [row EXCEPT ![b] = [state |-> "confirmed", user |-> u, stall |-> s]]
  BY <1>1 DEF BookCommit
<1>3. /\ booked' = [booked EXCEPT ![s] = @ + 1] /\ wallets' = wallets /\ paying' = paying
      /\ pc'[h] = "idle" /\ \A g \in Handlers \ {h} : SamePaid(g) /\ SameRefund(g)
  BY <1>1, CommitKeeps DEF BookCommit, ledgerVars, workerVars, Steady
<1>4. ~Refunded(b) /\ ~Releasing(b)
  BY <1>2, RowFacts, BookingConstants
     DEF Steady, Sound, TargetsConfirmed, HandsConfirmed, Refunded, Releasing
<1>5. \A c \in BookingIds : /\ Refunded(c)' <=> Refunded(c)
                            /\ Releasing(c)' <=> Releasing(c)
  BY <1>1, <1>3 DEF Refunded, Releasing, SameRefund
<1>6. /\ row'[b] = [state |-> "confirmed", user |-> u, stall |-> s]
      /\ \A c \in BookingIds \ {b} : row'[c] = row[c]
  BY <1>2 DEF Steady, Typed, TypeOK
<1>7. CheckHolds(u, s)
  BY <1>1 DEF Steady, Seats, Checked, Holding
<1>8. PromisedRows[b] = NoRow
  BY <1>2, <1>4 DEF PromisedRows
<1>9. PromisedSeats[s] < Available[s]
  <2>1. booked[s] < Available[s] /\ booked[s] \in Int /\ Available[s] \in Int
    BY <1>7, BookingConstants DEF CheckHolds, Steady, Typed, TypeOK
  <2>2. PICK k \in Nat : k = Cardinality({c \in RowsAt(s) : Refunded(c)})
    BY CountsTyped
  <2>3. PromisedSeats[s] = booked[s] - k
    BY <2>2 DEF PromisedSeats
  <2> QED
    BY <2>1, <2>3
<1>10. \A c \in Promise!ConfirmedAt(s) : PromisedRows[c].user # u
  <2> SUFFICES ASSUME NEW c \in BookingIds, PromisedRows[c].stall = s,
                      PromisedRows[c].state = "confirmed"
               PROVE  PromisedRows[c].user # u
    BY DEF Promise!ConfirmedAt
  <2>1. CASE row[c] = NoRow
    <3>1. ~Refunded(c) /\ ~Releasing(c)
      BY <2>1, RowFacts, BookingConstants
         DEF Steady, Sound, TargetsConfirmed, HandsConfirmed, Refunded, Releasing
    <3> QED
      BY <2>1, <3>1, RowFacts DEF PromisedRows
  <2>2. CASE row[c] # NoRow
    <3>1. row[c] \in Rows
      BY <2>2 DEF Steady, Typed, TypeOK
    <3>2. ~Refunded(c) /\ ~Releasing(c)
      BY <3>1 DEF PromisedRows, Rows
    <3>3. PromisedRows[c] = row[c]
      BY <3>2 DEF PromisedRows
    <3> QED
      BY <1>7, <3>3 DEF CheckHolds
  <2> QED
    BY <2>1, <2>2
<1>11. Promise!Transfer(BookLegs(u, s))
  <2>1. Typed /\ Typed' /\ Seen /\ Seen'
    BY SeenNow, SeenNext DEF Steady
  <2>2. PICK c, d, to : c = Committed /\ d = Committed' /\ to = Posted(Committed, BookLegs(u, s))
    OBVIOUS
  <2>3. /\ to \in [Owners -> WalletRow]
        /\ \A o \in Owners : /\ to[o].available = c[o].available + Spot(o, u, s)
                             /\ to[o].pending = c[o].pending + Held(o, s)
    BY <2>1, <2>2, BookPosts DEF Seen
  <2>4. \A o \in Owners : d[o].available = to[o].available /\ d[o].pending = to[o].pending
    <3> SUFFICES ASSUME NEW o \in Owners
                 PROVE  d[o].available = to[o].available /\ d[o].pending = to[o].pending
      OBVIOUS
    <3>1. /\ PaidSpots(o)[h] = Spot(o, u, s) /\ PaidSpots(o)'[h] = 0
          /\ PaidHelds(o)[h] = Held(o, s) /\ PaidHelds(o)'[h] = 0
      BY <1>1, <1>3 DEF PaidSpots, PaidHelds
    <3>2. PICK m, n, p, q : /\ m = SumFunction(PaidSpots(o)) /\ n = SumFunction(PaidHelds(o))
                            /\ p = SumFunction(PaidSpots(o)') /\ q = SumFunction(PaidHelds(o)')
      OBVIOUS
    <3>3. m \in Int /\ n \in Int /\ Spot(o, u, s) \in Int /\ Held(o, s) \in Int
      BY <2>1, <3>2, PaidTyped, AmountFacts
    <3>4. p = m + 0 - Spot(o, u, s) /\ q = n + 0 - Held(o, s)
      BY <1>3, <2>1, <3>1, <3>2, PaidChange
    <3>5. wallets[o].available \in Int /\ wallets[o].pending \in Int
      BY <2>1 DEF Typed, TypeOK, WalletRow
    <3>6. /\ c[o].available = wallets[o].available - m /\ c[o].pending = wallets[o].pending - n
          /\ d[o].available = wallets[o].available - p /\ d[o].pending = wallets[o].pending - q
      BY <1>3, <2>1, <2>2, <3>2 DEF Seen
    <3>7. \A w, i, j \in Int : w - (i + 0 - j) = (w - i) + j
      OBVIOUS
    <3> QED
      BY <2>3, <3>3, <3>4, <3>5, <3>6, <3>7
  <2>5. d \in [Owners -> WalletRow]
    BY <2>1, <2>2 DEF Seen
  <2>6. Committed' = Posted(Committed, BookLegs(u, s))
    BY <2>2, <2>3, <2>4, <2>5, SameWallets
  <2>7. Valid(BookLegs(u, s))
    BY <1>1 DEF Steady, Sound, LegsValid
  <2> QED
    BY <2>1, <2>6, <2>7, PromiseTransfers
<1>12. PromisedRows' = [PromisedRows EXCEPT ![b] =
                          [state |-> "confirmed", user |-> u, stall |-> s]]
  BY <1>4, <1>5, <1>6 DEF PromisedRows
<1>13. PromisedSeats' = [PromisedSeats EXCEPT ![s] = @ + 1]
  <2>1. \A t \in Stalls :
          {c \in RowsAt(t)' : Refunded(c)'} = {c \in RowsAt(t) : Refunded(c)}
    BY <1>4, <1>5, <1>6 DEF RowsAt
  <2>2. booked \in [Stalls -> Int]
    BY DEF Steady, Typed, TypeOK
  <2>3. PICK k : k = [t \in Stalls |-> Cardinality({c \in RowsAt(t) : Refunded(c)})]
    OBVIOUS
  <2>4. \A t \in Stalls : k[t] \in Nat
    BY <2>3, CountsTyped
  <2>5. /\ PromisedSeats = [t \in Stalls |-> booked[t] - k[t]]
        /\ PromisedSeats' = [t \in Stalls |-> booked'[t] - k[t]]
    BY <2>1, <2>3 DEF PromisedSeats
  <2> QED
    BY <1>3, <2>2, <2>4, <2>5
<1> QED
  BY <1>1, <1>8, <1>9, <1>10, <1>11, <1>12, <1>13 DEF Promise!Book

(* Neither a cancellation nor the job touches a booking of the other.      *)
LEMMA NotReleasing ==
  ASSUME Steady, NEW h \in Handlers, pc[h] \in {"cancelling", "refunded"}
  PROVE  ~Releasing(target[h]) /\ \A w \in Workers : target[h] \notin batch[w]
<1>1. target[h] \in BookingIds
  BY DEF Steady, Typed, Args
<1> QED
  BY <1>1, Apart DEF Steady, Releasing

LEMMA NotRefunded ==
  ASSUME Steady, NEW w \in Workers, NEW b \in BookingIds, b \in batch[w] \/ paying[w] = b
  PROVE  ~Refunded(b)
BY Apart DEF Steady, Refunded

(* Nobody else cancels the booking.                                        *)
LEMMA OnlyTarget ==
  ASSUME Steady, NEW h \in Handlers, target[h] \in BookingIds,
         NEW g \in Handlers, g # h
  PROVE  target[g] # target[h]
BY BookingConstants DEF Steady, Orderly

(* The money of a cancellation moves: the promise cancels the booking.     *)
LEMMA PromiseCancel ==
  ASSUME Steady, Steady', NEW h \in Handlers, CancelRefund(h)
  PROVE  Promise!Cancel(target[h])
<1>1. PICK b \in BookingIds, u \in Users, s \in Stalls :
        /\ b = target[h] /\ u = row[b].user /\ s = row[b].stall /\ row[b] \in Rows
        /\ row[b].state = "confirmed" /\ pc[h] = "cancelling"
  BY RowFacts DEF CancelRefund, Steady, Typed, Args, Sound, TargetsConfirmed
<1>2. /\ Transfer(RefundLegs(u, s)) /\ pc' = [pc EXCEPT ![h] = "refunded"]
      /\ UNCHANGED <<row, booked, who, at, target, paying>>
  BY <1>1 DEF CancelRefund, tableVars, workerVars
<1>3. pc'[h] = "refunded" /\ \A g \in Handlers \ {h} : pc'[g] = pc[g]
  BY <1>2 DEF Steady, Typed, TypeOK
<1>4. ~Refunded(b) /\ Refunded(b)' /\ ~Releasing(b)
  BY <1>1, <1>2, <1>3, OnlyTarget, NotReleasing DEF Refunded
<1>5. \A c \in BookingIds : /\ c # b => (Refunded(c)' <=> Refunded(c))
                            /\ Releasing(c)' <=> Releasing(c)
  BY <1>1, <1>2, <1>3 DEF Refunded, Releasing
<1>6. \A g \in Handlers : SamePaid(g)
  BY <1>1, <1>2, <1>3 DEF SamePaid
<1>7. PromisedRows[b] = row[b]
  BY <1>4 DEF PromisedRows
<1>8. Promise!Transfer(RefundLegs(u, s))
  <2> DEFINE x == [o \in Owners |-> -Spot(o, u, s)]
             y == [o \in Owners |-> -Held(o, s)]
  <2>1. Typed /\ Typed' /\ Seen /\ wallets \in [Owners -> WalletRow]
    BY SeenNow DEF Steady, Typed, TypeOK
  <2>2. /\ Posted(Committed, RefundLegs(u, s)) \in [Owners -> WalletRow]
        /\ wallets' = Posted(wallets, RefundLegs(u, s))
    BY <1>2, <2>1, RefundPosts DEF Seen, Transfer
  <2>3. ASSUME NEW o \in Owners
        PROVE  /\ x[o] \in Int /\ y[o] \in Int
               /\ wallets'[o].available = wallets[o].available + x[o]
               /\ wallets'[o].pending = wallets[o].pending + y[o]
               /\ Posted(Committed, RefundLegs(u, s))[o].available
                    = Committed[o].available + x[o]
               /\ Posted(Committed, RefundLegs(u, s))[o].pending
                    = Committed[o].pending + y[o]
    <3>1. PICK c, to, new : c = Committed /\ to = Posted(Committed, RefundLegs(u, s))
                              /\ new = wallets'
      OBVIOUS
    <3>2. /\ c[o].available \in Int /\ c[o].pending \in Int
          /\ wallets[o].available \in Int /\ wallets[o].pending \in Int
      BY <2>1, <3>1 DEF Seen, WalletRow
    <3>3. PICK i \in Int, j \in Int : i = Spot(o, u, s) /\ j = Held(o, s)
      BY AmountFacts
    <3>4. /\ to[o].available = c[o].available - i /\ to[o].pending = c[o].pending - j
          /\ new[o].available = wallets[o].available - i
          /\ new[o].pending = wallets[o].pending - j
      BY <2>1, <2>2, <3>1, <3>3, RefundPosts DEF Seen
    <3>5. x[o] = -i /\ y[o] = -j
      BY <3>3
    <3> HIDE DEF x, y
    <3>6. \A k, l \in Int : k - l = k + (-l) /\ -l \in Int
      OBVIOUS
    <3> QED
      BY <3>1, <3>2, <3>3, <3>4, <3>5, <3>6
  <2>4. x \in [Owners -> Int] /\ y \in [Owners -> Int]
    BY <2>3
  <2> HIDE DEF x, y
  <2>5. /\ Moves(wallets, wallets', x, y)
        /\ Moves(Committed, Posted(Committed, RefundLegs(u, s)), x, y)
    BY <2>3 DEF Moves
  <2> QED
    BY <1>2, <1>6, <2>1, <2>2, <2>4, <2>5, MoneyMoves
<1>9. PromisedRows' = [PromisedRows EXCEPT ![b].state = "cancelled"]
  <2>1. PromisedRows'[b] = [PromisedRows[b] EXCEPT !.state = "cancelled"]
    BY <1>2, <1>4, <1>7 DEF PromisedRows
  <2>2. \A c \in BookingIds \ {b} : PromisedRows'[c] = PromisedRows[c]
    BY <1>2, <1>5 DEF PromisedRows
  <2> QED
    BY <2>1, <2>2 DEF PromisedRows
<1>10. PromisedSeats' = [PromisedSeats EXCEPT ![s] = @ - 1]
  <2>1. PICK F, G : /\ F = [t \in Stalls |-> {c \in RowsAt(t) : Refunded(c)}]
                    /\ G = [t \in Stalls |-> {c \in RowsAt(t)' : Refunded(c)'}]
    OBVIOUS
  <2>2. G[s] = F[s] \cup {b} /\ b \notin F[s] /\ \A t \in Stalls \ {s} : G[t] = F[t]
    BY <1>1, <1>2, <1>4, <1>5, <2>1 DEF RowsAt
  <2>3. \A t \in Stalls : IsFiniteSet(F[t]) /\ Cardinality(F[t]) \in Nat
    BY <2>1, CountsTyped
  <2>4. Cardinality(G[s]) = Cardinality(F[s]) + 1
    BY <2>2, <2>3, FS_AddElement
  <2>5. booked \in [Stalls -> Int]
    BY DEF Steady, Typed, TypeOK
  <2>6. \A t \in Stalls : /\ PromisedSeats[t] = booked[t] - Cardinality(F[t])
                          /\ PromisedSeats'[t] = booked[t] - Cardinality(G[t])
    BY <1>2, <2>1 DEF PromisedSeats
  <2>7. PromisedSeats'[s] = PromisedSeats[s] - 1
    BY <2>3, <2>4, <2>5, <2>6
  <2>8. \A t \in Stalls \ {s} : PromisedSeats'[t] = PromisedSeats[t]
    BY <2>2, <2>6
  <2> QED
    BY <2>7, <2>8 DEF PromisedSeats
<1>11. /\ PromisedRows[b].state = "confirmed" /\ PromisedRows[b].user = u
       /\ PromisedRows[b].stall = s
  BY <1>1, <1>7
<1> QED
  BY <1>1, <1>8, <1>9, <1>10, <1>11 DEF Promise!Cancel

(* Its commit writes what the promise shows already.                       *)
LEMMA PromiseCancelled ==
  ASSUME Steady, Steady', NEW h \in Handlers, CancelCommit(h)
  PROVE  UNCHANGED Promise!pvars
<1>1. PICK b \in BookingIds, s \in Stalls :
        /\ b = target[h] /\ s = row[b].stall /\ row[b] \in Rows /\ pc[h] = "refunded"
  BY RowFacts DEF CancelCommit, Steady, Typed, Args
<1>2. /\ CommitOn(h, s) /\ wallets' = wallets /\ paying' = paying
      /\ booked' = [booked EXCEPT ![s] = @ - 1]
      /\ row' = [row EXCEPT ![b].state = "cancelled"]
  BY <1>1 DEF CancelCommit, ledgerVars, workerVars
<1>3. pc'[h] = "idle" /\ \A g \in Handlers \ {h} : SamePaid(g) /\ SameRefund(g)
  BY <1>2, CommitKeeps DEF Steady
<1>4. Refunded(b) /\ ~Refunded(b)' /\ ~Releasing(b)
  <2>1. \A g \in Handlers \ {h} : target[g] # b
    BY <1>1, OnlyTarget
  <2> QED
    BY <1>1, <1>3, <2>1, NotReleasing DEF Refunded, SameRefund
<1>5. \A c \in BookingIds : /\ c # b => (Refunded(c)' <=> Refunded(c))
                            /\ Releasing(c)' <=> Releasing(c)
  BY <1>1, <1>2, <1>3 DEF Refunded, Releasing, SameRefund
<1>6. \A g \in Handlers : SamePaid(g)
  BY <1>1, <1>3 DEF SamePaid
<1>7. /\ row'[b] = [row[b] EXCEPT !.state = "cancelled"] /\ row'[b].stall = s
      /\ \A c \in BookingIds \ {b} : row'[c] = row[c]
  BY <1>1, <1>2 DEF Steady, Typed, TypeOK, Rows
<1>8. PromisedRows' = PromisedRows
  BY <1>4, <1>5, <1>7 DEF PromisedRows
<1>9. PromisedSeats' = PromisedSeats
  <2>1. PICK F, G : /\ F = [t \in Stalls |-> {c \in RowsAt(t) : Refunded(c)}]
                    /\ G = [t \in Stalls |-> {c \in RowsAt(t)' : Refunded(c)'}]
    OBVIOUS
  <2>2. F[s] = G[s] \cup {b} /\ b \notin G[s] /\ \A t \in Stalls \ {s} : G[t] = F[t]
    BY <1>1, <1>4, <1>5, <1>7, <2>1 DEF RowsAt
  <2>3. \A t \in Stalls : IsFiniteSet(F[t]) /\ Cardinality(F[t]) \in Nat
    BY <2>1, CountsTyped
  <2>4. IsFiniteSet(G[s]) /\ Cardinality(G[s]) \in Nat
    BY <2>2, <2>3, FS_Subset, FS_CardinalityType
  <2>5. Cardinality(F[s]) = Cardinality(G[s]) + 1
    BY <2>2, <2>4, FS_AddElement
  <2>6. booked \in [Stalls -> Int]
    BY DEF Steady, Typed, TypeOK
  <2>7. \A t \in Stalls : /\ PromisedSeats[t] = booked[t] - Cardinality(F[t])
                          /\ PromisedSeats'[t] = booked'[t] - Cardinality(G[t])
    BY <2>1 DEF PromisedSeats
  <2>8. booked'[s] = booked[s] - 1 /\ \A t \in Stalls \ {s} : booked'[t] = booked[t]
    BY <1>2, <2>6
  <2>9. PromisedSeats'[s] = PromisedSeats[s]
    BY <2>4, <2>5, <2>6, <2>7, <2>8
  <2>10. \A t \in Stalls \ {s} : PromisedSeats'[t] = PromisedSeats[t]
    BY <2>2, <2>7, <2>8
  <2> QED
    BY <2>9, <2>10 DEF PromisedSeats
<1> QED
  BY <1>2, <1>6, <1>8, <1>9, MoneySame DEF Promise!pvars

(* The money of a release moves: the promise releases the booking.         *)
LEMMA PromiseRelease ==
  ASSUME Steady, Steady', NEW w \in Workers, ReleasePay(w)
  PROVE  \E b \in BookingIds : Promise!Release(b)
<1>1. PICK b \in batch[w] : /\ Transfer(ReleaseLegs(row[b].stall)) /\ paying[w] = None
                            /\ paying' = [paying EXCEPT ![w] = b]
  BY DEF ReleasePay
<1>2. PICK s \in Stalls : /\ b \in BookingIds /\ s = row[b].stall /\ row[b] \in Rows
                          /\ row[b].state = "confirmed"
  BY RowFacts DEF Steady, Typed, TypeOK, Args, Sound, HandsConfirmed
<1>3. UNCHANGED <<row, booked, pc, who, at, target>>
  BY DEF ReleasePay, tableVars, handlerVars
<1>4. paying'[w] = b /\ \A v \in Workers \ {w} : paying'[v] = paying[v]
  BY <1>1 DEF Steady, Typed, TypeOK
<1>5. ~Refunded(b) /\ ~Releasing(b) /\ Releasing(b)'
  <2>1. \A v \in Workers \ {w} : paying[v] # b
    BY <1>2 DEF Steady, Orderly, InHand
  <2>2. paying[w] # b
    BY <1>1, <1>2, BookingConstants
  <2> QED
    BY <1>2, <1>4, <2>1, <2>2, NotRefunded DEF Releasing
<1>6. \A c \in BookingIds : /\ Refunded(c)' <=> Refunded(c)
                            /\ c # b => (Releasing(c)' <=> Releasing(c))
  <2>1. \A c \in BookingIds : Refunded(c)' <=> Refunded(c)
    BY <1>3 DEF Refunded
  <2>2. None \notin BookingIds
    BY BookingConstants
  <2> QED
    BY <1>1, <1>4, <2>1, <2>2 DEF Releasing
<1>7. \A g \in Handlers : SamePaid(g)
  BY <1>3 DEF SamePaid
<1>8. PromisedRows[b] = row[b]
  BY <1>2, <1>5 DEF PromisedRows
<1>9. Promise!Transfer(ReleaseLegs(s))
  <2> DEFINE x == [o \in Owners |-> Held(o, s)]
             y == [o \in Owners |-> -Held(o, s)]
  <2>1. Typed /\ Typed' /\ Seen /\ wallets \in [Owners -> WalletRow]
    BY SeenNow DEF Steady, Typed, TypeOK
  <2>2. /\ Posted(Committed, ReleaseLegs(s)) \in [Owners -> WalletRow]
        /\ wallets' = Posted(wallets, ReleaseLegs(s)) /\ Transfer(ReleaseLegs(s))
    BY <1>1, <1>2, <2>1, ReleasePosts DEF Seen, Transfer
  <2>3. ASSUME NEW o \in Owners
        PROVE  /\ x[o] \in Int /\ y[o] \in Int
               /\ wallets'[o].available = wallets[o].available + x[o]
               /\ wallets'[o].pending = wallets[o].pending + y[o]
               /\ Posted(Committed, ReleaseLegs(s))[o].available = Committed[o].available + x[o]
               /\ Posted(Committed, ReleaseLegs(s))[o].pending = Committed[o].pending + y[o]
    <3>1. PICK c, to, new : c = Committed /\ to = Posted(Committed, ReleaseLegs(s))
                              /\ new = wallets'
      OBVIOUS
    <3>2. /\ c[o].available \in Int /\ c[o].pending \in Int
          /\ wallets[o].available \in Int /\ wallets[o].pending \in Int
      BY <2>1, <3>1 DEF Seen, WalletRow
    <3>3. PICK j \in Int : j = Held(o, s)
      BY AmountFacts
    <3>4. /\ to[o].available = c[o].available + j /\ to[o].pending = c[o].pending - j
          /\ new[o].available = wallets[o].available + j
          /\ new[o].pending = wallets[o].pending - j
      BY <2>1, <2>2, <3>1, <3>3, ReleasePosts DEF Seen
    <3>5. x[o] = j /\ y[o] = -j
      BY <3>3
    <3> HIDE DEF x, y
    <3>6. \A k, l \in Int : k - l = k + (-l) /\ -l \in Int
      OBVIOUS
    <3> QED
      BY <3>1, <3>2, <3>3, <3>4, <3>5, <3>6
  <2>4. x \in [Owners -> Int] /\ y \in [Owners -> Int]
    BY <2>3
  <2> HIDE DEF x, y
  <2>5. /\ Moves(wallets, wallets', x, y)
        /\ Moves(Committed, Posted(Committed, ReleaseLegs(s)), x, y)
    BY <2>3 DEF Moves
  <2> QED
    BY <1>7, <2>1, <2>2, <2>4, <2>5, MoneyMoves
<1>10. PromisedRows' = [PromisedRows EXCEPT ![b].state = "released"]
  <2>1. PromisedRows'[b] = [PromisedRows[b] EXCEPT !.state = "released"]
    BY <1>2, <1>3, <1>5, <1>6, <1>8 DEF PromisedRows
  <2>2. \A c \in BookingIds \ {b} : PromisedRows'[c] = PromisedRows[c]
    BY <1>3, <1>6 DEF PromisedRows
  <2> QED
    BY <2>1, <2>2 DEF PromisedRows
<1>11. PromisedSeats' = PromisedSeats
  <2>1. \A t \in Stalls :
          {c \in RowsAt(t)' : Refunded(c)'} = {c \in RowsAt(t) : Refunded(c)}
    BY <1>3, <1>6 DEF RowsAt
  <2> QED
    BY <1>3, <2>1 DEF PromisedSeats
<1>12. PromisedRows[b].state = "confirmed" /\ PromisedRows[b].stall = s
  BY <1>2, <1>8
<1> QED
  BY <1>2, <1>9, <1>10, <1>11, <1>12 DEF Promise!Release

(* Marking the row writes what the promise shows already.                  *)
LEMMA PromiseReleased ==
  ASSUME Steady, Steady', NEW w \in Workers, ReleaseMark(w)
  PROVE  UNCHANGED Promise!pvars
<1>1. PICK b \in BookingIds : b = paying[w] /\ row[b] \in Rows
  BY DEF ReleaseMark, Steady, Typed, TypeOK, Args
<1>2. /\ row' = [row EXCEPT ![b].state = "released"] /\ paying' = [paying EXCEPT ![w] = None]
      /\ UNCHANGED <<wallets, booked, pc, who, at, target>>
  BY <1>1 DEF ReleaseMark, ledgerVars, handlerVars
<1>3. paying'[w] = None /\ \A v \in Workers \ {w} : paying'[v] = paying[v]
  BY <1>2 DEF Steady, Typed, TypeOK
<1>4. ~Refunded(b) /\ Releasing(b) /\ ~Releasing(b)'
  <2>1. \A v \in Workers \ {w} : paying[v] # b
    BY <1>1 DEF Steady, Orderly, InHand
  <2>2. None # b
    BY <1>1, BookingConstants
  <2> QED
    BY <1>1, <1>3, <2>1, <2>2, NotRefunded DEF Releasing
<1>5. \A c \in BookingIds : /\ Refunded(c)' <=> Refunded(c)
                            /\ c # b => (Releasing(c)' <=> Releasing(c))
  <2>1. \A c \in BookingIds : Refunded(c)' <=> Refunded(c)
    BY <1>2 DEF Refunded
  <2>2. None \notin BookingIds
    BY BookingConstants
  <2> QED
    BY <1>1, <1>3, <2>1, <2>2 DEF Releasing
<1>6. \A g \in Handlers : SamePaid(g)
  BY <1>2 DEF SamePaid
<1>7. /\ row'[b] = [row[b] EXCEPT !.state = "released"] /\ row'[b].stall = row[b].stall
      /\ \A c \in BookingIds \ {b} : row'[c] = row[c]
  BY <1>1, <1>2 DEF Steady, Typed, TypeOK, Rows
<1>8. PromisedRows' = PromisedRows
  BY <1>4, <1>5, <1>7 DEF PromisedRows
<1>9. PromisedSeats' = PromisedSeats
  <2>1. \A t \in Stalls :
          {c \in RowsAt(t)' : Refunded(c)'} = {c \in RowsAt(t) : Refunded(c)}
    BY <1>4, <1>5, <1>7 DEF RowsAt
  <2> QED
    BY <1>2, <2>1 DEF PromisedSeats
<1> QED
  BY <1>2, <1>6, <1>8, <1>9, MoneySame DEF Promise!pvars

(* A booking that has paid and not committed yet is not seen.              *)
LEMMA PromisePay ==
  ASSUME Steady, Steady', NEW h \in Handlers, BookPay(h)
  PROVE  UNCHANGED Promise!pvars
<1>1. PICK u \in Users, s \in Stalls : u = who[h] /\ s = at[h] /\ pc[h] = "funded"
  BY DEF BookPay, Steady, Typed, Args
<1>2. /\ Transfer(BookLegs(u, s)) /\ pc' = [pc EXCEPT ![h] = "paid"]
      /\ UNCHANGED <<row, booked, who, at, target, paying>>
  BY <1>1 DEF BookPay, tableVars, workerVars
<1>3. pc'[h] = "paid" /\ \A g \in Handlers \ {h} : pc'[g] = pc[g]
  BY <1>2 DEF Steady, Typed, TypeOK
<1>4. \A g \in Handlers \ {h} : SamePaid(g)
  BY <1>2, <1>3 DEF SamePaid
<1>5. \A b \in BookingIds : SameBooking(b)
  <2>1. \A g \in Handlers : pc'[g] = "refunded" <=> pc[g] = "refunded"
    BY <1>1, <1>3
  <2> QED
    BY <1>2, <2>1 DEF SameBooking, Refunded, Releasing
<1>6. Typed /\ Typed' /\ Seen /\ Seen'
  BY SeenNow, SeenNext DEF Steady
<1>7. Committed' = Committed
  <2>1. PICK c, d : c = Committed /\ d = Committed'
    OBVIOUS
  <2>2. \A o \in Owners : d[o].available = c[o].available /\ d[o].pending = c[o].pending
    <3> SUFFICES ASSUME NEW o \in Owners
                 PROVE  d[o].available = c[o].available /\ d[o].pending = c[o].pending
      OBVIOUS
    <3>1. /\ PaidSpots(o)[h] = 0 /\ PaidSpots(o)'[h] = Spot(o, u, s)
          /\ PaidHelds(o)[h] = 0 /\ PaidHelds(o)'[h] = Held(o, s)
      BY <1>1, <1>2, <1>3 DEF PaidSpots, PaidHelds
    <3>2. PICK m, n, p, q : /\ m = SumFunction(PaidSpots(o)) /\ n = SumFunction(PaidHelds(o))
                            /\ p = SumFunction(PaidSpots(o)') /\ q = SumFunction(PaidHelds(o)')
      OBVIOUS
    <3>3. m \in Int /\ n \in Int /\ Spot(o, u, s) \in Int /\ Held(o, s) \in Int
      BY <1>6, <3>2, PaidTyped, AmountFacts
    <3>4. p = m + Spot(o, u, s) - 0 /\ q = n + Held(o, s) - 0
      BY <1>4, <1>6, <3>1, <3>2, PaidChange
    <3>5. /\ wallets[o].available \in Int /\ wallets[o].pending \in Int
          /\ wallets'[o].available = wallets[o].available + Spot(o, u, s)
          /\ wallets'[o].pending = wallets[o].pending + Held(o, s)
      BY <1>2, <1>6, BookMoves DEF Typed, TypeOK, WalletRow
    <3>6. /\ c[o].available = wallets[o].available - m /\ c[o].pending = wallets[o].pending - n
          /\ d[o].available = wallets'[o].available - p /\ d[o].pending = wallets'[o].pending - q
      BY <1>6, <2>1, <3>2 DEF Seen
    <3>7. \A w, i, j \in Int : (w + j) - (i + j - 0) = w - i
      OBVIOUS
    <3> QED
      BY <3>3, <3>4, <3>5, <3>6, <3>7
  <2>3. c \in [Owners -> WalletRow] /\ d \in [Owners -> WalletRow]
    BY <1>6, <2>1 DEF Seen
  <2> QED
    BY <2>1, <2>2, <2>3, SameWallets
<1> QED
  BY <1>2, <1>5, <1>7, RowsSame DEF Promise!pvars

(* Steps that neither move money nor touch a row.                          *)
LEMMA PromiseQuiet ==
  ASSUME UNCHANGED <<wallets, booked, row, paying>>,
         \A g \in Handlers : SamePaid(g) /\ SameRefund(g)
  PROVE  UNCHANGED Promise!pvars
<1>1. \A b \in BookingIds : SameBooking(b)
  BY DEF SameBooking, Refunded, Releasing, SameRefund
<1> QED
  BY <1>1, NothingHappens

LEMMA PromiseStep ==
  Steady /\ Steady' /\ [Next]_vars => [Promise!PNext]_(Promise!pvars)
<1> SUFFICES ASSUME Steady, Steady', [Next]_vars
             PROVE  Promise!PNext \/ UNCHANGED Promise!pvars
  OBVIOUS
<1>1. edits = 0 /\ faults = 0 /\ edits' = 0 /\ faults' = 0
  BY DEF Steady, Orderly
<1>2. CASE UNCHANGED <<wallets, booked, row, paying, handlerVars>>
  BY <1>2, PromiseQuiet DEF handlerVars, SamePaid, SameRefund
<1>3. ASSUME NEW e \in Events, Update(e) PROVE FALSE
  BY <1>1, <1>3 DEF Update
<1>4. ASSUME NEW h \in Handlers, Expire(h) PROVE FALSE
  BY <1>1, <1>4 DEF Expire
<1>5. ASSUME NEW h \in Handlers, RollBack(h) PROVE FALSE
  <2>1. open[h]
    BY <1>5 DEF RollBack, Steady, Sound, Alive, Windows, InTime
  <2> QED
    BY <1>1, <1>5, <2>1 DEF RollBack
<1>6. ASSUME NEW w \in Workers, WorkerFails(w) PROVE FALSE
  BY <1>1, <1>6 DEF WorkerFails
<1>7. ASSUME NEW h \in Handlers, Reject(h) PROVE UNCHANGED Promise!pvars
  <2>1. /\ pc[h] \notin {"paid", "refunded"} /\ pc' = [pc EXCEPT ![h] = "idle"] /\ Finish(h)
        /\ UNCHANGED <<wallets, booked, row, paying>>
    BY <1>7 DEF Reject, ledgerVars, workerVars
  <2>2. pc'[h] = "idle" /\ \A g \in Handlers \ {h} :
          pc'[g] = pc[g] /\ who'[g] = who[g] /\ at'[g] = at[g] /\ target'[g] = target[g]
    BY <2>1, FinishType DEF Steady, Typed
  <2>3. \A g \in Handlers : SamePaid(g) /\ SameRefund(g)
    BY <2>1, <2>2 DEF SamePaid, SameRefund
  <2> QED
    BY <2>1, <2>3, PromiseQuiet
<1>8. ASSUME NEW h \in Handlers, NEW u \in Users, NEW s \in Stalls, BookBegin(h, u, s)
      PROVE  UNCHANGED Promise!pvars
  <2>1. /\ pc[h] = "idle" /\ UNCHANGED <<wallets, booked, row, paying, target>>
        /\ who' = [who EXCEPT ![h] = u] /\ at' = [at EXCEPT ![h] = s]
    BY <1>8 DEF BookBegin, ledgerVars, workerVars
  <2>2. pc'[h] \in {"locked", "queued"} /\ \A g \in Handlers \ {h} : pc'[g] = pc[g]
    <3>1. CASE holder[s] = None
      BY <1>8, <3>1 DEF BookBegin, Steady, Typed, TypeOK
    <3>2. CASE holder[s] # None
      BY <1>8, <3>2 DEF BookBegin, Steady, Typed, TypeOK
    <3> QED
      BY <3>1, <3>2
  <2>3. \A g \in Handlers \ {h} : who'[g] = who[g] /\ at'[g] = at[g]
    BY <2>1 DEF Steady, Typed, TypeOK
  <2>4. \A g \in Handlers : SamePaid(g) /\ SameRefund(g)
    BY <2>1, <2>2, <2>3 DEF SamePaid, SameRefund
  <2> QED
    BY <2>1, <2>4, PromiseQuiet
<1>9. ASSUME NEW h \in Handlers, BookGrant(h) \/ BookFunds(h)
      PROVE  UNCHANGED Promise!pvars
  <2>1. UNCHANGED <<wallets, booked, row, paying, who, at, target>>
    BY <1>9 DEF BookGrant, BookFunds, ledgerVars, tableVars, workerVars
  <2>2. /\ pc[h] \in {"queued", "locked"} /\ pc'[h] \in {"locked", "funded"}
        /\ \A g \in Handlers \ {h} : pc'[g] = pc[g]
    BY <1>9 DEF BookGrant, BookFunds, Steady, Typed, TypeOK
  <2>3. \A g \in Handlers : SamePaid(g) /\ SameRefund(g)
    BY <2>1, <2>2 DEF SamePaid, SameRefund
  <2> QED
    BY <2>1, <2>3, PromiseQuiet
<1>10. ASSUME NEW h \in Handlers, BookCommit(h) PROVE Promise!PNext
  <2>1. who[h] \in Users /\ at[h] \in Stalls
    BY <1>10 DEF BookCommit, Steady, Typed, Args
  <2> QED
    BY <1>10, <2>1, PromiseBook DEF Promise!PNext
<1>11. ASSUME NEW h \in Handlers, NEW b \in BookingIds, CancelBegin(h, b)
       PROVE  UNCHANGED Promise!pvars
  <2>1. /\ pc[h] = "idle" /\ pc' = [pc EXCEPT ![h] = "cancelling"]
        /\ target' = [target EXCEPT ![h] = b]
        /\ UNCHANGED <<wallets, booked, row, paying, who, at>>
    BY <1>11 DEF CancelBegin, ledgerVars, tableVars, workerVars
  <2>2. pc'[h] = "cancelling" /\ \A g \in Handlers \ {h} : pc'[g] = pc[g] /\ target'[g] = target[g]
    BY <2>1 DEF Steady, Typed, TypeOK
  <2>3. \A g \in Handlers : SamePaid(g) /\ SameRefund(g)
    BY <2>1, <2>2 DEF SamePaid, SameRefund
  <2> QED
    BY <2>1, <2>3, PromiseQuiet
<1>12. ASSUME NEW h \in Handlers, CancelRefund(h) PROVE Promise!PNext
  <2>1. target[h] \in BookingIds
    BY <1>12 DEF CancelRefund, Steady, Typed, Args
  <2> QED
    BY <1>12, <2>1, PromiseCancel DEF Promise!PNext
<1>13. ASSUME NEW w \in Workers, ReleaseScan(w)
       PROVE  Promise!PNext \/ UNCHANGED Promise!pvars
  BY <1>2, <1>13 DEF ReleaseScan, ledgerVars, tableVars
<1>14. ASSUME NEW w \in Workers, ReleasePay(w) PROVE Promise!PNext
  BY <1>14, PromiseRelease DEF Promise!PNext
<1>15. CASE Tick \/ \E e \in Events : Submit(e)
  BY <1>2, <1>15 DEF Tick, Submit, ledgerVars, tableVars, workerVars
<1>16. CASE UNCHANGED vars
  BY <1>2, <1>16 DEF vars, ledgerVars, tableVars, workerVars
<1> QED
  BY <1>3, <1>4, <1>5, <1>6, <1>7, <1>8, <1>9, <1>10, <1>11, <1>12, <1>13, <1>14, <1>15,
     <1>16, PromisePay, PromiseCancelled, PromiseReleased
     DEF Next, OrganiserStep, HandlerStep, BookStep, CancelStep, WorkerStep

LEMMA PromiseInit == Init => Promise!PInit
<1> SUFFICES ASSUME Init PROVE Promise!PInit
  OBVIOUS
<1>1. Typed /\ Seen
  BY TypedInit, SeenNow
<1>2. \A b \in BookingIds : ~Refunded(b) /\ ~Releasing(b)
  BY BookingConstants DEF Init, Refunded, Releasing
<1>3. PromisedRows = [b \in BookingIds |-> NoRow]
  BY <1>2 DEF Init, PromisedRows
<1>4. PromisedSeats = [s \in Stalls |-> 0]
  <2>1. \A s \in Stalls : {b \in RowsAt(s) : Refunded(b)} = {} /\ booked[s] = 0
    BY <1>2 DEF Init, RowsAt
  <2>2. \A s \in Stalls : booked[s] - Cardinality({b \in RowsAt(s) : Refunded(b)}) = 0
    BY <2>1, FS_EmptySet
  <2> QED
    BY <2>2 DEF PromisedSeats
<1>5. Committed = wallets
  <2>1. \A o \in Owners : SumFunction(PaidSpots(o)) = 0 /\ SumFunction(PaidHelds(o)) = 0
    <3> SUFFICES ASSUME NEW o \in Owners
                 PROVE  SumFunction(PaidSpots(o)) = 0 /\ SumFunction(PaidHelds(o)) = 0
      OBVIOUS
    <3>1. /\ DOMAIN PaidSpots(o) = Handlers /\ DOMAIN PaidHelds(o) = Handlers
          /\ \A h \in Handlers : PaidSpots(o)[h] = 0 /\ PaidHelds(o)[h] = 0
      BY DEF Init, PaidSpots, PaidHelds
    <3>2. /\ SumFunctionOnSet(PaidSpots(o), Handlers) = 0
          /\ SumFunctionOnSet(PaidHelds(o), Handlers) = 0
      BY <3>1, BookingConstants, SumZero
    <3> QED
      BY <3>1, <3>2 DEF SumFunction
  <2>2. wallets \in [Owners -> WalletRow]
    BY <1>1 DEF Typed, TypeOK
  <2>3. \A o \in Owners : /\ Committed[o].available = wallets[o].available
                          /\ Committed[o].pending = wallets[o].pending
    BY <1>1, <2>1, <2>2 DEF Seen, WalletRow
  <2> QED
    BY <1>1, <2>2, <2>3, SameWallets DEF Seen
<1> QED
  BY <1>3, <1>4, <1>5 DEF Init, Promise!PInit, Promise!Owners, Owners

(* As long as requests and the job stay orderly, each booking,             *)
(* cancellation and release is one step of the promise.                    *)
THEOREM KeepsPromise == Spec /\ []Orderly => ImplementsPromise
<1>1. Spec /\ []Orderly => []Steady
  <2>1. Typed /\ Settlement /\ Window /\ Seats /\ Sound /\ Orderly => Steady
    BY DEF Settlement, Window, Undisturbed, Orderly, Steady
  <2>2. Spec /\ []Orderly => []Sound
    BY TypedAlways, SettlementAlways, WindowAlways, SoundInit, SoundStep, PTL DEF Spec
  <2> QED
    BY <2>1, <2>2, TypedAlways, SettlementAlways, WindowAlways, SeatsAlways, PTL
<1> QED
  BY <1>1, PromiseInit, PromiseStep, PTL DEF Spec, ImplementsPromise, Promise!PSpec
=============================================================================
