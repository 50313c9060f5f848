------------------------------ MODULE Bookings ------------------------------
(***************************************************************************)
(* BookingsService.book / cancel and the escrow-release job, over the      *)
(* stalls, bookings and wallets tables they share.                         *)
(*                                                                         *)
(* A handler holds an OUTER database transaction (book: SERIALIZABLE with  *)
(* the stall row locked FOR UPDATE; cancel: READ COMMITTED) and moves      *)
(* money with WalletService.transfer, which commits on a connection of its *)
(* own.  Between that commit and the outer one other requests, the job,    *)
(* the clock, the organiser's edits, an expired outer transaction or a     *)
(* crash may come: each await where that matters is an action boundary.    *)
(***************************************************************************)
EXTENDS Wallet

CONSTANTS
  Stalls, Events, BookingIds,
  BookHandlers,     \* request handlers that may run book()
  CancelHandlers,   \* request handlers that may run cancel()
  Workers,          \* processes that run the escrow-release job
  None,             \* "no handler", "no booking", "no user", "no stall"
  EventOf,          \* [Stalls -> Events]
  Organiser,        \* [Events -> Users]: the account that owns the event
  Business,         \* [Events -> Businesses]: the profile that is paid
  Price, Available, \* [Stalls -> Nat]: pricePaise and available
  Funds,            \* [Users -> Nat]: what each user has topped up
  Start, End,       \* the dates each event is created with
  Dates,            \* the dates an edit may set
  MaxTime, MaxEdits, MaxSettles, MaxFaults  \* bounds, see the README

Handlers == BookHandlers \cup CancelHandlers
Times == 0..MaxTime

ASSUME BookingConstants ==
  /\ EventOf \in [Stalls -> Events]
  /\ Organiser \in [Events -> Users]
  /\ Business \in [Events -> Businesses]
  /\ Price \in [Stalls -> Nat]
  /\ Available \in [Stalls -> Nat]
  /\ Funds \in [Users -> Nat]
  /\ Start \in Times /\ End \in Times /\ Start <= End /\ Dates \subseteq Times
  /\ {MaxTime, MaxEdits, MaxSettles, MaxFaults} \subseteq Nat
  /\ IsFiniteSet(Users) /\ IsFiniteSet(Businesses) /\ IsFiniteSet(Stalls)
  /\ IsFiniteSet(BookingIds) /\ IsFiniteSet(Handlers)
  /\ None \notin Users \cup Stalls \cup BookingIds \cup Handlers

VARIABLES
  now, status, startsAt, endsAt, edits,  \* the clock and the events table
  booked, holder,      \* stalls: the counter, and who has the row locked
  row,                 \* the bookings table
  charged, refunds, releases,  \* transfers in the ledger, by what they pay
  pc, open, who, at, target,   \* each handler: step, outer tx, arguments
  batch, paying,       \* each worker: bookings read, booking being released
  faults

eventVars   == <<now, status, startsAt, endsAt, edits>>
ledgerVars  == <<wallets, charged, refunds, releases>>
tableVars   == <<booked, holder, row>>
handlerVars == <<pc, open, who, at, target>>
workerVars  == <<batch, paying>>
vars == <<eventVars, ledgerVars, tableVars, handlerVars, workerVars, faults>>

-----------------------------------------------------------------------------
(* The money of a booking: PLATFORM_FEE_BPS is 1000, i.e. 10 %.            *)
Fee(s)    == (Price[s] * 1000) \div 10000
Escrow(s) == Price[s] - Fee(s)
Biz(s)    == Business[EventOf[s]]

BookLegs(u, s) ==
  << Leg(u, "D", Price[s], "available"),
     Leg(Biz(s), "C", Escrow(s), "pending"),
     Leg(House, "C", Fee(s), "available") >>

(* Mutant: the organiser's escrow pays for the platform's fee as well.     *)
RefundAllFromEscrow(u, s) ==
  << Leg(Biz(s), "D", Price[s], "pending"), Leg(u, "C", Price[s], "available") >>

RefundLegs(u, s) ==
  << Leg(Biz(s), "D", Escrow(s), "pending"),
     Leg(House, "D", Fee(s), "available"),
     Leg(u, "C", Price[s], "available") >>

ReleaseLegs(s) ==
  << Leg(Biz(s), "D", Escrow(s), "pending"),
     Leg(Biz(s), "C", Escrow(s), "available") >>

Settled(b) == refunds[b] + releases[b]

NoRow == [state |-> "none", user |-> None, stall |-> None]
Rows  == [state : {"confirmed", "cancelled", "released"}, user : Users, stall : Stalls]

RowsAt(s)    == {b \in BookingIds : row[b].stall = s}
Confirmed(s) == {b \in RowsAt(s) : row[b].state = "confirmed"}
Live(s)      == {b \in RowsAt(s) : row[b].state # "cancelled"}

Cleared(e, t) == endsAt[e] < t - 1     \* ended more than a day (a tick) ago
Due(b) == row[b].state = "confirmed" /\ Cleared(EventOf[row[b].stall], now)

Init ==
  /\ now = 0 /\ edits = 0 /\ faults = 0
  /\ status   = [e \in Events |-> "draft"]
  /\ startsAt = [e \in Events |-> Start]
  /\ endsAt   = [e \in Events |-> End]
  /\ booked   = [s \in Stalls |-> 0]
  /\ holder   = [s \in Stalls |-> None]
  /\ row      = [b \in BookingIds |-> NoRow]
  /\ wallets  = [o \in Owners |-> [available |-> IF o \in Users THEN Funds[o] ELSE 0,
                                   pending |-> 0]]
  /\ charged  = [u \in Users |-> [s \in Stalls |-> 0]]
  /\ refunds  = [b \in BookingIds |-> 0]
  /\ releases = [b \in BookingIds |-> 0]
  /\ pc       = [h \in Handlers |-> "idle"]
  /\ open     = [h \in Handlers |-> FALSE]
  /\ who      = [h \in Handlers |-> None]
  /\ at       = [h \in Handlers |-> None]
  /\ target   = [h \in Handlers |-> None]
  /\ batch    = [w \in Workers |-> {}]
  /\ paying   = [w \in Workers |-> None]

-----------------------------------------------------------------------------
(* The organiser and the clock.                                            *)

(* EventsService.submit, auto-approved: from any status to live.           *)
Submit(e) ==
  /\ status[e] # "live"
  /\ status' = [status EXCEPT ![e] = "live"]
  /\ UNCHANGED <<now, startsAt, endsAt, edits, ledgerVars, tableVars, handlerVars,
                 workerVars, faults>>

(* EventsService.update: the owner sets either date, or both, to anything, *)
(* at any time; nothing compares the two.                                  *)
Update(e) ==
  /\ edits < MaxEdits
  /\ edits' = edits + 1
  /\ \E s \in Dates \cup {startsAt[e]}, t \in Dates \cup {endsAt[e]} :
       /\ startsAt' = [startsAt EXCEPT ![e] = s]
       /\ endsAt' = [endsAt EXCEPT ![e] = t]
  /\ UNCHANGED <<now, status, ledgerVars, tableVars, handlerVars, workerVars, faults>>

(* A tick is a day.  The outer transaction of a cancel is closed after     *)
(* five seconds, so no cancel is still under way when its event, not       *)
(* edited, becomes due for release.                                        *)
Tick ==
  /\ now < MaxTime
  /\ \A h \in Handlers :
       pc[h] \in {"cancelling", "refunded"}
         => ~Cleared(EventOf[row[target[h]].stall], now + 1)
  /\ now' = now + 1
  /\ UNCHANGED <<status, startsAt, endsAt, edits, ledgerVars, tableVars, handlerVars,
                 workerVars, faults>>

-----------------------------------------------------------------------------
(* How a handler ends.                                                     *)

Finish(h) ==
  /\ open' = [open EXCEPT ![h] = FALSE]
  /\ who' = [who EXCEPT ![h] = None]
  /\ at' = [at EXCEPT ![h] = None]
  /\ target' = [target EXCEPT ![h] = None]

Unlocked(h) == [s \in Stalls |-> IF holder[s] = h THEN None ELSE holder[s]]

(* The requests blocked on the row of s when a transaction that updated it *)
(* commits: their snapshot is older than that update, so PostgreSQL fails  *)
(* them ("could not serialize access due to concurrent update").           *)
Blocked(s) == {g \in Handlers : pc[g] = "queued" /\ at[g] = s}

(* Mutant: the checks are read before the row is locked, and nothing fails *)
(* the requests that waited for it meanwhile.                              *)
CommitKeepsBlocked(h, s) ==
  /\ pc' = [pc EXCEPT ![h] = "idle"]
  /\ Finish(h)

CommitOn(h, s) ==
  LET done == {h} \cup Blocked(s) IN
  /\ pc'     = [g \in Handlers |-> IF g \in done THEN "idle" ELSE pc[g]]
  /\ open'   = [g \in Handlers |-> IF g \in done THEN FALSE ELSE open[g]]
  /\ who'    = [g \in Handlers |-> IF g \in done THEN None ELSE who[g]]
  /\ at'     = [g \in Handlers |-> IF g \in done THEN None ELSE at[g]]
  /\ target' = [g \in Handlers |-> IF g \in done THEN None ELSE target[g]]

(* An exception before any money has moved (a failed check, insufficient   *)
(* funds, a refused transfer, a database error, a crash): all is undone.   *)
Reject(h) ==
  /\ pc[h] \in {"queued", "locked", "funded", "cancelling"}
  /\ pc' = [pc EXCEPT ![h] = "idle"]
  /\ holder' = Unlocked(h)
  /\ Finish(h)
  /\ UNCHANGED <<eventVars, ledgerVars, booked, row, workerVars, faults>>

(* The outer transaction expires under a handler that has not moved money  *)
(* yet: PostgreSQL undoes it and drops its lock, but the handler goes on,  *)
(* and its next call, on the wallet service's own client, still works.     *)
Expire(h) ==
  /\ pc[h] \in {"locked", "funded", "cancelling"} /\ open[h]
  /\ faults < MaxFaults
  /\ faults' = faults + 1
  /\ open' = [open EXCEPT ![h] = FALSE]
  /\ holder' = Unlocked(h)
  /\ UNCHANGED <<eventVars, ledgerVars, booked, row, pc, who, at, target, workerVars>>

(* The outer transaction is undone after the transfer has committed: it    *)
(* had expired, it fails to serialize, the process dies.                   *)
RollBack(h) ==
  /\ pc[h] \in {"paid", "refunded"}
  /\ IF open[h] THEN faults < MaxFaults /\ faults' = faults + 1 ELSE faults' = faults
  /\ pc' = [pc EXCEPT ![h] = "idle"]
  /\ holder' = Unlocked(h)
  /\ Finish(h)
  /\ UNCHANGED <<eventVars, ledgerVars, booked, row, workerVars>>

-----------------------------------------------------------------------------
(* POST /events/:eventId/stalls/:stallId/book                              *)

(* Mutant: sold out only when the counter is past the number of slots.     *)
ChecksOffByOne(u, s) ==
  LET e == EventOf[s] IN
  /\ status[e] = "live" /\ endsAt[e] >= now
  /\ Organiser[e] # u
  /\ Available[s] - booked[s] >= 0
  /\ ~\E b \in Confirmed(s) : row[b].user = u

BookChecks(u, s) ==
  LET e == EventOf[s] IN
  /\ status[e] = "live" /\ endsAt[e] >= now
  /\ Organiser[e] # u
  /\ Available[s] - booked[s] > 0
  /\ ~\E b \in Confirmed(s) : row[b].user = u

(* SELECT ... FOR UPDATE takes the snapshot.  A request whose checks fail  *)
(* on it ends with no effect; one that finds the row locked waits.         *)
BookBegin(h, u, s) ==
  /\ h \in BookHandlers /\ pc[h] = "idle"
  /\ BookChecks(u, s)
  /\ open' = [open EXCEPT ![h] = TRUE]
  /\ who' = [who EXCEPT ![h] = u]
  /\ at' = [at EXCEPT ![h] = s]
  /\ IF holder[s] = None
     THEN pc' = [pc EXCEPT ![h] = "locked"] /\ holder' = [holder EXCEPT ![s] = h]
     ELSE pc' = [pc EXCEPT ![h] = "queued"] /\ holder' = holder
  /\ UNCHANGED <<eventVars, ledgerVars, booked, row, target, workerVars, faults>>

(* The transaction it waited for was undone: the row is as in the snapshot. *)
BookGrant(h) ==
  /\ pc[h] = "queued" /\ holder[at[h]] = None
  /\ pc' = [pc EXCEPT ![h] = "locked"]
  /\ holder' = [holder EXCEPT ![at[h]] = h]
  /\ UNCHANGED <<eventVars, ledgerVars, booked, row, open, who, at, target, workerVars,
                 faults>>

(* The vendor's balance is read, with no lock, before the transfer.        *)
BookFunds(h) ==
  /\ pc[h] = "locked"
  /\ wallets[who[h]].available >= Price[at[h]]
  /\ pc' = [pc EXCEPT ![h] = "funded"]
  /\ UNCHANGED <<eventVars, ledgerVars, tableVars, open, who, at, target, workerVars,
                 faults>>

BookPay(h) ==
  /\ pc[h] = "funded"
  /\ Transfer(BookLegs(who[h], at[h]))
  /\ charged' = [charged EXCEPT ![who[h]][at[h]] = @ + 1]
  /\ pc' = [pc EXCEPT ![h] = "paid"]
  /\ UNCHANGED <<eventVars, refunds, releases, tableVars, open, who, at, target,
                 workerVars, faults>>

BookCommit(h) ==
  /\ pc[h] = "paid" /\ open[h]
  /\ \E b \in BookingIds :
       /\ row[b] = NoRow
       /\ row' = [row EXCEPT ![b] = [state |-> "confirmed", user |-> who[h],
                                     stall |-> at[h]]]
  /\ booked' = [booked EXCEPT ![at[h]] = @ + 1]
  /\ holder' = Unlocked(h)
  /\ CommitOn(h, at[h])
  /\ UNCHANGED <<eventVars, ledgerVars, workerVars, faults>>

-----------------------------------------------------------------------------
(* POST /bookings/:id/cancel                                               *)

(* Mutant: no look at the event's start.                                   *)
CancelAnyTime(h, b) ==
  /\ h \in CancelHandlers /\ pc[h] = "idle"
  /\ row[b].state = "confirmed"
  /\ pc' = [pc EXCEPT ![h] = "cancelling"]
  /\ open' = [open EXCEPT ![h] = TRUE]
  /\ target' = [target EXCEPT ![h] = b]
  /\ UNCHANGED <<eventVars, ledgerVars, tableVars, who, at, workerVars, faults>>

CancelBegin(h, b) ==
  /\ h \in CancelHandlers /\ pc[h] = "idle"
  /\ row[b].state = "confirmed"
  /\ startsAt[EventOf[row[b].stall]] >= now
  /\ pc' = [pc EXCEPT ![h] = "cancelling"]
  /\ open' = [open EXCEPT ![h] = TRUE]
  /\ target' = [target EXCEPT ![h] = b]
  /\ UNCHANGED <<eventVars, ledgerVars, tableVars, who, at, workerVars, faults>>

CancelRefund(h) ==
  LET b == target[h] IN
  /\ pc[h] = "cancelling" /\ Settled(b) < MaxSettles
  /\ Transfer(RefundLegs(row[b].user, row[b].stall))
  /\ refunds' = [refunds EXCEPT ![b] = @ + 1]
  /\ pc' = [pc EXCEPT ![h] = "refunded"]
  /\ UNCHANGED <<eventVars, charged, releases, tableVars, open, who, at, target,
                 workerVars, faults>>

(* Mutant: the rows are updated first and the money refunded after.        *)
CancelCommitsFirst(h) ==
  LET b == target[h] IN
  /\ pc[h] = "cancelling" /\ open[h]
  /\ holder[row[b].stall] = None
  /\ booked' = [booked EXCEPT ![row[b].stall] = @ - 1]
  /\ row' = [row EXCEPT ![b].state = "cancelled"]
  /\ open' = [open EXCEPT ![h] = FALSE]
  /\ UNCHANGED <<eventVars, ledgerVars, holder, pc, who, at, target, workerVars, faults>>

(* The stall's slot and the row's status, whatever the row says by now.    *)
(* The counter's row may be locked by a book(): cancel waits for it.       *)
CancelCommit(h) ==
  LET b == target[h] IN
  /\ pc[h] = "refunded" /\ open[h]
  /\ holder[row[b].stall] = None
  /\ booked' = [booked EXCEPT ![row[b].stall] = @ - 1]
  /\ row' = [row EXCEPT ![b].state = "cancelled"]
  /\ holder' = holder
  /\ CommitOn(h, row[b].stall)
  /\ UNCHANGED <<eventVars, ledgerVars, workerVars, faults>>

-----------------------------------------------------------------------------
(* QueueRunner.releaseEscrow                                               *)

(* Mutant: the job id makes the queue drop every run after the first.      *)
ReleaseScanOnce(w) ==
  /\ batch[w] = {} /\ paying[w] = None
  /\ \A b \in BookingIds : releases[b] = 0
  /\ \E b \in BookingIds : Due(b)
  /\ batch' = [batch EXCEPT ![w] = {b \in BookingIds : Due(b)}]
  /\ UNCHANGED <<eventVars, ledgerVars, tableVars, handlerVars, paying, faults>>

(* Mutant: candidates are picked by their event's date alone.              *)
ReleaseScanAnyStatus(w) ==
  /\ batch[w] = {} /\ paying[w] = None
  /\ \E b \in BookingIds : Due(b)
  /\ batch' = [batch EXCEPT ![w] =
                 {b \in BookingIds : row[b] # NoRow /\ Cleared(EventOf[row[b].stall], now)}]
  /\ UNCHANGED <<eventVars, ledgerVars, tableVars, handlerVars, paying, faults>>

ReleaseScan(w) ==
  /\ batch[w] = {} /\ paying[w] = None
  /\ \E b \in BookingIds : Due(b)
  /\ batch' = [batch EXCEPT ![w] = {b \in BookingIds : Due(b)}]
  /\ UNCHANGED <<eventVars, ledgerVars, tableVars, handlerVars, paying, faults>>

ReleasePay(w) ==
  /\ paying[w] = None
  /\ \E b \in batch[w] :
       /\ Settled(b) < MaxSettles
       /\ Transfer(ReleaseLegs(row[b].stall))
       /\ releases' = [releases EXCEPT ![b] = @ + 1]
       /\ paying' = [paying EXCEPT ![w] = b]
       /\ batch' = [batch EXCEPT ![w] = @ \ {b}]
  /\ UNCHANGED <<eventVars, charged, refunds, tableVars, handlerVars, faults>>

(* Unconditional: the row's status by now is not looked at.                *)
ReleaseMark(w) ==
  /\ paying[w] # None
  /\ row' = [row EXCEPT ![paying[w]].state = "released"]
  /\ paying' = [paying EXCEPT ![w] = None]
  /\ UNCHANGED <<eventVars, ledgerVars, booked, holder, handlerVars, batch, faults>>

(* One booking's step throws and is logged, or the whole process dies.     *)
WorkerFails(w) ==
  /\ batch[w] # {} \/ paying[w] # None
  /\ faults < MaxFaults
  /\ faults' = faults + 1
  /\ paying' = [paying EXCEPT ![w] = None]
  /\ \/ /\ paying[w] = None
        /\ \E b \in batch[w] : batch' = [batch EXCEPT ![w] = @ \ {b}]
     \/ paying[w] # None /\ batch' = batch
     \/ batch' = [batch EXCEPT ![w] = {}]
  /\ UNCHANGED <<eventVars, ledgerVars, tableVars, handlerVars>>

-----------------------------------------------------------------------------
OrganiserStep == \E e \in Events : Submit(e) \/ Update(e)

BookStep(h) ==
  \/ \E u \in Users, s \in Stalls : BookBegin(h, u, s)
  \/ BookGrant(h) \/ BookFunds(h) \/ BookPay(h) \/ BookCommit(h)

CancelStep(h) ==
  \/ \E b \in BookingIds : CancelBegin(h, b)
  \/ CancelRefund(h) \/ CancelCommit(h)

HandlerStep(h) ==
  BookStep(h) \/ CancelStep(h) \/ Reject(h) \/ Expire(h) \/ RollBack(h)

WorkerStep(w) == ReleaseScan(w) \/ ReleasePay(w) \/ ReleaseMark(w) \/ WorkerFails(w)

Next ==
  \/ OrganiserStep \/ Tick
  \/ \E h \in Handlers : HandlerStep(h)
  \/ \E w \in Workers : WorkerStep(w)

Spec == Init /\ [][Next]_vars

(* The job's own steps are taken: BullMQ repeats it every hour and runs it *)
(* again after a failure.                                                  *)
WorkerProgress(w) == ReleaseScan(w) \/ ReleasePay(w) \/ ReleaseMark(w)
FairSpec == Spec /\ \A w \in Workers : WF_vars(WorkerProgress(w))

-----------------------------------------------------------------------------
(* Properties.                                                             *)

Steps == {"idle", "queued", "locked", "funded", "paid", "cancelling", "refunded"}

(* The types of the tables, the ledger's counts and the processes.         *)
TypeOK ==
  /\ now \in Times /\ edits \in Nat /\ faults \in Nat
  /\ status \in [Events -> {"draft", "live"}]
  /\ startsAt \in [Events -> Times] /\ endsAt \in [Events -> Times]
  /\ booked \in [Stalls -> Int]
  /\ holder \in [Stalls -> Handlers \cup {None}]
  /\ row \in [BookingIds -> Rows \cup {NoRow}]
  /\ wallets \in [Owners -> WalletRow]
  /\ charged \in [Users -> [Stalls -> Nat]]
  /\ refunds \in [BookingIds -> Nat] /\ releases \in [BookingIds -> Nat]
  /\ pc \in [Handlers -> Steps]
  /\ open \in [Handlers -> BOOLEAN]
  /\ who \in [Handlers -> Users \cup {None}]
  /\ at \in [Handlers -> Stalls \cup {None}]
  /\ target \in [Handlers -> BookingIds \cup {None}]
  /\ batch \in [Workers -> SUBSET BookingIds]
  /\ paying \in [Workers -> BookingIds \cup {None}]

(* book() looks for an earlier booking of the vendor with a plain read and *)
(* no unique constraint backs it: still no vendor ever holds two confirmed *)
(* bookings of one stall, however requests interleave.                     *)
OneConfirmedPerVendor ==
  \A s \in Stalls : \A b, c \in Confirmed(s) : row[b].user = row[c].user => b = c

(* As long as the ledger shows no booking of a stall settled twice, its    *)
(* counter is the number of its live bookings and is within available: the *)
(* last slot is sold once.  (A double refund gives the slot back twice.)   *)
NoOversell ==
  \A s \in Stalls :
    (\A b \in RowsAt(s) : Settled(b) <= 1)
      => booked[s] = Cardinality(Live(s)) /\ booked[s] <= Available[s]

(* Sums over the ledger's transfers.                                       *)
Charges(S, amount) == SumFunction([x \in S |-> charged[x[1]][x[2]] * amount[x[2]]])
Settlements(B, count, amount) ==
  SumFunction([b \in B |-> count[b] * amount[row[b].stall]])
Fees    == [s \in Stalls |-> Fee(s)]
Escrows == [s \in Stalls |-> Escrow(s)]
Booked(S)   == {b \in BookingIds : row[b].stall \in S}
StallsOf(o) == {s \in Stalls : Biz(s) = o}

(* The balances kept on the wallet rows are what the ledger's entries add  *)
(* up to, bucket by bucket, after every failure: what a booking charged,   *)
(* less what its refunds and releases moved.  No paisa is made or lost.    *)
WalletsMatchLedger ==
  /\ \A u \in Users :
       LET mine == {b \in BookingIds : row[b].user = u} IN
       /\ wallets[u].available
            = Funds[u] - Charges({u} \X Stalls, Price) + Settlements(mine, refunds, Price)
       /\ wallets[u].pending = 0
  /\ \A o \in Businesses :
       LET S == StallsOf(o)  B == Booked(S) IN
       /\ wallets[o].available = Settlements(B, releases, Escrows)
       /\ wallets[o].pending
            = Charges(Users \X S, Escrows)
                - Settlements(B, refunds, Escrows) - Settlements(B, releases, Escrows)
  /\ wallets[House].available
       = Charges(Users \X Stalls, Fees) - Settlements(Booked(Stalls), refunds, Fees)
  /\ TotalPaise(wallets) = SumFunction(Funds)

(* A status is never ahead of its money: every booking row was paid by a   *)
(* transfer of its own, no cancelled booking lacks its refund and no       *)
(* released one its release, whichever transaction failed.                 *)
StatusIsPaidFor ==
  /\ \A u \in Users, s \in Stalls :
       Cardinality({b \in RowsAt(s) : row[b].user = u}) <= charged[u][s]
  /\ \A b \in BookingIds :
       /\ row[b].state = "cancelled" => refunds[b] >= 1
       /\ row[b].state = "released" => releases[b] >= 1

(* While no booking of an organiser's stalls has been settled twice, the   *)
(* pending bucket covers the escrow of every booking that has not been     *)
(* settled: nobody else's refund or release eats it.                       *)
EscrowCovered ==
  \A o \in Businesses :
    LET B == Booked(StallsOf(o)) IN
    (\A b \in B : Settled(b) <= 1)
      => wallets[o].pending
           >= SumFunction([b \in {c \in B : Settled(c) = 0} |-> Escrow(row[b].stall)])

(* A booking whose event ended more than a day ago does not stay           *)
(* confirmed: the job gets to it, also after failures.                     *)
EscrowEventuallyReleased ==
  \A b \in BookingIds : Due(b) ~> row[b].state # "confirmed"

(* With dates nobody edits and no failure after money has moved, the time  *)
(* windows of cancel and of release keep a booking from being both         *)
(* refunded and released, although neither looks at the other.             *)
RefundedOrReleased ==
  edits = 0 /\ faults = 0
    => \A b \in BookingIds : refunds[b] = 0 \/ releases[b] = 0

(* What booking-cancel.e2e-spec.ts says of two concurrent cancels: exactly *)
(* one refund.                                                             *)
ExactlyOneRefund == \A b \in BookingIds : refunds[b] <= 1

(* What book()'s comment says ("Atomic"): a vendor is charged for a stall  *)
(* as often as a booking of it was inserted or is about to be.             *)
ChargedIffBooked ==
  \A u \in Users, s \in Stalls :
    charged[u][s] = Cardinality({b \in RowsAt(s) : row[b].user = u})
                      + Cardinality({h \in Handlers : pc[h] = "paid" /\ who[h] = u
                                                       /\ at[h] = s})
=============================================================================
