--------------------------- MODULE Subscriptions ---------------------------
(***************************************************************************)
(* SubscriptionsService and the hourly billing job, for one plan.  The     *)
(* reads, the transfer and the write of the row are separate statements;   *)
(* the job works through the list it read at its start.                    *)
(***************************************************************************)
EXTENDS Wallet

CONSTANTS
  Subs,            \* rows of subscriptions
  Clerks,          \* handlers of subscribe and cancel
  Billers,         \* runs of the billing job
  NoSub,           \* "no row", and "no user" of an idle handler
  PlanPrice,
  MaxMonths, MaxPlusTopups, MaxPlusFaults   \* bounds, see the README

ASSUME SubscriptionConstants ==
  /\ IsFiniteSet(Subs) /\ IsFiniteSet(Clerks) /\ IsFiniteSet(Billers)
  /\ NoSub \notin Users \cup Subs /\ "idle" \notin Subs
  /\ PlanPrice \in Nat \ {0}
  /\ {MaxMonths, MaxPlusTopups, MaxPlusFaults} \subseteq Nat

VARIABLES
  month,               \* the clock
  sub,                 \* the rows: user, status, nextBillingAt and startedAt
  cpc, cuser, crow,    \* each clerk: step, user, row
  batch, seen, bpc,    \* each biller: rows still to do, their dates as read, step
  charged,             \* history: [Users -> Nat], months paid for
  excused,             \* history: users whose payment a fault or an overlap lost
  crossed,             \* history: users two of whose subscribe calls overlapped,
                       \* or whose cancelled row the job marked past_due
  plusTopups, plusFaults

clerkVars  == <<cpc, cuser, crow>>
billerVars == <<batch, seen, bpc>>
plusHistory == <<charged, excused, crossed>>
plusVars == <<month, sub, clerkVars, billerVars, plusHistory, plusTopups, plusFaults>>

-----------------------------------------------------------------------------
NoRow == [user |-> NoSub, status |-> "none", due |-> 0, started |-> 0]

Open == {"active", "past_due"}

PlanLegs(u) ==
  << Leg(u, "D", PlanPrice, "available"), Leg(House, "C", PlanPrice, "available") >>

PlusInit ==
  /\ wallets = [o \in Owners |-> [available |-> 0, pending |-> 0]]
  /\ month = 0
  /\ sub = [s \in Subs |-> NoRow]
  /\ cpc = [c \in Clerks |-> "idle"]
  /\ cuser = [c \in Clerks |-> NoSub] /\ crow = [c \in Clerks |-> NoSub]
  /\ batch = [w \in Billers |-> {}]
  /\ seen = [w \in Billers |-> [s \in Subs |-> 0]]
  /\ bpc = [w \in Billers |-> "idle"]
  /\ charged = [u \in Users |-> 0]
  /\ excused = {} /\ crossed = {} /\ plusTopups = 0 /\ plusFaults = 0

MonthPasses ==
  /\ month < MaxMonths
  /\ month' = month + 1
  /\ UNCHANGED <<wallets, sub, clerkVars, billerVars, plusHistory, plusTopups, plusFaults>>

(* Money comes into the wallet (see Payments).                             *)
TopUp(u) ==
  /\ plusTopups < MaxPlusTopups
  /\ plusTopups' = plusTopups + 1
  /\ Transfer(<< Leg(House, "D", PlanPrice, "available"), Leg(u, "C", PlanPrice, "available") >>)
  /\ UNCHANGED <<month, sub, clerkVars, billerVars, plusHistory, plusFaults>>

-----------------------------------------------------------------------------
Clerk(c, from, to, u, s) ==
  /\ cpc[c] = from
  /\ cpc' = [cpc EXCEPT ![c] = to]
  /\ cuser' = [cuser EXCEPT ![c] = u]
  /\ crow' = [crow EXCEPT ![c] = s]

ClerkDone(c, from) == Clerk(c, from, "idle", NoSub, NoSub)

(* subscribe: no open subscription of the user to this plan.               *)
SubscribeRead(c, u) ==
  /\ \A s \in Subs : ~(sub[s].user = u /\ sub[s].status \in Open)
  /\ Clerk(c, "idle", "subscribing", u, NoSub)
  /\ crossed' = IF \E d \in Clerks : cuser[d] = u THEN crossed \cup {u} ELSE crossed
  /\ UNCHANGED <<wallets, month, sub, billerVars, charged, excused, plusTopups, plusFaults>>

(* The balance is read, and the first month charged, or refused.           *)
SubscribePay(c) ==
  LET u == cuser[c] IN
  /\ cpc[c] = "subscribing"
  /\ \/ /\ Transfer(PlanLegs(u))
        /\ charged' = [charged EXCEPT ![u] = @ + 1]
        /\ Clerk(c, "subscribing", "inserting", u, NoSub)
     \/ /\ wallets[u].available < PlanPrice
        /\ ClerkDone(c, "subscribing")
        /\ UNCHANGED <<wallets, charged>>
  /\ UNCHANGED <<month, sub, billerVars, excused, crossed, plusTopups, plusFaults>>

SubscribeInsert(c) ==
  /\ cpc[c] = "inserting"
  /\ \E s \in Subs :
       /\ sub[s] = NoRow
       /\ sub' = [sub EXCEPT ![s] = [user |-> cuser[c], status |-> "active",
                                     due |-> month + 1, started |-> month]]
  /\ ClerkDone(c, "inserting")
  /\ UNCHANGED <<wallets, month, billerVars, plusHistory, plusTopups, plusFaults>>

CancelRead(c, s) ==
  /\ sub[s].status \in Open
  /\ Clerk(c, "idle", "cancelling", NoSub, s)
  /\ UNCHANGED <<wallets, month, sub, billerVars, plusHistory, plusTopups, plusFaults>>

CancelWrite(c) ==
  /\ cpc[c] = "cancelling"
  /\ sub' = [sub EXCEPT ![crow[c]].status = "cancelled"]
  /\ ClerkDone(c, "cancelling")
  /\ UNCHANGED <<wallets, month, billerVars, plusHistory, plusTopups, plusFaults>>

ClerkFails(c) ==
  /\ cpc[c] # "idle" /\ plusFaults < MaxPlusFaults
  /\ plusFaults' = plusFaults + 1
  /\ excused' = IF cpc[c] = "inserting" THEN excused \cup {cuser[c]} ELSE excused
  /\ ClerkDone(c, cpc[c])
  /\ UNCHANGED <<wallets, month, sub, billerVars, charged, crossed, plusTopups>>

-----------------------------------------------------------------------------
Held(s) == \E w \in Billers : s \in batch[w]

Scan(w, due) ==
  /\ bpc[w] = "idle" /\ batch[w] = {} /\ due # {}
  /\ batch' = [batch EXCEPT ![w] = due]
  /\ seen' = [seen EXCEPT ![w] = [s \in Subs |-> IF s \in due THEN sub[s].due ELSE 0]]
  /\ excused' = excused \cup {sub[s].user : s \in {r \in due : Held(r)}}
  /\ UNCHANGED <<wallets, month, sub, clerkVars, bpc, charged, crossed, plusTopups, plusFaults>>

(* Mutant: the scan does not look at the status.                           *)
BillScanAny(w) == Scan(w, {s \in Subs : sub[s] # NoRow /\ sub[s].due <= month})

BillScan(w) == Scan(w, {s \in Subs : sub[s].status = "active" /\ sub[s].due <= month})

BillDrop(w, s) ==
  /\ batch' = [batch EXCEPT ![w] = @ \ {s}]
  /\ seen' = [seen EXCEPT ![w][s] = 0]

(* The balance read for one of the rows is too low: the row is marked,     *)
(* whatever it says by now.                                                *)
BillPastDue(w, s) ==
  /\ bpc[w] = "idle" /\ s \in batch[w]
  /\ wallets[sub[s].user].available < PlanPrice
  /\ sub' = [sub EXCEPT ![s].status = "past_due"]
  /\ crossed' = IF sub[s].status = "cancelled" THEN crossed \cup {sub[s].user} ELSE crossed
  /\ BillDrop(w, s)
  /\ UNCHANGED <<wallets, month, clerkVars, bpc, charged, excused, plusTopups, plusFaults>>

BillPay(w, s) ==
  LET u == sub[s].user IN
  /\ bpc[w] = "idle" /\ s \in batch[w]
  /\ Transfer(PlanLegs(u))
  /\ charged' = [charged EXCEPT ![u] = @ + 1]
  /\ bpc' = [bpc EXCEPT ![w] = s]
  /\ UNCHANGED <<month, sub, clerkVars, batch, seen, excused, crossed, plusTopups, plusFaults>>

(* Mutant: the next date is reckoned from now.                             *)
BillAdvanceFromNow(w) ==
  LET s == bpc[w] IN
  /\ s \in Subs
  /\ sub' = [sub EXCEPT ![s].due = month + 1]
  /\ bpc' = [bpc EXCEPT ![w] = "idle"]
  /\ BillDrop(w, s)
  /\ UNCHANGED <<wallets, month, clerkVars, plusHistory, plusTopups, plusFaults>>

(* The next date is a month after the one read by the scan.                *)
BillAdvance(w) ==
  LET s == bpc[w] IN
  /\ s \in Subs
  /\ sub' = [sub EXCEPT ![s].due = seen[w][s] + 1]
  /\ bpc' = [bpc EXCEPT ![w] = "idle"]
  /\ BillDrop(w, s)
  /\ UNCHANGED <<wallets, month, clerkVars, plusHistory, plusTopups, plusFaults>>

(* A failure of one row is logged and the run goes on (one), or the        *)
(* process dies (all).                                                     *)
BillFails(w) ==
  /\ batch[w] # {} /\ plusFaults < MaxPlusFaults
  /\ plusFaults' = plusFaults + 1
  /\ excused' = IF bpc[w] = "idle" THEN excused ELSE excused \cup {sub[bpc[w]].user}
  /\ \E lost \in {batch[w]} \cup {{s} : s \in IF bpc[w] = "idle" THEN batch[w] ELSE {bpc[w]}} :
       /\ batch' = [batch EXCEPT ![w] = @ \ lost]
       /\ seen' = [seen EXCEPT ![w] = [s \in Subs |-> IF s \in lost THEN 0 ELSE @[s]]]
  /\ bpc' = [bpc EXCEPT ![w] = "idle"]
  /\ UNCHANGED <<wallets, month, sub, clerkVars, charged, crossed, plusTopups>>

BillStep(w) ==
  BillScan(w) \/ BillAdvance(w) \/ \E s \in Subs : BillPastDue(w, s) \/ BillPay(w, s)

PlusNext ==
  \/ MonthPasses
  \/ \E u \in Users : TopUp(u)
  \/ \E c \in Clerks :
       \/ SubscribePay(c) \/ SubscribeInsert(c) \/ CancelWrite(c) \/ ClerkFails(c)
       \/ \E u \in Users : SubscribeRead(c, u)
       \/ \E s \in Subs : CancelRead(c, s)
  \/ \E w \in Billers : BillStep(w) \/ BillFails(w)

PlusSpec == PlusInit /\ [][PlusNext]_<<wallets, plusVars>>

(* Handlers and the hourly job go on.                                      *)
PlusFairSpec ==
  /\ PlusSpec
  /\ \A w \in Billers : WF_<<wallets, plusVars>>(BillStep(w))
  /\ \A c \in Clerks :
       WF_<<wallets, plusVars>>(SubscribePay(c) \/ SubscribeInsert(c) \/ CancelWrite(c))

-----------------------------------------------------------------------------
PlusTypeOK ==
  /\ month \in 0..MaxMonths
  /\ sub \in [Subs -> {NoRow} \cup [user : Users, status : Open \cup {"cancelled"},
                                    due : Nat, started : Nat]]
  /\ cpc \in [Clerks -> {"idle", "subscribing", "inserting", "cancelling"}]
  /\ cuser \in [Clerks -> Users \cup {NoSub}] /\ crow \in [Clerks -> Subs \cup {NoSub}]
  /\ batch \in [Billers -> SUBSET Subs] /\ seen \in [Billers -> [Subs -> Nat]]
  /\ bpc \in [Billers -> Subs \cup {"idle"}]
  /\ charged \in [Users -> Nat] /\ excused \subseteq Users /\ crossed \subseteq Users

Covered(u) ==
  SumFunctionOnSet([s \in Subs |-> sub[s].due - sub[s].started], {s \in Subs : sub[s].user = u})
Unwritten(u) ==
  Cardinality({c \in Clerks : cuser[c] = u /\ cpc[c] = "inserting"})
    + Cardinality({w \in Billers : bpc[w] \in Subs /\ sub[bpc[w]].user = u})

(* A user pays for every month of Plus and for no other, however late the  *)
(* job runs, and whoever cancels meanwhile; only two runs at once, or a    *)
(* failure between charge and write, may charge a month that is not given. *)
MonthsPaidFor ==
  \A u \in Users :
    /\ charged[u] >= Covered(u)
    /\ u \notin excused => charged[u] = Covered(u) + Unwritten(u)

(* One open subscription to the plan, unless two calls of the user overlap *)
(* or the job still held a row that was cancelled.                         *)
OnePlanEach ==
  \A u \in Users \ crossed :
    \A s, t \in Subs :
      /\ sub[s].user = u /\ sub[s].status \in Open
      /\ sub[t].user = u /\ sub[t].status \in Open
      => s = t

(* One plan each, and every month of it paid for once.                     *)
PlusAccounted == MonthsPaidFor /\ OnePlanEach

(* What is cancelled stays so and is charged no more, unless the job had   *)
(* it on its list already.                                                 *)
CancelledIsFinal ==
  [][\A s \in Subs : sub[s].status = "cancelled" /\ ~Held(s) => sub'[s] = sub[s] /\ ~Held(s)']_
    <<wallets, plusVars>>

(* "Top up to resume your subscription".                                   *)
PastDueResumes ==
  \A s \in Subs :
    sub[s].status = "past_due" /\ wallets[sub[s].user].available >= PlanPrice
      ~> sub[s].status # "past_due"
=============================================================================
