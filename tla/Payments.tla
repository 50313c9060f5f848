------------------------------ MODULE Payments ------------------------------
(***************************************************************************)
(* PaymentsService: a top-up is a payment_events row; in production the    *)
(* payment provider (PayU) reports its outcome to a webhook, any number of *)
(* times and in any order, and every delivery is handled on its own: the   *)
(* row's status is read, the wallet credited, the status written, each in  *)
(* a step of its own and none in a common transaction.  The endpoint is    *)
(* public and a request without a signature is handled like a signed one,  *)
(* so a request may say any outcome of a row, whatever the provider said.  *)
(***************************************************************************)
EXTENDS Wallet

CONSTANTS
  Topups,          \* payment_events rows, by their externalId
  Receivers,       \* request handlers
  Payer,           \* [Topups -> Users]
  Amount,          \* [Topups -> Nat]: amountPaise
  NoTopup,
  MaxCredits, MaxPayFaults   \* bounds, see the README

ASSUME PaymentConstants ==
  /\ IsFiniteSet(Topups)
  /\ Payer \in [Topups -> Users]
  /\ Amount \in [Topups -> Nat \ {0}]
  /\ NoTopup \notin Topups
  /\ MaxCredits \in Nat /\ MaxPayFaults \in Nat

VARIABLES
  production,   \* NODE_ENV: outside production a top-up is credited at once
  evt,          \* payment_events.status; "none": no such row yet
  paid,         \* rows the provider reports as successful, until it is answered
  rpc, topup,   \* each receiver: step, and the row it read
  credited,     \* transfers in the ledger, by the row they credit
  raced,        \* history: rows two receivers have handled at the same time
  payFaults

payVars == <<production, evt, paid, rpc, topup, credited, raced, payFaults>>

-----------------------------------------------------------------------------
(* The house stands for the money the provider holds: it may go negative.  *)
TopupLegs(p) ==
  << Leg(House, "D", Amount[p], "available"),
     Leg(Payer[p], "C", Amount[p], "available") >>

PayInit ==
  /\ wallets = [o \in Owners |-> [available |-> 0, pending |-> 0]]
  /\ production \in BOOLEAN
  /\ evt = [p \in Topups |-> "none"]
  /\ paid = {}
  /\ rpc = [d \in Receivers |-> "idle"]
  /\ topup = [d \in Receivers |-> NoTopup]
  /\ credited = [p \in Topups |-> 0]
  /\ raced = {}
  /\ payFaults = 0

Handling(p) == {d \in Receivers : topup[d] = p}

Take(d, p, step) ==
  /\ rpc[d] = "idle"
  /\ rpc' = [rpc EXCEPT ![d] = step]
  /\ topup' = [topup EXCEPT ![d] = p]
  /\ raced' = IF Handling(p) = {} THEN raced ELSE raced \cup {p}

Done(d) ==
  /\ rpc' = [rpc EXCEPT ![d] = "idle"]
  /\ topup' = [topup EXCEPT ![d] = NoTopup]

(* initiateTopup: the row, and a redirect to the provider's page...        *)
InitiateTopup(p) ==
  /\ production /\ evt[p] = "none"
  /\ evt' = [evt EXCEPT ![p] = "pending"]
  /\ UNCHANGED <<wallets, production, paid, rpc, topup, credited, raced, payFaults>>

(* ... or, outside production, simulateInstantTopup goes on with it.       *)
SimulateTopup(d, p) ==
  /\ ~production /\ evt[p] = "none"
  /\ evt' = [evt EXCEPT ![p] = "pending"]
  /\ Take(d, p, "crediting")
  /\ UNCHANGED <<wallets, production, paid, credited, payFaults>>

(* The provider (external): an attempt to pay succeeds.                    *)
PspPaid(p) ==
  /\ production /\ evt[p] # "none" /\ p \notin paid
  /\ paid' = paid \cup {p}
  /\ UNCHANGED <<wallets, production, evt, rpc, topup, credited, raced, payFaults>>

Step(outcome) == IF outcome = "success" THEN "crediting" ELSE "failing"

(* A row a request can name and whose status handleWebhook goes on with.   *)
Unsettled == {p \in Topups : production /\ evt[p] \notin {"none", "success"}}

(* Mutant: a payment that has failed once is taken for final.              *)
WebhookOnlyPending(d, p, outcome) ==
  /\ p \in Unsettled /\ evt[p] = "pending"
  /\ Take(d, p, Step(outcome))
  /\ UNCHANGED <<wallets, production, evt, paid, credited, payFaults>>

(* Mutant: the test for a duplicate is made for reports of success only.   *)
WebhookFailsAny(d, p, outcome) ==
  /\ production /\ evt[p] # "none" /\ (outcome = "success" => p \in Unsettled)
  /\ Take(d, p, Step(outcome))
  /\ UNCHANGED <<wallets, production, evt, paid, credited, payFaults>>

(* Mutant: the status is written first, "so that a replay is a duplicate". *)
WebhookMarksFirst(d, p, outcome) ==
  /\ p \in Unsettled
  /\ Take(d, p, Step(outcome))
  /\ evt' = IF outcome = "success" THEN [evt EXCEPT ![p] = "success"] ELSE evt
  /\ UNCHANGED <<wallets, production, paid, credited, payFaults>>

(* handleWebhook, for a request that says an outcome of a row: the         *)
(* provider's, again or late, or any other, for the signature is compared  *)
(* only when a request has one and a key is configured.  It reads the row; *)
(* one that says success is a duplicate: nothing more is done.             *)
Webhook(d, p, outcome) ==
  /\ p \in Unsettled
  /\ Take(d, p, Step(outcome))
  /\ UNCHANGED <<wallets, production, evt, paid, credited, payFaults>>

CreditUser(d) ==
  LET p == topup[d] IN
  /\ rpc[d] = "crediting" /\ credited[p] < MaxCredits
  /\ Transfer(TopupLegs(p))
  /\ credited' = [credited EXCEPT ![p] = @ + 1]
  /\ rpc' = [rpc EXCEPT ![d] = "credited"]
  /\ UNCHANGED <<production, evt, paid, topup, raced, payFaults>>

(* Mutant: the handler returns without writing the status.                 *)
MarkNothing(d) ==
  /\ rpc[d] = "credited"
  /\ Done(d)
  /\ UNCHANGED <<wallets, production, evt, paid, credited, raced, payFaults>>

MarkSuccess(d) ==
  /\ rpc[d] = "credited"
  /\ evt' = [evt EXCEPT ![topup[d]] = "success"]
  /\ Done(d)
  /\ UNCHANGED <<wallets, production, paid, credited, raced, payFaults>>

(* Unconditional: the row may say success by now.                          *)
MarkFailed(d) ==
  /\ rpc[d] = "failing"
  /\ evt' = [evt EXCEPT ![topup[d]] = "failed"]
  /\ Done(d)
  /\ UNCHANGED <<wallets, production, paid, credited, raced, payFaults>>

(* The process dies, or a database call fails, between two steps.          *)
ReceiverFails(d) ==
  /\ rpc[d] # "idle" /\ payFaults < MaxPayFaults
  /\ payFaults' = payFaults + 1
  /\ Done(d)
  /\ UNCHANGED <<wallets, production, evt, paid, credited, raced>>

ReceiverGoesOn(d) == CreditUser(d) \/ MarkSuccess(d) \/ MarkFailed(d)

PayNext ==
  \/ \E p \in Topups : InitiateTopup(p) \/ PspPaid(p)
  \/ \E d \in Receivers, p \in Topups :
       \/ SimulateTopup(d, p)
       \/ \E outcome \in {"failed", "success"} : Webhook(d, p, outcome)
  \/ \E d \in Receivers : ReceiverGoesOn(d) \/ ReceiverFails(d)

PaySpec == PayInit /\ [][PayNext]_<<wallets, payVars>>

(* A handler that has begun goes on.  The provider repeats a report until  *)
(* it is answered, and the server takes it at some point however many      *)
(* other requests keep its handlers busy.                                  *)
Delivered(p) == p \in paid /\ \E d \in Receivers : Webhook(d, p, "success")

PayFairSpec ==
  /\ PaySpec
  /\ \A d \in Receivers : WF_<<wallets, payVars>>(ReceiverGoesOn(d))
  /\ \A p \in Topups : SF_<<wallets, payVars>>(Delivered(p))

-----------------------------------------------------------------------------
PayTypeOK ==
  /\ production \in BOOLEAN
  /\ evt \in [Topups -> {"none", "pending", "failed", "success"}]
  /\ paid \subseteq Topups
  /\ rpc \in [Receivers -> {"idle", "crediting", "failing", "credited"}]
  /\ topup \in [Receivers -> Topups \cup {NoTopup}]
  /\ credited \in [Topups -> Nat]
  /\ raced \subseteq Topups
  /\ payFaults \in Nat

(* A row says success only after its money has reached the wallet, so that *)
(* answering "duplicate" never loses a payment, whatever fails in between. *)
SuccessIsCredited ==
  \A p \in Topups : evt[p] = "success" => credited[p] >= 1

(* A late report of failure never hides a payment: a row whose money is in *)
(* the wallet says success, or its handler is about to write that, so that *)
(* the next report is answered "duplicate".  For reports in any order,     *)
(* each handled before the next and to its end.                            *)
CreditIsMarked ==
  \A p \in Topups :
    payFaults = 0 /\ p \notin raced /\ credited[p] > 0
      => evt[p] = "success" \/ \E d \in Handling(p) : rpc[d] = "credited"

(* Deliveries that do not overlap, each handled to its end, credit once:   *)
(* in any order, with any number of duplicates.                            *)
CreditedOnceInTurn ==
  \A p \in Topups : payFaults = 0 /\ p \notin raced => credited[p] <= 1

(* What handleWebhook's comment says ("Idempotent via externalId"): a      *)
(* payment is credited at most once.                                       *)
CreditedOnce == \A p \in Topups : credited[p] <= 1

(* A payment the provider reports as successful until it is answered       *)
(* reaches the wallet, after failed attempts, lost answers and crashes.    *)
PaidIsCredited ==
  \A p \in Topups : p \in paid ~> credited[p] >= 1
=============================================================================
