------------------------------- MODULE Wallet -------------------------------
(***************************************************************************)
(* WalletService: one wallet per user, per business and one for the        *)
(* platform ("the house"), and the double-entry transfer every other       *)
(* service moves money with.  A transfer runs in a database transaction of *)
(* its OWN (it uses the service's client, never the caller's), so it       *)
(* commits, or fails as a whole, in one step of whoever calls it.          *)
(*                                                                         *)
(* Amounts are integer paise.  A leg debits ("D") or credits ("C") one     *)
(* bucket of one wallet; every call in the repository passes two or three. *)
(***************************************************************************)
EXTENDS Integers, Sequences, FiniteSetsExt

CONSTANTS Users,        \* owners of 'user' wallets
          Businesses,   \* owners of 'business' wallets (organiser profiles)
          House         \* the owner of the one 'platform' wallet

Owners == Users \cup Businesses \cup {House}

ASSUME OwnersDistinct ==
  /\ Users \cap Businesses = {}
  /\ House \notin Users \cup Businesses

VARIABLE wallets

-----------------------------------------------------------------------------
(* The row: balancePaise is the available bucket, pendingPaise escrow.     *)
WalletRow == [available : Int, pending : Int]

Leg(owner, direction, amount, bucket) ==
  [owner |-> owner, direction |-> direction, amount |-> amount, bucket |-> bucket]

Signed(leg) == IF leg.direction = "C" THEN leg.amount ELSE -leg.amount

(* transfer() refuses a list of legs that is too short, that does not      *)
(* balance, or that has a leg which is not a positive integer.             *)
MaxLegs == 3

Valid(legs) ==
  /\ Len(legs) \in 2..MaxLegs
  /\ Signed(legs[1]) + Signed(legs[2])
       + (IF Len(legs) = MaxLegs THEN Signed(legs[MaxLegs]) ELSE 0) = 0
  /\ \A i \in 1..Len(legs) : legs[i].amount > 0

(* Mutant: the UPDATE of the wallet row leaves pendingPaise out.           *)
ApplyForgetsPending(ws, leg) ==
  IF leg.bucket = "available"
  THEN [ws EXCEPT ![leg.owner].available = @ + Signed(leg)]
  ELSE ws

(* One leg added to its wallet's deltas.                                   *)
Apply(ws, leg) ==
  IF leg.bucket = "available"
  THEN [ws EXCEPT ![leg.owner].available = @ + Signed(leg)]
  ELSE [ws EXCEPT ![leg.owner].pending = @ + Signed(leg)]

Posted(ws, legs) ==
  LET two == Apply(Apply(ws, legs[1]), legs[2])
  IN  IF Len(legs) = MaxLegs THEN Apply(two, legs[MaxLegs]) ELSE two

(* wallets_balance_non_negative: no user or business wallet's available    *)
(* bucket below zero; the house and every pending bucket are exempt.       *)
BalanceCheck(ws) ==
  \A o \in Users \cup Businesses : ws[o].available >= 0

(* A transfer that succeeds.  When it is not enabled the call throws and   *)
(* nothing is written.                                                     *)
Transfer(legs) ==
  /\ Valid(legs)
  /\ BalanceCheck(Posted(wallets, legs))
  /\ wallets' = Posted(wallets, legs)

-----------------------------------------------------------------------------
(* Every paisa of every bucket of every wallet.                            *)
TotalPaise(ws) ==
  SumFunction([o \in Owners |-> ws[o].available + ws[o].pending])
=============================================================================
