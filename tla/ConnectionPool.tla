--------------------------- MODULE ConnectionPool ---------------------------
(***************************************************************************)
(* The connections bookings hold.  book() runs in a transaction on one     *)
(* connection, locks a stall's row, and inside it calls wallet.getOrCreate *)
(* and wallet.transfer, each of which asks the same pool for another.      *)
(* Three clocks end a wait: maxWait for the transaction to begin, its      *)
(* timeout, and the pool's own.  cancel() waits in the same way but locks  *)
(* no stall before its last write: it is a booker with a stall to itself.  *)
(***************************************************************************)
EXTENDS Integers, FiniteSets

CONSTANTS
  Bookers,        \* handlers of book and cancel
  Stall,          \* the stall each of them locks
  Pool,           \* connections in the pool
  MaxInner        \* calls of the wallet inside the transaction

ASSUME PoolConstants ==
  /\ IsFiniteSet(Bookers) /\ DOMAIN Stall = Bookers
  /\ Pool \in Nat \ {0} /\ MaxInner \in Nat \ {0}

VARIABLES
  cpc,            \* each booker's step
  inner           \* ... and the wallet calls it has made

poolVars == <<cpc, inner>>

-----------------------------------------------------------------------------
(* Connections held at each step; "late" steps have lost their transaction.*)
Held(b) ==
  CASE cpc[b] \in {"locking", "locked", "asking"} -> 1
    [] cpc[b] = "inside" -> 2
    [] cpc[b] = "late inside" -> 1
    [] OTHER -> 0

InUse == Cardinality({b \in Bookers : Held(b) >= 1}) + Cardinality({b \in Bookers : Held(b) = 2})
Free == InUse < Pool

HoldsLock(b) == cpc[b] \in {"locked", "asking", "inside"}
Lockable(b) == \A d \in Bookers \ {b} : Stall[d] = Stall[b] => ~HoldsLock(d)

PoolInit ==
  /\ cpc = [b \in Bookers |-> "idle"]
  /\ inner = [b \in Bookers |-> 0]

CpcTo(b, from, to) ==
  /\ cpc[b] \in from
  /\ cpc' = [cpc EXCEPT ![b] = to]

Ends(b, from) ==
  /\ CpcTo(b, from, "idle")
  /\ inner' = [inner EXCEPT ![b] = 0]

-----------------------------------------------------------------------------
BookAsks(b) == CpcTo(b, {"idle"}, "beginning") /\ UNCHANGED inner

BookBegins(b) == Free /\ CpcTo(b, {"beginning"}, "locking") /\ UNCHANGED inner

(* SELECT ... FOR UPDATE of the stall.                                     *)
StallLocked(b) ==
  Lockable(b) /\ CpcTo(b, {"locking"}, "locked") /\ UNCHANGED inner

WalletAsks(b) ==
  /\ inner[b] < MaxInner
  /\ CpcTo(b, {"locked"}, "asking")
  /\ UNCHANGED inner

WalletGets(b) ==
  /\ Free
  /\ \/ CpcTo(b, {"asking"}, "inside")
     \/ CpcTo(b, {"late asking"}, "late inside")
  /\ UNCHANGED inner

(* The wallet's call ends; the last of them is the transfer.  A handler    *)
(* whose transaction is closed finds out at its next statement there.      *)
WalletDone(b) ==
  /\ inner' = [inner EXCEPT ![b] = @ + 1]
  /\ \/ CpcTo(b, {"inside"}, "locked")
     \/ CpcTo(b, {"late inside"}, IF inner[b] + 1 < MaxInner THEN "late asking" ELSE "failing")

(* Commit, or the statement on the closed transaction that throws.         *)
BookEnds(b) ==
  /\ (cpc[b] = "locked" /\ inner[b] = MaxInner) \/ cpc[b] = "failing"
  /\ Ends(b, {"locked", "failing"})

(* Mutant: waits without end.                                              *)
TimesOutNever(b) == b \notin Bookers /\ UNCHANGED poolVars

(* maxWait and the pool's timeout end the call; the transaction's timeout  *)
(* drops its lock and connection, whatever its handler is waiting for; but *)
(* a statement that waits for a row is not interrupted.                    *)
TimesOut(b) ==
  \/ Ends(b, {"beginning", "asking", "late asking"})
  \/ CpcTo(b, {"asking"}, "late asking") /\ inner' = inner
  \/ CpcTo(b, {"inside"}, "late inside") /\ inner' = inner
  \/ CpcTo(b, {"locked"}, IF inner[b] = MaxInner THEN "failing" ELSE "late asking")
       /\ inner' = inner

BookerGoesOn(b) ==
  \/ BookBegins(b) \/ StallLocked(b) \/ WalletAsks(b) \/ WalletGets(b) \/ WalletDone(b)
  \/ BookEnds(b)

PoolNext == \E b \in Bookers : BookAsks(b) \/ BookerGoesOn(b) \/ TimesOut(b)

PoolSpec == PoolInit /\ [][PoolNext]_poolVars

(* What can go on does, each clock that runs strikes, and the database     *)
(* grants a row's lock in the order of its queue.                          *)
PoolFairness ==
  \A b \in Bookers :
    WF_poolVars(BookerGoesOn(b) \/ TimesOut(b)) /\ SF_poolVars(StallLocked(b))

PoolFairSpec == PoolSpec /\ PoolFairness

-----------------------------------------------------------------------------
PoolTypeOK ==
  /\ cpc \in [Bookers -> {"idle", "beginning", "locking", "locked", "asking", "inside",
                          "late asking", "late inside", "failing"}]
  /\ inner \in [Bookers -> 0..MaxInner]
  /\ InUse <= Pool

(* However many bookings want a connection, of one stall or several, and   *)
(* though each holds what others wait for, every one of them ends.         *)
EveryBookingEnds == \A b \in Bookers : cpc[b] # "idle" ~> cpc[b] = "idle"
=============================================================================
