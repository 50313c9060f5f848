--------------------------- MODULE BookingPromise ---------------------------
(***************************************************************************)
(* What a stall booking promises, each operation in one step: a slot, the  *)
(* booking row and the money move together, once.  This is the "Atomic"    *)
(* of book()'s comment and the "reversing all three ledger legs" of        *)
(* cancel()'s; Bookings is compared with it.                               *)
(***************************************************************************)
EXTENDS Wallet

CONSTANTS Stalls, BookingIds, NoRow,
          Price, Available, Funds,
          BookLegs(_, _), RefundLegs(_, _), ReleaseLegs(_)

VARIABLES rows, seats

pvars == <<rows, seats, wallets>>

ConfirmedAt(s) ==
  {b \in BookingIds : rows[b].stall = s /\ rows[b].state = "confirmed"}

PInit ==
  /\ rows = [b \in BookingIds |-> NoRow]
  /\ seats = [s \in Stalls |-> 0]
  /\ wallets = [o \in Owners |-> [available |-> IF o \in Users THEN Funds[o] ELSE 0,
                                  pending |-> 0]]

Book(b, u, s) ==
  /\ rows[b] = NoRow
  /\ seats[s] < Available[s]
  /\ ~\E c \in ConfirmedAt(s) : rows[c].user = u
  /\ Transfer(BookLegs(u, s))
  /\ rows' = [rows EXCEPT ![b] = [state |-> "confirmed", user |-> u, stall |-> s]]
  /\ seats' = [seats EXCEPT ![s] = @ + 1]

Cancel(b) ==
  /\ rows[b].state = "confirmed"
  /\ Transfer(RefundLegs(rows[b].user, rows[b].stall))
  /\ rows' = [rows EXCEPT ![b].state = "cancelled"]
  /\ seats' = [seats EXCEPT ![rows[b].stall] = @ - 1]

Release(b) ==
  /\ rows[b].state = "confirmed"
  /\ Transfer(ReleaseLegs(rows[b].stall))
  /\ rows' = [rows EXCEPT ![b].state = "released"]
  /\ UNCHANGED seats

PNext ==
  \E b \in BookingIds :
    \/ \E u \in Users, s \in Stalls : Book(b, u, s)
    \/ Cancel(b) \/ Release(b)

PSpec == PInit /\ [][PNext]_pvars
=============================================================================
