--------------------------- MODULE BookingsRefine ---------------------------
(***************************************************************************)
(* Bookings implements BookingPromise.  A booking happens when the OUTER   *)
(* transaction of book() commits: until then the mapping takes back what   *)
(* its transfer has moved.  A cancellation and a release happen when their *)
(* money moves, for who gets it may spend it at once: from then on the     *)
(* mapping shows the row and the slot as they are about to be written.     *)
(***************************************************************************)
EXTENDS Bookings

(* What a booking of s by u takes from, or gives to, the available and the *)
(* pending bucket of o.                                                    *)
Spot(o, u, s) ==
  (IF o = u THEN -Price[s] ELSE 0) + (IF o = House THEN Fee(s) ELSE 0)
Held(o, s) == IF o = Biz(s) THEN Escrow(s) ELSE 0

PaidSpots(o) == [h \in Handlers |-> IF pc[h] = "paid" THEN Spot(o, who[h], at[h]) ELSE 0]
PaidHelds(o) == [h \in Handlers |-> IF pc[h] = "paid" THEN Held(o, at[h]) ELSE 0]

Committed ==
  [o \in Owners |-> [available |-> wallets[o].available - SumFunction(PaidSpots(o)),
                     pending   |-> wallets[o].pending - SumFunction(PaidHelds(o))]]

Refunded(b) == \E h \in Handlers : pc[h] = "refunded" /\ target[h] = b
Releasing(b) == \E w \in Workers : paying[w] = b

PromisedRows ==
  [b \in BookingIds |->
    IF Refunded(b) THEN [row[b] EXCEPT !.state = "cancelled"]
    ELSE IF Releasing(b) THEN [row[b] EXCEPT !.state = "released"]
    ELSE row[b]]

PromisedSeats ==
  [s \in Stalls |-> booked[s] - Cardinality({b \in RowsAt(s) : Refunded(b)})]

Promise == INSTANCE BookingPromise WITH
  rows <- PromisedRows, seats <- PromisedSeats, wallets <- Committed

(* No date is edited and nothing fails after money has moved; no two       *)
(* cancellations of a booking overlap, nor two runs of the job on one.     *)
InHand(w) == {b \in BookingIds : b \in batch[w] \/ paying[w] = b}

Orderly ==
  /\ edits = 0 /\ faults = 0
  /\ \A g, h \in Handlers : target[g] = target[h] /\ target[g] # None => g = h
  /\ \A v, w \in Workers : v # w => InHand(v) \cap InHand(w) = {}

(* While it is orderly, book, cancel and release are atomic and each       *)
(* happens at most once per booking, however bookings race each other.     *)
ImplementsPromise == Promise!PSpec
=============================================================================
