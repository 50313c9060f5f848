------------------------ MODULE Bookings_money_proofs ------------------------
(***************************************************************************)
(* Proofs about the money of Bookings, for every number of vendors,        *)
(* organisers, stalls, handlers and workers and every price: the balances  *)
(* kept on the wallet rows are what the transfers counted in the ledger    *)
(* add up to, no paisa is made or lost, and the escrow of what is still to *)
(* be settled is covered.                                                  *)
(*                                                                         *)
(* The sums are over the finite sets of pairs of a vendor and a stall, of  *)
(* bookings and of handlers; a step changes one term of one of them        *)
(* (WeightedOneMore), or only amounts that nothing has been transferred    *)
(* for yet (WeightedSame).                                                 *)
(***************************************************************************)
EXTENDS Bookings_seat_proofs, BookingsRefine, Sums

-----------------------------------------------------------------------------
(* Sums of numbers of transfers, each times an amount.                     *)
Weighted(count, amount, S) == SumFunctionOnSet([x \in S |-> count[x] * amount[x]], S)

LEMMA ProductFacts ==
  \A m \in Nat, n \in Int :
    m * n \in Int /\ (m + 1) * n \in Int /\ (m + 1) * n - m * n = n /\ 0 * n = 0
  OBVIOUS

LEMMA WeightedType ==
  ASSUME NEW S, IsFiniteSet(S), NEW c, NEW w, \A x \in S : c[x] \in Nat /\ w[x] \in Int
  PROVE  Weighted(c, w, S) \in Int
<1> DEFINE f == [x \in S |-> c[x] * w[x]]
<1>1. \A x \in S : f[x] \in Int
  BY ProductFacts
<1> HIDE DEF f
<1>2. SumFunctionOnSet(f, S) \in Int
  BY <1>1, SumType
<1> QED
  BY <1>2 DEF Weighted, f

(* One transfer more adds its amount.                                      *)
LEMMA WeightedOneMore ==
  ASSUME NEW S, IsFiniteSet(S), NEW c, NEW d, NEW w, NEW x \in S,
         \A y \in S : c[y] \in Nat /\ w[y] \in Int,
         d[x] = c[x] + 1, \A y \in S : y # x => d[y] = c[y]
  PROVE  Weighted(d, w, S) = Weighted(c, w, S) + w[x]
<1> DEFINE f == [y \in S |-> c[y] * w[y]]
           g == [y \in S |-> d[y] * w[y]]
<1>1. \A y \in S : f[y] \in Int
  BY ProductFacts
<1>2. \A y \in S : y # x => g[y] = f[y]
  OBVIOUS
<1>3. g[x] \in Int /\ g[x] - f[x] = w[x]
  BY ProductFacts
<1> HIDE DEF f, g
<1>4. \A y \in S : g[y] \in Int
  BY <1>1, <1>2, <1>3
<1>5. SumFunctionOnSet(g, S) = SumFunctionOnSet(f, S) + g[x] - f[x]
  BY <1>1, <1>2, <1>4, SumChange
<1>6. SumFunctionOnSet(f, S) \in Int
  BY <1>1, SumType
<1>7. SumFunctionOnSet(g, S) = SumFunctionOnSet(f, S) + w[x]
  BY <1>1, <1>3, <1>5, <1>6
<1> QED
  BY <1>7 DEF Weighted, f, g

(* An amount may change as long as nothing has been transferred for it.    *)
LEMMA WeightedSame ==
  ASSUME NEW S, IsFiniteSet(S), NEW c, NEW v, NEW w,
         \A x \in S : c[x] \in Nat /\ v[x] \in Int /\ w[x] \in Int,
         \A x \in S : c[x] = 0 \/ v[x] = w[x]
  PROVE  Weighted(c, v, S) = Weighted(c, w, S)
<1> DEFINE f == [x \in S |-> c[x] * v[x]]
           g == [x \in S |-> c[x] * w[x]]
<1>1. \A x \in S : f[x] = g[x]
  <2> TAKE x \in S
  <2>1. CASE c[x] = 0
    BY <2>1, ProductFacts
  <2>2. CASE v[x] = w[x]
    BY <2>2
  <2> QED
    BY <2>1, <2>2
<1> HIDE DEF f, g
<1>2. SumFunctionOnSet(f, S) = SumFunctionOnSet(g, S)
  BY <1>1, SumSame
<1> QED
  BY <1>2 DEF Weighted, f, g

(* Counting only some of what is counted, with amounts of the same or of   *)
(* the opposite sign.                                                      *)
LEMMA WeightedPart ==
  ASSUME NEW S, IsFiniteSet(S), NEW T \in SUBSET S, NEW c, NEW w, NEW h,
         \A x \in S : c[x] \in Nat /\ w[x] \in Int,
         \A x \in S \ T : w[x] = 0,
         \A x \in T : h[x] = c[x] * w[x]
  PROVE  Weighted(c, w, S) = SumFunctionOnSet(h, T)
<1> DEFINE g == [x \in S |-> c[x] * w[x]]
<1>1. \A x \in S : c[x] * w[x] \in Int /\ (x \notin T => c[x] * w[x] = 0)
  <2> TAKE x \in S
  <2>1. c[x] * w[x] \in Int
    BY ProductFacts
  <2>2. \A m \in Nat : m * 0 = 0
    OBVIOUS
  <2> QED
    BY <2>1, <2>2
<1>2. \A x \in S : g[x] \in Int /\ (x \notin T => g[x] = 0)
  BY <1>1
<1>3. \A x \in T : h[x] = g[x]
  OBVIOUS
<1> HIDE DEF g
<1>4. \A x \in S : g[x] = IF x \in T THEN g[x] ELSE 0
  BY <1>2
<1>5. SumFunctionOnSet(g, T) = SumFunctionOnSet(g, S)
  BY <1>2, <1>4, SumPart
<1>6. IsFiniteSet(T)
  BY FS_Subset
<1>7. SumFunctionOnSet(h, T) = SumFunctionOnSet(g, T)
  BY <1>3, <1>6, SumSame
<1> QED
  BY <1>5, <1>7 DEF Weighted, g

LEMMA WeightedNegative ==
  ASSUME NEW S, IsFiniteSet(S), NEW c, NEW v, NEW w,
         \A x \in S : c[x] \in Nat /\ v[x] \in Int /\ w[x] = -v[x]
  PROVE  Weighted(c, w, S) = -Weighted(c, v, S)
<1> DEFINE f == [x \in S |-> c[x] * v[x]]
           g == [x \in S |-> c[x] * w[x]]
           h == [x \in S |-> 0]
<1>1. \A m \in Nat, n \in Int : m * n \in Int /\ m * (-n) \in Int /\ m * n + m * (-n) = 0
  OBVIOUS
<1>2. \A x \in S : f[x] \in Int /\ g[x] \in Int /\ h[x] = f[x] + g[x]
  BY <1>1
<1>3. SumFunctionOnSet(h, S) = 0
  BY SumZero
<1> HIDE DEF f, g, h
<1>4. SumFunctionOnSet(h, S) = SumFunctionOnSet(f, S) + SumFunctionOnSet(g, S)
  BY <1>2, SumPlus
<1>5. SumFunctionOnSet(f, S) \in Int /\ SumFunctionOnSet(g, S) \in Int
  BY <1>2, SumType
<1>6. SumFunctionOnSet(g, S) = -SumFunctionOnSet(f, S)
  BY <1>3, <1>4, <1>5
<1> QED
  BY <1>6 DEF Weighted, f, g

LEMMA WeightedZero ==
  ASSUME NEW S, IsFiniteSet(S), NEW c, NEW w,
         \A x \in S : c[x] \in Nat /\ w[x] \in Int, \A x \in S : c[x] = 0 \/ w[x] = 0
  PROVE  Weighted(c, w, S) = 0
<1> DEFINE f == [x \in S |-> c[x] * w[x]]
<1>1. \A m \in Nat, n \in Int : m * 0 = 0 /\ 0 * n = 0
  OBVIOUS
<1>2. \A x \in S : f[x] = 0
  BY <1>1
<1> HIDE DEF f
<1>3. SumFunctionOnSet(f, S) = 0
  BY <1>2, SumZero
<1> QED
  BY <1>3 DEF Weighted, f

-----------------------------------------------------------------------------
(* Transfers.                                                              *)
AvailablePart(l, o) == IF l.owner = o /\ l.bucket = "available" THEN Signed(l) ELSE 0
PendingPart(l, o)   == IF l.owner = o /\ l.bucket # "available" THEN Signed(l) ELSE 0

LEMMA OwnersFinite == IsFiniteSet(Owners)
<1>1. IsFiniteSet(Users \cup Businesses) /\ IsFiniteSet({House})
  BY BookingConstants, FS_Union, FS_Singleton
<1> QED
  BY <1>1, FS_Union DEF Owners

(* One leg changes one bucket of one wallet, and the total, by its amount. *)
LEMMA LegMoves ==
  ASSUME NEW ws \in [Owners -> WalletRow], NEW l, l.owner \in Owners, Signed(l) \in Int
  PROVE  /\ Apply(ws, l) \in [Owners -> WalletRow]
         /\ \A o \in Owners :
              /\ Apply(ws, l)[o].available = ws[o].available + AvailablePart(l, o)
              /\ Apply(ws, l)[o].pending = ws[o].pending + PendingPart(l, o)
         /\ TotalPaise(Apply(ws, l)) = TotalPaise(ws) + Signed(l)
<1>1. \A o \in Owners : ws[o].available \in Int /\ ws[o].pending \in Int /\ ws[o] \in WalletRow
  BY DEF WalletRow
<1>2. /\ Apply(ws, l) \in [Owners -> WalletRow]
      /\ \A o \in Owners :
           /\ Apply(ws, l)[o].available = ws[o].available + AvailablePart(l, o)
           /\ Apply(ws, l)[o].pending = ws[o].pending + PendingPart(l, o)
  <2>1. CASE l.bucket = "available"
    BY <1>1, <2>1 DEF Apply, WalletRow, AvailablePart, PendingPart
  <2>2. CASE l.bucket # "available"
    BY <1>1, <2>2 DEF Apply, WalletRow, AvailablePart, PendingPart
  <2> QED
    BY <2>1, <2>2
<1>3. TotalPaise(Apply(ws, l)) = TotalPaise(ws) + Signed(l)
  <2> DEFINE f == [o \in Owners |-> ws[o].available + ws[o].pending]
             g == [o \in Owners |-> Apply(ws, l)[o].available + Apply(ws, l)[o].pending]
             p == l.owner
  <2>1. \A o \in Owners : f[o] \in Int /\ (o # p => g[o] = f[o])
    BY <1>1, <1>2 DEF AvailablePart, PendingPart
  <2>2. g[p] - f[p] = Signed(l) /\ g[p] \in Int
    <3>1. CASE l.bucket = "available"
      BY <1>1, <1>2, <3>1 DEF AvailablePart, PendingPart
    <3>2. CASE l.bucket # "available"
      BY <1>1, <1>2, <3>2 DEF AvailablePart, PendingPart
    <3> QED
      BY <3>1, <3>2
  <2>3. DOMAIN f = Owners /\ DOMAIN g = Owners
    OBVIOUS
  <2>4. TotalPaise(ws) = SumFunctionOnSet(f, Owners)
        /\ TotalPaise(Apply(ws, l)) = SumFunctionOnSet(g, Owners)
    BY DEF TotalPaise, SumFunction
  <2> HIDE DEF f, g, p
  <2>5. p \in Owners /\ \A o \in Owners : g[o] \in Int
    BY <2>1, <2>2 DEF p
  <2>6. SumFunctionOnSet(g, Owners) = SumFunctionOnSet(f, Owners) + g[p] - f[p]
    BY <2>1, <2>5, OwnersFinite, SumChange
  <2>7. SumFunctionOnSet(f, Owners) \in Int
    BY <2>1, OwnersFinite, SumType
  <2> QED
    BY <2>1, <2>2, <2>4, <2>5, <2>6, <2>7
<1> QED
  BY <1>2, <1>3

LEMMA LegParts ==
  ASSUME NEW l, Signed(l) \in Int, NEW o
  PROVE  AvailablePart(l, o) \in Int /\ PendingPart(l, o) \in Int
  BY DEF AvailablePart, PendingPart

LEMMA TotalTyped ==
  ASSUME NEW ws \in [Owners -> WalletRow]
  PROVE  TotalPaise(ws) \in Int
<1> DEFINE f == [o \in Owners |-> ws[o].available + ws[o].pending]
<1>1. \A o \in Owners : f[o] \in Int
  BY DEF WalletRow
<1>2. TotalPaise(ws) = SumFunctionOnSet(f, Owners)
  BY DEF TotalPaise, SumFunction
<1> HIDE DEF f
<1> QED
  BY <1>1, <1>2, OwnersFinite, SumType

(* A transfer of two legs, and one of three.                               *)
LEMMA TwoLegs ==
  ASSUME NEW ws \in [Owners -> WalletRow],
         NEW l1, l1.owner \in Owners, Signed(l1) \in Int,
         NEW l2, l2.owner \in Owners, Signed(l2) \in Int, Signed(l1) + Signed(l2) = 0
  PROVE  LET to == Apply(Apply(ws, l1), l2) IN
         /\ to \in [Owners -> WalletRow]
         /\ \A o \in Owners :
              /\ to[o].available
                   = ws[o].available + AvailablePart(l1, o) + AvailablePart(l2, o)
              /\ to[o].pending = ws[o].pending + PendingPart(l1, o) + PendingPart(l2, o)
         /\ TotalPaise(to) = TotalPaise(ws)
<1> DEFINE w1 == Apply(ws, l1)
           w2 == Apply(w1, l2)
<1>1. /\ w1 \in [Owners -> WalletRow]
      /\ \A o \in Owners : /\ w1[o].available = ws[o].available + AvailablePart(l1, o)
                           /\ w1[o].pending = ws[o].pending + PendingPart(l1, o)
      /\ TotalPaise(w1) = TotalPaise(ws) + Signed(l1)
  BY LegMoves
<1> HIDE DEF w1
<1>2. /\ w2 \in [Owners -> WalletRow]
      /\ \A o \in Owners : /\ w2[o].available = w1[o].available + AvailablePart(l2, o)
                           /\ w2[o].pending = w1[o].pending + PendingPart(l2, o)
      /\ TotalPaise(w2) = TotalPaise(w1) + Signed(l2)
  BY <1>1, LegMoves
<1> HIDE DEF w2
<1>3. \A t, a, b \in Int : a + b = 0 => t + a + b = t
  OBVIOUS
<1>4. TotalPaise(w2) = TotalPaise(ws)
  <2>1. TotalPaise(w2) = TotalPaise(ws) + Signed(l1) + Signed(l2)
    BY <1>1, <1>2
  <2>2. TotalPaise(ws) \in Int
    BY TotalTyped
  <2> QED
    BY <1>3, <2>1, <2>2
<1> QED
  BY <1>1, <1>2, <1>4 DEF w1, w2

LEMMA ThreeLegs ==
  ASSUME NEW ws \in [Owners -> WalletRow],
         NEW l1, l1.owner \in Owners, Signed(l1) \in Int,
         NEW l2, l2.owner \in Owners, Signed(l2) \in Int,
         NEW l3, l3.owner \in Owners, Signed(l3) \in Int,
         Signed(l1) + Signed(l2) + Signed(l3) = 0
  PROVE  LET to == Apply(Apply(Apply(ws, l1), l2), l3) IN
         /\ to \in [Owners -> WalletRow]
         /\ \A o \in Owners :
              /\ to[o].available = ws[o].available + AvailablePart(l1, o)
                                     + AvailablePart(l2, o) + AvailablePart(l3, o)
              /\ to[o].pending = ws[o].pending + PendingPart(l1, o)
                                   + PendingPart(l2, o) + PendingPart(l3, o)
         /\ TotalPaise(to) = TotalPaise(ws)
<1> DEFINE w1 == Apply(ws, l1)
           w2 == Apply(w1, l2)
           w3 == Apply(w2, l3)
<1>1. /\ w1 \in [Owners -> WalletRow]
      /\ \A o \in Owners : /\ w1[o].available = ws[o].available + AvailablePart(l1, o)
                           /\ w1[o].pending = ws[o].pending + PendingPart(l1, o)
      /\ TotalPaise(w1) = TotalPaise(ws) + Signed(l1)
  BY LegMoves
<1> HIDE DEF w1
<1>2. /\ w2 \in [Owners -> WalletRow]
      /\ \A o \in Owners : /\ w2[o].available = w1[o].available + AvailablePart(l2, o)
                           /\ w2[o].pending = w1[o].pending + PendingPart(l2, o)
      /\ TotalPaise(w2) = TotalPaise(w1) + Signed(l2)
  BY <1>1, LegMoves
<1> HIDE DEF w2
<1>3. /\ w3 \in [Owners -> WalletRow]
      /\ \A o \in Owners : /\ w3[o].available = w2[o].available + AvailablePart(l3, o)
                           /\ w3[o].pending = w2[o].pending + PendingPart(l3, o)
      /\ TotalPaise(w3) = TotalPaise(w2) + Signed(l3)
  BY <1>2, LegMoves
<1> HIDE DEF w3
<1>4. \A t, a, b, c \in Int : a + b + c = 0 => t + a + b + c = t
  OBVIOUS
<1>5. TotalPaise(w3) = TotalPaise(ws)
  <2>1. TotalPaise(w3) = TotalPaise(ws) + Signed(l1) + Signed(l2) + Signed(l3)
    BY <1>1, <1>2, <1>3
  <2>2. TotalPaise(ws) \in Int
    BY TotalTyped
  <2> QED
    BY <1>4, <2>1, <2>2
<1> QED
  BY <1>1, <1>2, <1>3, <1>5 DEF w1, w2, w3

-----------------------------------------------------------------------------
(* What a booking moves (Spot, Held).  A refund does the reverse; a release *)
(* moves what is pending to the available bucket.                          *)
LEMMA AmountFacts ==
  ASSUME NEW s \in Stalls
  PROVE  /\ Price[s] \in Nat /\ Fee(s) \in Nat /\ Escrow(s) \in Nat
         /\ Biz(s) \in Businesses
         /\ \A o, u : Spot(o, u, s) \in Int /\ Held(o, s) \in Int
<1>1. Price[s] \in Nat /\ Biz(s) \in Businesses
  BY BookingConstants DEF Biz
<1>2. \A p \in Nat : (p * 1000) \div 10000 \in Nat /\ p - (p * 1000) \div 10000 \in Nat
  OBVIOUS
<1>3. Fee(s) \in Nat /\ Escrow(s) \in Nat
  BY <1>1, <1>2 DEF Fee, Escrow
<1> QED
  BY <1>1, <1>3 DEF Spot, Held

(* What each kind of transfer makes of any wallets.                        *)
LEMMA BookPosts ==
  ASSUME NEW ws \in [Owners -> WalletRow], NEW u \in Users, NEW s \in Stalls
  PROVE  /\ Posted(ws, BookLegs(u, s)) \in [Owners -> WalletRow]
         /\ \A o \in Owners :
              /\ Posted(ws, BookLegs(u, s))[o].available = ws[o].available + Spot(o, u, s)
              /\ Posted(ws, BookLegs(u, s))[o].pending = ws[o].pending + Held(o, s)
         /\ TotalPaise(Posted(ws, BookLegs(u, s))) = TotalPaise(ws)
<1> DEFINE l1 == Leg(u, "D", Price[s], "available")
           l2 == Leg(Biz(s), "C", Escrow(s), "pending")
           l3 == Leg(House, "C", Fee(s), "available")
<1>1. /\ u \in Owners /\ Biz(s) \in Owners /\ House \in Owners
      /\ Price[s] \in Int /\ Fee(s) \in Int /\ Escrow(s) \in Int
      /\ Price[s] = Fee(s) + Escrow(s)
  BY MoneyType DEF Owners, Escrow
<1>2. /\ l1.owner = u /\ Signed(l1) = -Price[s]
      /\ l2.owner = Biz(s) /\ Signed(l2) = Escrow(s)
      /\ l3.owner = House /\ Signed(l3) = Fee(s)
      /\ l1.bucket = "available" /\ l2.bucket = "pending" /\ l3.bucket = "available"
  BY DEF Leg, Signed
<1>3. PICK to : to = Posted(ws, BookLegs(u, s))
  OBVIOUS
<1>4. to = Apply(Apply(Apply(ws, l1), l2), l3)
  BY <1>3 DEF BookLegs, Posted, MaxLegs
<1> HIDE DEF l1, l2, l3
<1>5. Signed(l1) + Signed(l2) + Signed(l3) = 0
  BY <1>1, <1>2
<1>6. /\ to \in [Owners -> WalletRow]
      /\ \A o \in Owners :
           /\ to[o].available = ws[o].available + AvailablePart(l1, o)
                + AvailablePart(l2, o) + AvailablePart(l3, o)
           /\ to[o].pending = ws[o].pending + PendingPart(l1, o)
                + PendingPart(l2, o) + PendingPart(l3, o)
      /\ TotalPaise(to) = TotalPaise(ws)
  BY <1>1, <1>2, <1>4, <1>5, ThreeLegs
<1>7. \A o \in Owners : ws[o].available \in Int /\ ws[o].pending \in Int
  BY DEF WalletRow
<1>8. \A o \in Owners :
        /\ AvailablePart(l1, o) = (IF o = u THEN -Price[s] ELSE 0)
        /\ AvailablePart(l2, o) = 0
        /\ AvailablePart(l3, o) = (IF o = House THEN Fee(s) ELSE 0)
        /\ PendingPart(l1, o) = 0 /\ PendingPart(l2, o) = Held(o, s)
        /\ PendingPart(l3, o) = 0
  BY <1>2 DEF AvailablePart, PendingPart, Held
<1>9. \A o \in Owners : Held(o, s) \in Int
  BY <1>1 DEF Held
<1> QED
  BY <1>1, <1>3, <1>6, <1>7, <1>8, <1>9 DEF Spot

LEMMA RefundPosts ==
  ASSUME NEW ws \in [Owners -> WalletRow], NEW u \in Users, NEW s \in Stalls
  PROVE  /\ Posted(ws, RefundLegs(u, s)) \in [Owners -> WalletRow]
         /\ \A o \in Owners :
              /\ Posted(ws, RefundLegs(u, s))[o].available = ws[o].available - Spot(o, u, s)
              /\ Posted(ws, RefundLegs(u, s))[o].pending = ws[o].pending - Held(o, s)
         /\ TotalPaise(Posted(ws, RefundLegs(u, s))) = TotalPaise(ws)
<1> DEFINE l1 == Leg(Biz(s), "D", Escrow(s), "pending")
           l2 == Leg(House, "D", Fee(s), "available")
           l3 == Leg(u, "C", Price[s], "available")
<1>1. /\ u \in Owners /\ Biz(s) \in Owners /\ House \in Owners
      /\ Price[s] \in Int /\ Fee(s) \in Int /\ Escrow(s) \in Int
      /\ Price[s] = Fee(s) + Escrow(s)
  BY MoneyType DEF Owners, Escrow
<1>2. /\ l1.owner = Biz(s) /\ Signed(l1) = -Escrow(s)
      /\ l2.owner = House /\ Signed(l2) = -Fee(s)
      /\ l3.owner = u /\ Signed(l3) = Price[s]
      /\ l1.bucket = "pending" /\ l2.bucket = "available" /\ l3.bucket = "available"
  BY DEF Leg, Signed
<1>3. PICK to : to = Posted(ws, RefundLegs(u, s))
  OBVIOUS
<1>4. to = Apply(Apply(Apply(ws, l1), l2), l3)
  BY <1>3 DEF RefundLegs, Posted, MaxLegs
<1> HIDE DEF l1, l2, l3
<1>5. Signed(l1) + Signed(l2) + Signed(l3) = 0
  BY <1>1, <1>2
<1>6. /\ to \in [Owners -> WalletRow]
      /\ \A o \in Owners :
           /\ to[o].available = ws[o].available + AvailablePart(l1, o)
                + AvailablePart(l2, o) + AvailablePart(l3, o)
           /\ to[o].pending = ws[o].pending + PendingPart(l1, o)
                + PendingPart(l2, o) + PendingPart(l3, o)
      /\ TotalPaise(to) = TotalPaise(ws)
  BY <1>1, <1>2, <1>4, <1>5, ThreeLegs
<1>7. \A o \in Owners : ws[o].available \in Int /\ ws[o].pending \in Int
  BY DEF WalletRow
<1>8. \A o \in Owners :
        /\ AvailablePart(l1, o) = 0
        /\ AvailablePart(l2, o) = -(IF o = House THEN Fee(s) ELSE 0)
        /\ AvailablePart(l3, o) = -(IF o = u THEN -Price[s] ELSE 0)
        /\ PendingPart(l1, o) = -Held(o, s)
        /\ PendingPart(l2, o) = 0 /\ PendingPart(l3, o) = 0
  BY <1>1, <1>2 DEF AvailablePart, PendingPart, Held
<1>9. \A o \in Owners : Held(o, s) \in Int
  BY <1>1 DEF Held
<1> QED
  BY <1>1, <1>3, <1>6, <1>7, <1>8, <1>9 DEF Spot

LEMMA ReleasePosts ==
  ASSUME NEW ws \in [Owners -> WalletRow], NEW s \in Stalls
  PROVE  /\ Posted(ws, ReleaseLegs(s)) \in [Owners -> WalletRow]
         /\ \A o \in Owners :
              /\ Posted(ws, ReleaseLegs(s))[o].available = ws[o].available + Held(o, s)
              /\ Posted(ws, ReleaseLegs(s))[o].pending = ws[o].pending - Held(o, s)
         /\ TotalPaise(Posted(ws, ReleaseLegs(s))) = TotalPaise(ws)
<1> DEFINE l1 == Leg(Biz(s), "D", Escrow(s), "pending")
           l2 == Leg(Biz(s), "C", Escrow(s), "available")
<1>1. Biz(s) \in Owners /\ Escrow(s) \in Int
  BY MoneyType
<1>2. /\ l1.owner = Biz(s) /\ Signed(l1) = -Escrow(s) /\ l1.bucket = "pending"
      /\ l2.owner = Biz(s) /\ Signed(l2) = Escrow(s) /\ l2.bucket = "available"
  BY DEF Leg, Signed
<1>3. PICK to : to = Posted(ws, ReleaseLegs(s))
  OBVIOUS
<1>4. to = Apply(Apply(ws, l1), l2)
  BY <1>3 DEF ReleaseLegs, Posted, MaxLegs
<1> HIDE DEF l1, l2
<1>5. Signed(l1) + Signed(l2) = 0
  BY <1>1, <1>2
<1>6. /\ to \in [Owners -> WalletRow]
      /\ \A o \in Owners :
           /\ to[o].available = ws[o].available + AvailablePart(l1, o) + AvailablePart(l2, o)
           /\ to[o].pending = ws[o].pending + PendingPart(l1, o) + PendingPart(l2, o)
      /\ TotalPaise(to) = TotalPaise(ws)
  BY <1>1, <1>2, <1>4, <1>5, TwoLegs
<1>7. \A o \in Owners : ws[o].available \in Int /\ ws[o].pending \in Int
  BY DEF WalletRow
<1>8. \A o \in Owners :
        /\ AvailablePart(l1, o) = 0 /\ AvailablePart(l2, o) = Held(o, s)
        /\ PendingPart(l1, o) = -Held(o, s) /\ PendingPart(l2, o) = 0
  BY <1>1, <1>2 DEF AvailablePart, PendingPart, Held
<1>9. \A o \in Owners : Held(o, s) \in Int
  BY <1>1 DEF Held
<1> QED
  BY <1>3, <1>6, <1>7, <1>8, <1>9

(* So does a transfer that is granted, of the real wallets.                *)
LEMMA BookMoves ==
  ASSUME wallets \in [Owners -> WalletRow], NEW u \in Users, NEW s \in Stalls,
         Transfer(BookLegs(u, s))
  PROVE  /\ \A o \in Owners : /\ wallets'[o].available = wallets[o].available + Spot(o, u, s)
                              /\ wallets'[o].pending = wallets[o].pending + Held(o, s)
         /\ TotalPaise(wallets') = TotalPaise(wallets)
BY BookPosts DEF Transfer

LEMMA RefundMoves ==
  ASSUME wallets \in [Owners -> WalletRow], NEW u \in Users, NEW s \in Stalls,
         Transfer(RefundLegs(u, s))
  PROVE  /\ \A o \in Owners : /\ wallets'[o].available = wallets[o].available - Spot(o, u, s)
                              /\ wallets'[o].pending = wallets[o].pending - Held(o, s)
         /\ TotalPaise(wallets') = TotalPaise(wallets)
BY RefundPosts DEF Transfer

LEMMA ReleaseMoves ==
  ASSUME wallets \in [Owners -> WalletRow], NEW s \in Stalls,
         Transfer(ReleaseLegs(s))
  PROVE  /\ \A o \in Owners : /\ wallets'[o].available = wallets[o].available + Held(o, s)
                              /\ wallets'[o].pending = wallets[o].pending - Held(o, s)
         /\ TotalPaise(wallets') = TotalPaise(wallets)
BY ReleasePosts DEF Transfer

-----------------------------------------------------------------------------
(* The invariant.  Every bucket is what it started with, plus what the     *)
(* transfers counted so far moved (Ledger).  The escrow a business has     *)
(* been charged for covers its booking rows and the handlers that have     *)
(* paid and may still insert one (Backed): by itself the ledger does not   *)
(* tell a row that was never paid for.                                     *)
Pairs == Users \X Stalls
Charge == [p \in Pairs |-> charged[p[1]][p[2]]]

SpotOf(o) == [p \in Pairs |-> Spot(o, p[1], p[2])]
HeldOf(o) == [p \in Pairs |-> Held(o, p[2])]
RowSpots(o) ==
  [b \in BookingIds |-> IF row[b] \in Rows THEN Spot(o, row[b].user, row[b].stall) ELSE 0]
RowHelds(o) ==
  [b \in BookingIds |-> IF row[b] \in Rows THEN Held(o, row[b].stall) ELSE 0]

Initial(o) == IF o \in Users THEN Funds[o] ELSE 0

Ledger ==
  \A o \in Owners :
    /\ wallets[o].available
         = Initial(o) + Weighted(Charge, SpotOf(o), Pairs)
             - Weighted(refunds, RowSpots(o), BookingIds)
             + Weighted(releases, RowHelds(o), BookingIds)
    /\ wallets[o].pending
         = Weighted(Charge, HeldOf(o), Pairs)
             - Weighted(refunds, RowHelds(o), BookingIds)
             - Weighted(releases, RowHelds(o), BookingIds)

Total == TotalPaise(wallets) = SumFunction(Funds)

Backed ==
  \A o \in Businesses :
    Weighted(Charge, HeldOf(o), Pairs)
      >= SumFunctionOnSet(RowHelds(o), BookingIds) + SumFunctionOnSet(PaidHelds(o), Handlers)

MoneyInv == Typed /\ Ledger /\ Total /\ Backed

(* What the sums are taken over and of.                                    *)
LEMMA SumsTyped ==
  ASSUME Typed, NEW o
  PROVE  /\ IsFiniteSet(Pairs) /\ IsFiniteSet(BookingIds) /\ IsFiniteSet(Handlers)
         /\ \A p \in Pairs : /\ Charge[p] \in Nat
                             /\ SpotOf(o)[p] \in Int /\ HeldOf(o)[p] \in Nat
         /\ \A b \in BookingIds : /\ refunds[b] \in Nat /\ releases[b] \in Nat
                                  /\ RowSpots(o)[b] \in Int /\ RowHelds(o)[b] \in Nat
         /\ \A h \in Handlers : PaidHelds(o)[h] \in Nat
<1>1. IsFiniteSet(Pairs) /\ IsFiniteSet(BookingIds) /\ IsFiniteSet(Handlers)
  BY BookingConstants, FS_Product DEF Pairs
<1>2. \A s \in Stalls : Held(o, s) \in Nat
  BY AmountFacts DEF Held
<1>3. \A p \in Pairs : /\ Charge[p] \in Nat
                       /\ SpotOf(o)[p] \in Int /\ HeldOf(o)[p] \in Nat
  <2> SUFFICES ASSUME NEW u \in Users, NEW s \in Stalls
               PROVE  /\ Charge[<<u, s>>] \in Nat /\ SpotOf(o)[<<u, s>>] \in Int
                      /\ HeldOf(o)[<<u, s>>] \in Nat
    BY DEF Pairs
  <2>1. <<u, s>> \in Pairs
    BY DEF Pairs
  <2>2. charged[u][s] \in Nat
    BY DEF Typed, TypeOK
  <2> QED
    BY <1>2, <2>1, <2>2, AmountFacts DEF Charge, SpotOf, HeldOf
<1>4. \A b \in BookingIds : /\ refunds[b] \in Nat /\ releases[b] \in Nat
                            /\ RowSpots(o)[b] \in Int /\ RowHelds(o)[b] \in Nat
  BY <1>2, RowFacts, AmountFacts DEF Typed, TypeOK, RowSpots, RowHelds
<1>5. \A h \in Handlers : PaidHelds(o)[h] \in Nat
  BY <1>2 DEF Typed, Args, PaidHelds
<1> QED
  BY <1>1, <1>3, <1>4, <1>5

LEMMA SumsAreIntegers ==
  ASSUME Typed, NEW o
  PROVE  /\ Weighted(Charge, SpotOf(o), Pairs) \in Int
         /\ Weighted(Charge, HeldOf(o), Pairs) \in Int
         /\ Weighted(refunds, RowSpots(o), BookingIds) \in Int
         /\ Weighted(refunds, RowHelds(o), BookingIds) \in Int
         /\ Weighted(releases, RowHelds(o), BookingIds) \in Int
         /\ SumFunctionOnSet(RowHelds(o), BookingIds) \in Int
         /\ SumFunctionOnSet(PaidHelds(o), Handlers) \in Int
<1>1. /\ Weighted(Charge, SpotOf(o), Pairs) \in Int
      /\ Weighted(Charge, HeldOf(o), Pairs) \in Int
  BY SumsTyped, WeightedType
<1>2. /\ Weighted(refunds, RowSpots(o), BookingIds) \in Int
      /\ Weighted(refunds, RowHelds(o), BookingIds) \in Int
      /\ Weighted(releases, RowHelds(o), BookingIds) \in Int
  BY SumsTyped, WeightedType
<1>3. /\ SumFunctionOnSet(RowHelds(o), BookingIds) \in Int
      /\ SumFunctionOnSet(PaidHelds(o), Handlers) \in Int
  BY SumsTyped, SumType
<1> QED
  BY <1>1, <1>2, <1>3

(* A booking is paid for: one charge more of that vendor for that stall.   *)
LEMMA OneChargeMore ==
  ASSUME Typed, NEW u \in Users, NEW s \in Stalls,
         charged' = [charged EXCEPT ![u][s] = @ + 1], NEW o
  PROVE  /\ Weighted(Charge', SpotOf(o), Pairs)
              = Weighted(Charge, SpotOf(o), Pairs) + Spot(o, u, s)
         /\ Weighted(Charge', HeldOf(o), Pairs)
              = Weighted(Charge, HeldOf(o), Pairs) + Held(o, s)
<1>1. <<u, s>> \in Pairs
  BY DEF Pairs
<1>2. Charge'[<<u, s>>] = Charge[<<u, s>>] + 1
  BY <1>1 DEF Charge, Typed, TypeOK
<1>3. \A p \in Pairs : p # <<u, s>> => Charge'[p] = Charge[p]
  BY DEF Charge, Pairs, Typed, TypeOK
<1>4. SpotOf(o)[<<u, s>>] = Spot(o, u, s) /\ HeldOf(o)[<<u, s>>] = Held(o, s)
  BY <1>1 DEF SpotOf, HeldOf
<1>5. PICK c, d, v, w, p : c = Charge /\ d = Charge' /\ v = SpotOf(o) /\ w = HeldOf(o)
                             /\ p = <<u, s>>
  OBVIOUS
<1>6. /\ IsFiniteSet(Pairs) /\ p \in Pairs
      /\ d[p] = c[p] + 1 /\ \A q \in Pairs : q # p => d[q] = c[q]
  BY <1>1, <1>2, <1>3, <1>5, SumsTyped
<1>7. Weighted(d, v, Pairs) = Weighted(c, v, Pairs) + v[p]
  <2>1. \A q \in Pairs : c[q] \in Nat /\ v[q] \in Int
    BY <1>5, SumsTyped
  <2> QED
    BY <1>6, <2>1, WeightedOneMore
<1>8. Weighted(d, w, Pairs) = Weighted(c, w, Pairs) + w[p]
  <2>1. \A q \in Pairs : c[q] \in Nat /\ w[q] \in Int
    BY <1>5, SumsTyped
  <2> QED
    BY <1>6, <2>1, WeightedOneMore
<1> QED
  BY <1>4, <1>5, <1>7, <1>8

LEMMA LedgerPay ==
  ASSUME Typed, Ledger, Total, NEW u \in Users, NEW s \in Stalls,
         Transfer(BookLegs(u, s)), charged' = [charged EXCEPT ![u][s] = @ + 1],
         UNCHANGED <<refunds, releases, row>>
  PROVE  Ledger' /\ Total'
<1>1. /\ \A o \in Owners : /\ wallets'[o].available = wallets[o].available + Spot(o, u, s)
                           /\ wallets'[o].pending = wallets[o].pending + Held(o, s)
      /\ TotalPaise(wallets') = TotalPaise(wallets)
  BY BookMoves DEF Typed, TypeOK
<1>2. Ledger'
  <2> SUFFICES ASSUME NEW o \in Owners
               PROVE  /\ wallets'[o].available
                           = Initial(o) + Weighted(Charge', SpotOf(o), Pairs)
                               - Weighted(refunds, RowSpots(o), BookingIds)
                               + Weighted(releases, RowHelds(o), BookingIds)
                      /\ wallets'[o].pending
                           = Weighted(Charge', HeldOf(o), Pairs)
                               - Weighted(refunds, RowHelds(o), BookingIds)
                               - Weighted(releases, RowHelds(o), BookingIds)
    BY DEF Ledger, RowSpots, RowHelds
  <2>1. Initial(o) \in Int /\ Spot(o, u, s) \in Int /\ Held(o, s) \in Int
    BY AmountFacts, BookingConstants DEF Initial
  <2>2. /\ wallets[o].available
             = Initial(o) + Weighted(Charge, SpotOf(o), Pairs)
                 - Weighted(refunds, RowSpots(o), BookingIds)
                 + Weighted(releases, RowHelds(o), BookingIds)
        /\ wallets[o].pending
             = Weighted(Charge, HeldOf(o), Pairs)
                 - Weighted(refunds, RowHelds(o), BookingIds)
                 - Weighted(releases, RowHelds(o), BookingIds)
    BY DEF Ledger
  <2>3. /\ Weighted(Charge', SpotOf(o), Pairs)
             = Weighted(Charge, SpotOf(o), Pairs) + Spot(o, u, s)
        /\ Weighted(Charge', HeldOf(o), Pairs)
             = Weighted(Charge, HeldOf(o), Pairs) + Held(o, s)
    BY OneChargeMore
  <2>4. /\ wallets'[o].available = wallets[o].available + Spot(o, u, s)
        /\ wallets'[o].pending = wallets[o].pending + Held(o, s)
    BY <1>1
  <2>5. \A i, a, b, c, x \in Int : /\ i + a - b + c + x = i + (a + x) - b + c
                                 /\ a - b - c + x = (a + x) - b - c
    OBVIOUS
  <2>6. wallets'[o].available
          = Initial(o) + (Weighted(Charge, SpotOf(o), Pairs) + Spot(o, u, s))
              - Weighted(refunds, RowSpots(o), BookingIds)
              + Weighted(releases, RowHelds(o), BookingIds)
    BY <2>1, <2>2, <2>4, <2>5, SumsAreIntegers
  <2>7. wallets'[o].pending
          = (Weighted(Charge, HeldOf(o), Pairs) + Held(o, s))
              - Weighted(refunds, RowHelds(o), BookingIds)
              - Weighted(releases, RowHelds(o), BookingIds)
    BY <2>1, <2>2, <2>4, <2>5, SumsAreIntegers
  <2> QED
    BY <2>3, <2>6, <2>7
<1> QED
  BY <1>1, <1>2 DEF Total

LEMMA LedgerRefund ==
  ASSUME Typed, Ledger, Total, NEW b \in BookingIds, row[b] \in Rows,
         Transfer(RefundLegs(row[b].user, row[b].stall)),
         refunds' = [refunds EXCEPT ![b] = @ + 1],
         UNCHANGED <<charged, releases, row>>
  PROVE  Ledger' /\ Total'
<1> DEFINE u == row[b].user
           s == row[b].stall
<1>1. u \in Users /\ s \in Stalls
  BY RowFacts
<1>2. /\ \A o \in Owners : /\ wallets'[o].available = wallets[o].available - Spot(o, u, s)
                           /\ wallets'[o].pending = wallets[o].pending - Held(o, s)
      /\ TotalPaise(wallets') = TotalPaise(wallets)
  BY <1>1, RefundMoves DEF Typed, TypeOK
<1>3. /\ refunds'[b] = refunds[b] + 1
      /\ \A c \in BookingIds : c # b => refunds'[c] = refunds[c]
  BY DEF Typed, TypeOK
<1>4. \A o : RowSpots(o)[b] = Spot(o, u, s) /\ RowHelds(o)[b] = Held(o, s)
  BY DEF RowSpots, RowHelds
<1> HIDE DEF u, s
<1>5. Ledger'
  <2> SUFFICES ASSUME NEW o \in Owners
               PROVE  /\ wallets'[o].available
                           = Initial(o) + Weighted(Charge, SpotOf(o), Pairs)
                               - Weighted(refunds', RowSpots(o), BookingIds)
                               + Weighted(releases, RowHelds(o), BookingIds)
                      /\ wallets'[o].pending
                           = Weighted(Charge, HeldOf(o), Pairs)
                               - Weighted(refunds', RowHelds(o), BookingIds)
                               - Weighted(releases, RowHelds(o), BookingIds)
    BY DEF Ledger, RowSpots, RowHelds, Charge
  <2>1. Initial(o) \in Int /\ Spot(o, u, s) \in Int /\ Held(o, s) \in Int
    BY <1>1, AmountFacts, BookingConstants DEF Initial
  <2>2. Weighted(refunds', RowSpots(o), BookingIds)
          = Weighted(refunds, RowSpots(o), BookingIds) + RowSpots(o)[b]
    <3>1. PICK c, d, w : c = refunds /\ d = refunds' /\ w = RowSpots(o)
      OBVIOUS
    <3>2. \A a \in BookingIds : c[a] \in Nat /\ w[a] \in Int
      BY <3>1, SumsTyped
    <3>3. /\ IsFiniteSet(BookingIds)
          /\ d[b] = c[b] + 1 /\ \A a \in BookingIds : a # b => d[a] = c[a]
      BY <1>3, <3>1, BookingConstants
    <3>4. Weighted(d, w, BookingIds) = Weighted(c, w, BookingIds) + w[b]
      BY <3>2, <3>3, WeightedOneMore
    <3> QED
      BY <3>1, <3>4
  <2>3. Weighted(refunds', RowHelds(o), BookingIds)
          = Weighted(refunds, RowHelds(o), BookingIds) + RowHelds(o)[b]
    <3>1. PICK c, d, w : c = refunds /\ d = refunds' /\ w = RowHelds(o)
      OBVIOUS
    <3>2. \A a \in BookingIds : c[a] \in Nat /\ w[a] \in Int
      BY <3>1, SumsTyped
    <3>3. /\ IsFiniteSet(BookingIds)
          /\ d[b] = c[b] + 1 /\ \A a \in BookingIds : a # b => d[a] = c[a]
      BY <1>3, <3>1, BookingConstants
    <3>4. Weighted(d, w, BookingIds) = Weighted(c, w, BookingIds) + w[b]
      BY <3>2, <3>3, WeightedOneMore
    <3> QED
      BY <3>1, <3>4
  <2> QED
    BY <1>2, <1>4, <2>1, <2>2, <2>3, SumsAreIntegers DEF Ledger
<1> QED
  BY <1>2, <1>5 DEF Total

LEMMA LedgerRelease ==
  ASSUME Typed, Ledger, Total, NEW b \in BookingIds, row[b] \in Rows,
         Transfer(ReleaseLegs(row[b].stall)),
         releases' = [releases EXCEPT ![b] = @ + 1],
         UNCHANGED <<charged, refunds, row>>
  PROVE  Ledger' /\ Total'
<1> DEFINE s == row[b].stall
<1>1. s \in Stalls
  BY RowFacts
<1>2. /\ \A o \in Owners : /\ wallets'[o].available = wallets[o].available + Held(o, s)
                           /\ wallets'[o].pending = wallets[o].pending - Held(o, s)
      /\ TotalPaise(wallets') = TotalPaise(wallets)
  BY <1>1, ReleaseMoves DEF Typed, TypeOK
<1>3. /\ releases'[b] = releases[b] + 1
      /\ \A c \in BookingIds : c # b => releases'[c] = releases[c]
  BY DEF Typed, TypeOK
<1>4. \A o : RowHelds(o)[b] = Held(o, s)
  BY DEF RowHelds
<1> HIDE DEF s
<1>5. Ledger'
  <2> SUFFICES ASSUME NEW o \in Owners
               PROVE  /\ wallets'[o].available
                           = Initial(o) + Weighted(Charge, SpotOf(o), Pairs)
                               - Weighted(refunds, RowSpots(o), BookingIds)
                               + Weighted(releases', RowHelds(o), BookingIds)
                      /\ wallets'[o].pending
                           = Weighted(Charge, HeldOf(o), Pairs)
                               - Weighted(refunds, RowHelds(o), BookingIds)
                               - Weighted(releases', RowHelds(o), BookingIds)
    BY DEF Ledger, RowSpots, RowHelds, Charge
  <2>1. Initial(o) \in Int /\ Held(o, s) \in Int
    BY <1>1, AmountFacts, BookingConstants DEF Initial
  <2>2. Weighted(releases', RowHelds(o), BookingIds)
          = Weighted(releases, RowHelds(o), BookingIds) + RowHelds(o)[b]
    <3>1. PICK c, d, w : c = releases /\ d = releases' /\ w = RowHelds(o)
      OBVIOUS
    <3>2. \A a \in BookingIds : c[a] \in Nat /\ w[a] \in Int
      BY <3>1, SumsTyped
    <3>3. /\ IsFiniteSet(BookingIds)
          /\ d[b] = c[b] + 1 /\ \A a \in BookingIds : a # b => d[a] = c[a]
      BY <1>3, <3>1, BookingConstants
    <3>4. Weighted(d, w, BookingIds) = Weighted(c, w, BookingIds) + w[b]
      BY <3>2, <3>3, WeightedOneMore
    <3> QED
      BY <3>1, <3>4
  <2> QED
    BY <1>2, <1>4, <2>1, <2>2, SumsAreIntegers DEF Ledger
<1> QED
  BY <1>2, <1>5 DEF Total

(* The rows change, but none that money was settled for.                   *)
LEMMA LedgerRows ==
  ASSUME Typed, Ledger, Total, row' \in [BookingIds -> Rows \cup {NoRow}],
         UNCHANGED <<wallets, charged, refunds, releases>>,
         \A b \in BookingIds :
           \/ Settled(b) = 0
           \/ /\ row[b] \in Rows /\ row'[b] \in Rows
              /\ row'[b].user = row[b].user /\ row'[b].stall = row[b].stall
  PROVE  Ledger' /\ Total'
<1>1. Ledger'
  <2> SUFFICES ASSUME NEW o \in Owners
               PROVE  /\ wallets[o].available
                           = Initial(o) + Weighted(Charge, SpotOf(o), Pairs)
                               - Weighted(refunds, RowSpots(o)', BookingIds)
                               + Weighted(releases, RowHelds(o)', BookingIds)
                      /\ wallets[o].pending
                           = Weighted(Charge, HeldOf(o), Pairs)
                               - Weighted(refunds, RowHelds(o)', BookingIds)
                               - Weighted(releases, RowHelds(o)', BookingIds)
    BY DEF Ledger, Charge
  <2>1. \A b \in BookingIds : RowSpots(o)'[b] \in Int /\ RowHelds(o)'[b] \in Int
    BY RowFacts, AmountFacts DEF RowSpots, RowHelds
  <2>2. \A b \in BookingIds :
          \/ refunds[b] = 0 /\ releases[b] = 0
          \/ RowSpots(o)'[b] = RowSpots(o)[b] /\ RowHelds(o)'[b] = RowHelds(o)[b]
    BY DEF RowSpots, RowHelds, Settled, Typed, TypeOK
  <2>3. \A b \in BookingIds : /\ refunds[b] \in Nat /\ releases[b] \in Nat
                              /\ RowSpots(o)[b] \in Int /\ RowHelds(o)[b] \in Int
    BY SumsTyped
  <2>4. IsFiniteSet(BookingIds)
    BY BookingConstants
  <2>5. Weighted(refunds, RowSpots(o)', BookingIds) = Weighted(refunds, RowSpots(o), BookingIds)
    BY <2>1, <2>2, <2>3, <2>4, WeightedSame
  <2>6. Weighted(refunds, RowHelds(o)', BookingIds) = Weighted(refunds, RowHelds(o), BookingIds)
    BY <2>1, <2>2, <2>3, <2>4, WeightedSame
  <2>7. Weighted(releases, RowHelds(o)', BookingIds) = Weighted(releases, RowHelds(o), BookingIds)
    BY <2>1, <2>2, <2>3, <2>4, WeightedSame
  <2> QED
    BY <2>5, <2>6, <2>7 DEF Ledger
<1> QED
  BY <1>1 DEF Total

(* Rows that stay on their stall, and fewer handlers that have paid.       *)
LEMMA BackedKept ==
  ASSUME Typed, Backed, charged' = charged,
         \A b \in BookingIds : \/ row'[b] = row[b]
                              \/ /\ row[b] \in Rows /\ row'[b] \in Rows
                                 /\ row'[b].stall = row[b].stall,
         \A h \in Handlers : pc'[h] = "paid" => pc[h] = "paid" /\ at'[h] = at[h]
  PROVE  Backed'
<1> SUFFICES ASSUME NEW o \in Businesses
             PROVE  Weighted(Charge, HeldOf(o), Pairs)
                      >= SumFunctionOnSet(RowHelds(o)', BookingIds)
                           + SumFunctionOnSet(PaidHelds(o)', Handlers)
  BY DEF Backed, Charge
<1>1. SumFunctionOnSet(RowHelds(o)', BookingIds) = SumFunctionOnSet(RowHelds(o), BookingIds)
  <2>1. PICK f, g : f = RowHelds(o) /\ g = RowHelds(o)'
    OBVIOUS
  <2>2. \A b \in BookingIds : g[b] = f[b]
    BY <2>1 DEF RowHelds
  <2>3. SumFunctionOnSet(g, BookingIds) = SumFunctionOnSet(f, BookingIds)
    BY <2>2, BookingConstants, SumSame
  <2> QED
    BY <2>1, <2>3
<1>2. /\ SumFunctionOnSet(PaidHelds(o)', Handlers) <= SumFunctionOnSet(PaidHelds(o), Handlers)
      /\ SumFunctionOnSet(PaidHelds(o)', Handlers) \in Int
  <2>1. PICK f, g : f = PaidHelds(o) /\ g = PaidHelds(o)'
    OBVIOUS
  <2>2. \A h \in Handlers : f[h] \in Nat
    BY <2>1, SumsTyped
  <2>3. \A h \in Handlers : g[h] = f[h] \/ g[h] = 0
    BY <2>1 DEF PaidHelds
  <2>4. \A h \in Handlers : f[h] \in Int /\ g[h] \in Int /\ g[h] <= f[h]
    BY <2>2, <2>3
  <2>5. SumFunctionOnSet(g, Handlers) <= SumFunctionOnSet(f, Handlers)
    BY <2>4, BookingConstants, SumAtMost
  <2>6. SumFunctionOnSet(g, Handlers) \in Int
    BY <2>4, BookingConstants, SumType
  <2> QED
    BY <2>1, <2>5, <2>6
<1>3. Weighted(Charge, HeldOf(o), Pairs)
        >= SumFunctionOnSet(RowHelds(o), BookingIds) + SumFunctionOnSet(PaidHelds(o), Handlers)
  BY DEF Backed
<1>4. \A c, r, p, q \in Int : c >= r + p /\ q <= p => c >= r + q
  OBVIOUS
<1> QED
  BY <1>1, <1>2, <1>3, <1>4, SumsAreIntegers

LEMMA BackedPay ==
  ASSUME Typed, Backed, NEW h \in Handlers, BookPay(h)
  PROVE  Backed'
<1> DEFINE u == who[h]
           s == at[h]
<1>1. u \in Users /\ s \in Stalls /\ pc[h] = "funded"
  BY DEF BookPay, Typed, Args
<1>2. /\ charged' = [charged EXCEPT ![u][s] = @ + 1]
      /\ pc'[h] = "paid" /\ \A g \in Handlers : g # h => pc'[g] = pc[g]
      /\ at' = at /\ row' = row
  BY DEF BookPay, Typed, TypeOK, tableVars
<1> SUFFICES ASSUME NEW o \in Businesses
             PROVE  Weighted(Charge', HeldOf(o), Pairs)
                      >= SumFunctionOnSet(RowHelds(o), BookingIds)
                           + SumFunctionOnSet(PaidHelds(o)', Handlers)
  BY <1>2 DEF Backed, RowHelds
<1>3. Weighted(Charge', HeldOf(o), Pairs)
        = Weighted(Charge, HeldOf(o), Pairs) + Held(o, s)
  BY <1>1, <1>2, OneChargeMore
<1>4. Held(o, s) \in Int
  BY <1>1, AmountFacts
<1>5. SumFunctionOnSet(PaidHelds(o)', Handlers)
        = SumFunctionOnSet(PaidHelds(o), Handlers) + Held(o, s)
  <2>1. PICK f, g, x : f = PaidHelds(o) /\ g = PaidHelds(o)' /\ x = Held(o, s)
    OBVIOUS
  <2>2. \A k \in Handlers : f[k] \in Nat
    BY <2>1, SumsTyped
  <2>3. f[h] = 0 /\ g[h] = x /\ \A k \in Handlers : k # h => g[k] = f[k]
    BY <1>1, <1>2, <2>1 DEF PaidHelds
  <2>4. x \in Int /\ \A k \in Handlers : f[k] \in Int /\ g[k] \in Int
    BY <1>4, <2>1, <2>2, <2>3
  <2>5. SumFunctionOnSet(g, Handlers) = SumFunctionOnSet(f, Handlers) + g[h] - f[h]
    BY <2>3, <2>4, BookingConstants, SumChange
  <2>6. SumFunctionOnSet(f, Handlers) \in Int
    BY <2>4, BookingConstants, SumType
  <2>7. SumFunctionOnSet(g, Handlers) = SumFunctionOnSet(f, Handlers) + x
    BY <2>3, <2>4, <2>5, <2>6
  <2> QED
    BY <2>1, <2>7
<1>6. Weighted(Charge, HeldOf(o), Pairs)
        >= SumFunctionOnSet(RowHelds(o), BookingIds) + SumFunctionOnSet(PaidHelds(o), Handlers)
  BY DEF Backed
<1>7. \A c, r, p, x \in Int : c >= r + p => c + x >= r + (p + x)
  OBVIOUS
<1> QED
  BY <1>3, <1>4, <1>5, <1>6, <1>7, SumsAreIntegers

(* The handler that inserts the row is no longer one that has paid.        *)
LEMMA BackedCommit ==
  ASSUME Typed, Backed, NEW h \in Handlers, BookCommit(h)
  PROVE  Backed'
<1> DEFINE u == who[h]
           s == at[h]
<1>1. u \in Users /\ s \in Stalls /\ pc[h] = "paid"
  BY DEF BookCommit, Typed, Args
<1>2. PICK b \in BookingIds :
        /\ row[b] = NoRow
        /\ row' = [row EXCEPT ![b] = [state |-> "confirmed", user |-> u, stall |-> s]]
  BY DEF BookCommit
<1>3. /\ row'[b] \in Rows /\ row'[b].stall = s /\ row[b] \notin Rows
      /\ \A c \in BookingIds : c # b => row'[c] = row[c]
  BY <1>1, <1>2, RowFacts DEF Typed, TypeOK, Rows
<1>4. /\ charged' = charged /\ pc'[h] = "idle"
      /\ \A g \in Handlers : pc'[g] = "idle" \/ (pc'[g] = pc[g] /\ at'[g] = at[g])
  BY <1>1, CommitType DEF BookCommit, Typed, ledgerVars
<1>5. \A g \in Handlers : g # h => (pc'[g] = "paid") = (pc[g] = "paid")
  BY <1>1, <1>4, CommitType DEF BookCommit, Typed, Blocked
<1> SUFFICES ASSUME NEW o \in Businesses
             PROVE  Weighted(Charge, HeldOf(o), Pairs)
                      >= SumFunctionOnSet(RowHelds(o)', BookingIds)
                           + SumFunctionOnSet(PaidHelds(o)', Handlers)
  BY <1>4 DEF Backed, Charge
<1>6. Held(o, s) \in Int
  BY <1>1, AmountFacts
<1>7. SumFunctionOnSet(RowHelds(o)', BookingIds)
        = SumFunctionOnSet(RowHelds(o), BookingIds) + Held(o, s)
  <2>1. PICK f, g, x : f = RowHelds(o) /\ g = RowHelds(o)' /\ x = Held(o, s)
    OBVIOUS
  <2>2. \A c \in BookingIds : f[c] \in Nat
    BY <2>1, SumsTyped
  <2>3. f[b] = 0 /\ g[b] = x /\ \A c \in BookingIds : c # b => g[c] = f[c]
    BY <1>3, <2>1 DEF RowHelds
  <2>4. x \in Int /\ \A c \in BookingIds : f[c] \in Int /\ g[c] \in Int
    BY <1>6, <2>1, <2>2, <2>3
  <2>5. SumFunctionOnSet(g, BookingIds) = SumFunctionOnSet(f, BookingIds) + g[b] - f[b]
    BY <2>3, <2>4, BookingConstants, SumChange
  <2>6. SumFunctionOnSet(f, BookingIds) \in Int
    BY <2>4, BookingConstants, SumType
  <2>7. SumFunctionOnSet(g, BookingIds) = SumFunctionOnSet(f, BookingIds) + x
    BY <2>3, <2>4, <2>5, <2>6
  <2> QED
    BY <2>1, <2>7
<1>8. /\ SumFunctionOnSet(PaidHelds(o)', Handlers)
           = SumFunctionOnSet(PaidHelds(o), Handlers) - Held(o, s)
  <2>1. PICK f, g, x : f = PaidHelds(o) /\ g = PaidHelds(o)' /\ x = Held(o, s)
    OBVIOUS
  <2>2. \A k \in Handlers : f[k] \in Nat
    BY <2>1, SumsTyped
  <2>3. f[h] = x /\ g[h] = 0 /\ \A k \in Handlers : k # h => g[k] = f[k]
    BY <1>1, <1>4, <1>5, <2>1 DEF PaidHelds
  <2>4. x \in Int /\ \A k \in Handlers : f[k] \in Int /\ g[k] \in Int
    BY <1>6, <2>1, <2>2, <2>3
  <2>5. SumFunctionOnSet(g, Handlers) = SumFunctionOnSet(f, Handlers) + g[h] - f[h]
    BY <2>3, <2>4, BookingConstants, SumChange
  <2>6. SumFunctionOnSet(f, Handlers) \in Int
    BY <2>4, BookingConstants, SumType
  <2>7. SumFunctionOnSet(g, Handlers) = SumFunctionOnSet(f, Handlers) - x
    BY <2>3, <2>4, <2>5, <2>6
  <2> QED
    BY <2>1, <2>7
<1>9. Weighted(Charge, HeldOf(o), Pairs)
        >= SumFunctionOnSet(RowHelds(o), BookingIds) + SumFunctionOnSet(PaidHelds(o), Handlers)
  BY DEF Backed
<1>10. \A c, r, p, x \in Int : c >= r + p => c >= (r + x) + (p - x)
  OBVIOUS
<1> QED
  BY <1>6, <1>7, <1>8, <1>9, <1>10, SumsAreIntegers

LEMMA MoneyInit == Init => MoneyInv
<1> SUFFICES ASSUME Init PROVE MoneyInv
  OBVIOUS
<1>1. Typed
  BY TypedInit
<1>2. ASSUME NEW o
      PROVE  /\ Weighted(Charge, SpotOf(o), Pairs) = 0
             /\ Weighted(Charge, HeldOf(o), Pairs) = 0
             /\ Weighted(refunds, RowSpots(o), BookingIds) = 0
             /\ Weighted(refunds, RowHelds(o), BookingIds) = 0
             /\ Weighted(releases, RowHelds(o), BookingIds) = 0
             /\ SumFunctionOnSet(RowHelds(o), BookingIds) = 0
             /\ SumFunctionOnSet(PaidHelds(o), Handlers) = 0
  <2>1. \A p \in Pairs : Charge[p] = 0
    BY DEF Init, Charge, Pairs
  <2>2. \A b \in BookingIds : refunds[b] = 0 /\ releases[b] = 0 /\ RowHelds(o)[b] = 0
    BY RowFacts DEF Init, RowHelds
  <2>3. \A h \in Handlers : PaidHelds(o)[h] = 0
    BY DEF Init, PaidHelds
  <2>4. /\ Weighted(Charge, SpotOf(o), Pairs) = 0
        /\ Weighted(Charge, HeldOf(o), Pairs) = 0
    BY <1>1, <2>1, SumsTyped, WeightedZero
  <2>5. /\ Weighted(refunds, RowSpots(o), BookingIds) = 0
        /\ Weighted(refunds, RowHelds(o), BookingIds) = 0
        /\ Weighted(releases, RowHelds(o), BookingIds) = 0
    BY <1>1, <2>2, SumsTyped, WeightedZero
  <2>6. /\ SumFunctionOnSet(RowHelds(o), BookingIds) = 0
        /\ SumFunctionOnSet(PaidHelds(o), Handlers) = 0
    BY <2>2, <2>3, BookingConstants, SumZero
  <2> QED
    BY <2>4, <2>5, <2>6
<1>3. Ledger
  <2> SUFFICES ASSUME NEW o \in Owners
               PROVE  wallets[o].available = Initial(o) + 0 - 0 + 0
                        /\ wallets[o].pending = 0 - 0 - 0
    BY <1>2 DEF Ledger
  <2> QED
    BY BookingConstants DEF Init, Initial
<1>4. Total
  <2> DEFINE g == [o \in Owners |-> wallets[o].available + wallets[o].pending]
  <2>1. \A o \in Owners : g[o] = IF o \in Users THEN Funds[o] ELSE 0
    BY BookingConstants DEF Init
  <2>2. TotalPaise(wallets) = SumFunctionOnSet(g, Owners)
    BY DEF TotalPaise, SumFunction
  <2> HIDE DEF g
  <2>3. Users \in SUBSET Owners /\ \A o \in Users : Funds[o] \in Int
    BY BookingConstants DEF Owners
  <2>4. \A o \in Owners : g[o] \in Int /\ g[o] = IF o \in Users THEN g[o] ELSE 0
    BY <2>1, <2>3
  <2>5. SumFunctionOnSet(g, Users) = SumFunctionOnSet(g, Owners)
    BY <2>3, <2>4, OwnersFinite, SumPart
  <2>6. SumFunctionOnSet(Funds, Users) = SumFunctionOnSet(g, Users)
    <3>1. IsFiniteSet(Users) /\ \A o \in Users : Funds[o] = g[o]
      BY <2>1, <2>3, BookingConstants
    <3> QED
      BY <3>1, SumSame
  <2>7. SumFunction(Funds) = SumFunctionOnSet(Funds, Users)
    BY BookingConstants DEF SumFunction
  <2> QED
    BY <2>2, <2>5, <2>6, <2>7 DEF Total
<1>5. Backed
  BY <1>2 DEF Backed
<1> QED
  BY <1>1, <1>3, <1>4, <1>5 DEF MoneyInv

(* Steps that move no money and change no row.                             *)
LEMMA MoneyQuiet ==
  ASSUME MoneyInv, UNCHANGED <<ledgerVars, row>>,
         \A h \in Handlers : pc'[h] = "paid" => pc[h] = "paid" /\ at'[h] = at[h]
  PROVE  Ledger' /\ Total' /\ Backed'
<1>1. UNCHANGED <<wallets, charged, refunds, releases>>
  BY DEF ledgerVars
<1>2. Ledger' /\ Total'
  BY <1>1 DEF MoneyInv, Ledger, Total, Charge, RowSpots, RowHelds
<1>3. Backed'
  BY <1>1, BackedKept DEF MoneyInv
<1> QED
  BY <1>2, <1>3

(* A row that changes its state only.                                      *)
LEMMA MoneyRestated ==
  ASSUME MoneyInv, NEW b \in BookingIds, NEW st \in {"cancelled", "released"},
         row[b] \in Rows, row' = [row EXCEPT ![b].state = st], UNCHANGED ledgerVars,
         \A h \in Handlers : pc'[h] = "paid" => pc[h] = "paid" /\ at'[h] = at[h]
  PROVE  Ledger' /\ Total' /\ Backed'
<1>1. UNCHANGED <<wallets, charged, refunds, releases>>
  BY DEF ledgerVars
<1>2. /\ row'[b] \in Rows /\ row'[b].user = row[b].user /\ row'[b].stall = row[b].stall
      /\ \A c \in BookingIds : c # b => row'[c] = row[c]
      /\ row' \in [BookingIds -> Rows \cup {NoRow}]
  BY DEF MoneyInv, Typed, TypeOK, Rows
<1>3. \A c \in BookingIds :
        \/ Settled(c) = 0
        \/ /\ row[c] \in Rows /\ row'[c] \in Rows
           /\ row'[c].user = row[c].user /\ row'[c].stall = row[c].stall
  <2> TAKE c \in BookingIds
  <2>1. Settled(c) \in Nat
    BY DEF MoneyInv, Typed, TypeOK, Settled
  <2> QED
    BY <1>2, <2>1 DEF MoneyInv, Typed, Args
<1>4. Ledger' /\ Total'
  BY <1>1, <1>2, <1>3, LedgerRows DEF MoneyInv
<1>5. Backed'
  BY <1>1, <1>2, BackedKept DEF MoneyInv
<1> QED
  BY <1>4, <1>5

LEMMA MoneyStep == MoneyInv /\ [Next]_vars => MoneyInv'
<1> SUFFICES ASSUME MoneyInv, [Next]_vars PROVE MoneyInv'
  OBVIOUS
<1> DEFINE Money == Ledger' /\ Total' /\ Backed'
<1>1. Typed /\ Typed'
  BY TypedStep DEF MoneyInv
<1>2. ASSUME NEW e \in Events, Submit(e) \/ Update(e) PROVE Money
  BY <1>2, MoneyQuiet DEF Submit, Update, tableVars, handlerVars
<1>3. ASSUME Tick PROVE Money
  <2>1. UNCHANGED <<ledgerVars, row, pc, at>>
    BY <1>3 DEF Tick, tableVars, handlerVars
  <2> QED
    BY <2>1, MoneyQuiet
<1>4. ASSUME NEW h \in Handlers, Reject(h) \/ RollBack(h) PROVE Money
  <2>1. /\ pc' = [pc EXCEPT ![h] = "idle"] /\ Finish(h)
        /\ UNCHANGED <<ledgerVars, row>>
    BY <1>4 DEF Reject, RollBack
  <2>2. pc'[h] = "idle" /\ \A g \in Handlers \ {h} : pc'[g] = pc[g] /\ at'[g] = at[g]
    BY <1>1, <2>1, FinishType DEF Typed
  <2> QED
    BY <2>1, <2>2, MoneyQuiet
<1>5. ASSUME NEW h \in Handlers, Expire(h) PROVE Money
  BY <1>5, MoneyQuiet DEF Expire
<1>6. ASSUME NEW h \in Handlers, NEW u \in Users, NEW s \in Stalls, BookBegin(h, u, s)
      PROVE  Money
  <2>1. UNCHANGED <<ledgerVars, row>> /\ pc'[h] \in {"locked", "queued"}
          /\ \A g \in Handlers \ {h} : pc'[g] = pc[g] /\ at'[g] = at[g]
    <3>1. CASE holder[s] = None
      BY <1>1, <1>6, <3>1 DEF BookBegin, Typed, TypeOK
    <3>2. CASE holder[s] # None
      BY <1>1, <1>6, <3>2 DEF BookBegin, Typed, TypeOK
    <3> QED
      BY <3>1, <3>2
  <2> QED
    BY <2>1, MoneyQuiet
<1>7. ASSUME NEW h \in Handlers, BookGrant(h) \/ BookFunds(h) PROVE Money
  <2>1. UNCHANGED <<ledgerVars, row, at>> /\ pc'[h] \in {"locked", "funded"}
          /\ \A g \in Handlers \ {h} : pc'[g] = pc[g]
    BY <1>1, <1>7 DEF BookGrant, BookFunds, tableVars, Typed, TypeOK
  <2> QED
    BY <2>1, MoneyQuiet
<1>8. ASSUME NEW h \in Handlers, BookPay(h) PROVE Money
  <2>1. who[h] \in Users /\ at[h] \in Stalls
    BY <1>1, <1>8 DEF BookPay, Typed, Args
  <2>2. /\ Transfer(BookLegs(who[h], at[h]))
        /\ charged' = [charged EXCEPT ![who[h]][at[h]] = @ + 1]
        /\ UNCHANGED <<refunds, releases, row>>
    BY <1>8 DEF BookPay, tableVars
  <2>3. Ledger' /\ Total'
    BY <2>1, <2>2, LedgerPay DEF MoneyInv
  <2>4. Backed'
    BY <1>8, BackedPay DEF MoneyInv
  <2> QED
    BY <2>3, <2>4
<1>9. ASSUME NEW h \in Handlers, BookCommit(h) PROVE Money
  <2>1. UNCHANGED <<wallets, charged, refunds, releases>>
    BY <1>9 DEF BookCommit, ledgerVars
  <2>2. PICK b \in BookingIds :
          row[b] = NoRow /\ \A c \in BookingIds : c # b => row'[c] = row[c]
    BY <1>1, <1>9 DEF BookCommit, Typed, TypeOK
  <2>3. \A c \in BookingIds : Settled(c) \in Nat /\ (Settled(c) > 0 => row[c] \in Rows)
    BY <1>1 DEF Typed, TypeOK, Args, Settled
  <2>4. \A c \in BookingIds :
          \/ Settled(c) = 0
          \/ /\ row[c] \in Rows /\ row'[c] \in Rows
             /\ row'[c].user = row[c].user /\ row'[c].stall = row[c].stall
    BY <2>2, <2>3, RowFacts
  <2>5. row' \in [BookingIds -> Rows \cup {NoRow}]
    BY <1>1 DEF Typed, TypeOK
  <2>6. Ledger' /\ Total'
    BY <2>1, <2>4, <2>5, LedgerRows DEF MoneyInv
  <2>7. Backed'
    BY <1>9, BackedCommit DEF MoneyInv
  <2> QED
    BY <2>6, <2>7
<1>10. ASSUME NEW h \in Handlers, NEW b \in BookingIds, CancelBegin(h, b) PROVE Money
  <2>1. UNCHANGED <<ledgerVars, row, at>> /\ pc'[h] = "cancelling"
          /\ \A g \in Handlers \ {h} : pc'[g] = pc[g]
    BY <1>1, <1>10 DEF CancelBegin, tableVars, Typed, TypeOK
  <2> QED
    BY <2>1, MoneyQuiet
<1>11. ASSUME NEW h \in Handlers, CancelRefund(h) PROVE Money
  <2>1. target[h] \in BookingIds /\ row[target[h]] \in Rows
    BY <1>1, <1>11 DEF CancelRefund, Typed, Args
  <2>2. /\ Transfer(RefundLegs(row[target[h]].user, row[target[h]].stall))
        /\ refunds' = [refunds EXCEPT ![target[h]] = @ + 1]
        /\ UNCHANGED <<charged, releases, row, at>>
        /\ pc'[h] = "refunded" /\ \A g \in Handlers \ {h} : pc'[g] = pc[g]
    BY <1>1, <1>11 DEF CancelRefund, tableVars, Typed, TypeOK
  <2>3. Ledger' /\ Total'
    BY <2>1, <2>2, LedgerRefund DEF MoneyInv
  <2>4. Backed'
    BY <2>2, BackedKept DEF MoneyInv
  <2> QED
    BY <2>3, <2>4
<1>12. ASSUME NEW h \in Handlers, CancelCommit(h) PROVE Money
  <2>1. target[h] \in BookingIds /\ row[target[h]] \in Rows /\ row[target[h]].stall \in Stalls
    BY <1>1, <1>12, RowFacts DEF CancelCommit, Typed, Args
  <2>2. /\ row' = [row EXCEPT ![target[h]].state = "cancelled"] /\ UNCHANGED ledgerVars
        /\ \A g \in Handlers : pc'[g] = "idle" \/ (pc'[g] = pc[g] /\ at'[g] = at[g])
    BY <1>1, <1>12, <2>1, CommitType DEF CancelCommit, Typed
  <2> QED
    BY <2>1, <2>2, MoneyRestated
<1>13. ASSUME NEW w \in Workers, ReleaseScan(w) \/ WorkerFails(w) PROVE Money
  BY <1>13, MoneyQuiet DEF ReleaseScan, WorkerFails, tableVars, handlerVars
<1>14. ASSUME NEW w \in Workers, ReleasePay(w) PROVE Money
  <2>1. PICK b \in batch[w] :
          /\ Transfer(ReleaseLegs(row[b].stall))
          /\ releases' = [releases EXCEPT ![b] = @ + 1]
    BY <1>14 DEF ReleasePay
  <2>2. b \in BookingIds /\ row[b] \in Rows
    BY <1>1 DEF Typed, TypeOK, Args
  <2>3. UNCHANGED <<charged, refunds, row, pc, at>>
    BY <1>14 DEF ReleasePay, tableVars, handlerVars
  <2>4. Ledger' /\ Total'
    BY <2>1, <2>2, <2>3, LedgerRelease DEF MoneyInv
  <2>5. Backed'
    BY <2>3, BackedKept DEF MoneyInv
  <2> QED
    BY <2>4, <2>5
<1>15. ASSUME NEW w \in Workers, ReleaseMark(w) PROVE Money
  <2>1. paying[w] \in BookingIds /\ row[paying[w]] \in Rows
    BY <1>1, <1>15 DEF ReleaseMark, Typed, TypeOK, Args
  <2>2. /\ row' = [row EXCEPT ![paying[w]].state = "released"] /\ UNCHANGED ledgerVars
        /\ UNCHANGED <<pc, at>>
    BY <1>15 DEF ReleaseMark, handlerVars
  <2> QED
    BY <2>1, <2>2, MoneyRestated
<1>16. ASSUME UNCHANGED vars PROVE Money
  <2>1. UNCHANGED <<ledgerVars, row, pc, at>>
    BY <1>16 DEF vars, tableVars, handlerVars
  <2> QED
    BY <2>1, MoneyQuiet
<1> HIDE DEF Money
<1>17. Money
  BY <1>2, <1>3, <1>4, <1>5, <1>6, <1>7, <1>8, <1>9, <1>10, <1>11, <1>12, <1>13, <1>14,
     <1>15, <1>16
     DEF Next, OrganiserStep, HandlerStep, BookStep, CancelStep, WorkerStep
<1> QED
  BY <1>1, <1>17 DEF MoneyInv, Money

LEMMA MoneyAlways == Spec => []MoneyInv
BY MoneyInit, MoneyStep, PTL DEF Spec

-----------------------------------------------------------------------------
(* From the invariant to the ledger's own sums.                            *)
LEMMA ChargesAre ==
  ASSUME Typed, NEW S \in SUBSET Pairs, NEW w, NEW amount,
         \A p \in Pairs : w[p] \in Int, \A p \in Pairs \ S : w[p] = 0,
         \A p \in S : w[p] = amount[p[2]]
  PROVE  Weighted(Charge, w, Pairs) = Charges(S, amount) /\ Charges(S, amount) \in Int
<1> DEFINE h == [x \in S |-> charged[x[1]][x[2]] * amount[x[2]]]
<1>1. \A p \in S : h[p] = Charge[p] * w[p]
  BY DEF Charge
<1>2. Charges(S, amount) = SumFunctionOnSet(h, S)
  BY DEF Charges, SumFunction
<1> HIDE DEF h
<1>3. IsFiniteSet(Pairs) /\ \A p \in Pairs : Charge[p] \in Nat /\ w[p] \in Int
  BY SumsTyped
<1>4. PICK c : c = Charge
  OBVIOUS
<1>5. Weighted(c, w, Pairs) = SumFunctionOnSet(h, S)
  BY <1>1, <1>3, <1>4, WeightedPart
<1>6. Weighted(c, w, Pairs) \in Int
  BY <1>3, <1>4, WeightedType
<1> QED
  BY <1>2, <1>4, <1>5, <1>6

LEMMA SettlementsAre ==
  ASSUME Typed, NEW B \in SUBSET BookingIds, NEW count, NEW w, NEW amount,
         \A b \in BookingIds : count[b] \in Nat /\ w[b] \in Int,
         \A b \in BookingIds \ B : w[b] = 0, \A b \in B : w[b] = amount[row[b].stall]
  PROVE  /\ Weighted(count, w, BookingIds) = Settlements(B, count, amount)
         /\ Settlements(B, count, amount) \in Int
<1> DEFINE h == [b \in B |-> count[b] * amount[row[b].stall]]
<1>1. \A b \in B : h[b] = count[b] * w[b]
  OBVIOUS
<1>2. Settlements(B, count, amount) = SumFunctionOnSet(h, B)
  BY DEF Settlements, SumFunction
<1> HIDE DEF h
<1>3. IsFiniteSet(BookingIds)
  BY BookingConstants
<1>4. Weighted(count, w, BookingIds) = SumFunctionOnSet(h, B)
  BY <1>1, <1>3, WeightedPart
<1>5. Weighted(count, w, BookingIds) \in Int
  BY <1>3, WeightedType
<1> QED
  BY <1>2, <1>4, <1>5

(* A user's wallet is never a business's or the house's.                   *)
LEMMA UserMoney ==
  ASSUME MoneyInv, NEW u \in Users
  PROVE  LET mine == {b \in BookingIds : row[b].user = u} IN
         /\ wallets[u].available
              = Funds[u] - Charges({u} \X Stalls, Price) + Settlements(mine, refunds, Price)
         /\ wallets[u].pending = 0
<1> DEFINE mine == {b \in BookingIds : row[b].user = u}
           paid == [p \in Pairs |-> IF p[1] = u THEN Price[p[2]] ELSE 0]
           back == [b \in BookingIds |-> IF row[b].user = u THEN Price[row[b].stall] ELSE 0]
<1>1. Typed /\ u \in Owners /\ Initial(u) = Funds[u] /\ Funds[u] \in Int
  BY BookingConstants DEF MoneyInv, Owners, Initial
<1>2. \A s \in Stalls : /\ Price[s] \in Int /\ Held(u, s) = 0
                        /\ \A v : Spot(u, v, s) = -(IF v = u THEN Price[s] ELSE 0)
  <2> TAKE s \in Stalls
  <2>1. u # House /\ u # Biz(s) /\ Price[s] \in Int
    BY AmountFacts, OwnersDistinct
  <2> QED
    BY <2>1 DEF Spot, Held
<1>3. \A b \in BookingIds : row[b].user = u => row[b] \in Rows
  BY <1>1, RowFacts, BookingConstants DEF Typed, TypeOK
<1>4. /\ Weighted(Charge, SpotOf(u), Pairs) = -Charges({u} \X Stalls, Price)
      /\ Charges({u} \X Stalls, Price) \in Int
  <2>1. \A p \in Pairs : SpotOf(u)[p] = -paid[p] /\ paid[p] \in Int
    BY <1>2 DEF SpotOf, Pairs
  <2>2. Weighted(Charge, SpotOf(u), Pairs) = -Weighted(Charge, paid, Pairs)
    <3>1. PICK c, v, w : c = Charge /\ v = paid /\ w = SpotOf(u)
      OBVIOUS
    <3>2. IsFiniteSet(Pairs) /\ \A p \in Pairs : c[p] \in Nat /\ v[p] \in Int /\ w[p] = -v[p]
      BY <1>1, <2>1, <3>1, SumsTyped
    <3>3. Weighted(c, w, Pairs) = -Weighted(c, v, Pairs)
      BY <3>2, WeightedNegative
    <3> QED
      BY <3>1, <3>3
  <2>3. /\ {u} \X Stalls \in SUBSET Pairs
        /\ \A p \in Pairs \ ({u} \X Stalls) : paid[p] = 0
        /\ \A p \in {u} \X Stalls : paid[p] = Price[p[2]]
    BY DEF Pairs
  <2> HIDE DEF paid
  <2>4. /\ Weighted(Charge, paid, Pairs) = Charges({u} \X Stalls, Price)
        /\ Charges({u} \X Stalls, Price) \in Int
    BY <1>1, <2>1, <2>3, ChargesAre
  <2> QED
    BY <2>2, <2>4
<1>5. /\ Weighted(refunds, RowSpots(u), BookingIds) = -Settlements(mine, refunds, Price)
      /\ Settlements(mine, refunds, Price) \in Int
  <2>1. \A b \in BookingIds : RowSpots(u)[b] = -back[b] /\ back[b] \in Int
    BY <1>2, <1>3, RowFacts DEF RowSpots
  <2>2. Weighted(refunds, RowSpots(u), BookingIds) = -Weighted(refunds, back, BookingIds)
    <3>1. PICK c, v, w : c = refunds /\ v = back /\ w = RowSpots(u)
      OBVIOUS
    <3>2. /\ IsFiniteSet(BookingIds)
          /\ \A b \in BookingIds : c[b] \in Nat /\ v[b] \in Int /\ w[b] = -v[b]
      BY <1>1, <2>1, <3>1, SumsTyped
    <3>3. Weighted(c, w, BookingIds) = -Weighted(c, v, BookingIds)
      BY <3>2, WeightedNegative
    <3> QED
      BY <3>1, <3>3
  <2>3. /\ mine \in SUBSET BookingIds
        /\ \A b \in BookingIds \ mine : back[b] = 0
        /\ \A b \in mine : back[b] = Price[row[b].stall]
        /\ \A b \in BookingIds : refunds[b] \in Nat
    BY <1>1 DEF Typed, TypeOK
  <2> HIDE DEF back, mine
  <2>4. /\ Weighted(refunds, back, BookingIds) = Settlements(mine, refunds, Price)
        /\ Settlements(mine, refunds, Price) \in Int
    BY <1>1, <2>1, <2>3, SettlementsAre
  <2> QED
    BY <2>2, <2>4
<1>6. /\ Weighted(Charge, HeldOf(u), Pairs) = 0
      /\ Weighted(refunds, RowHelds(u), BookingIds) = 0
      /\ Weighted(releases, RowHelds(u), BookingIds) = 0
  <2>1. /\ \A p \in Pairs : HeldOf(u)[p] = 0
        /\ \A b \in BookingIds : RowHelds(u)[b] = 0
    BY <1>2, RowFacts DEF HeldOf, RowHelds, Pairs
  <2> QED
    BY <1>1, <2>1, SumsTyped, WeightedZero
<1>7. /\ wallets[u].available
           = Funds[u] + Weighted(Charge, SpotOf(u), Pairs)
               - Weighted(refunds, RowSpots(u), BookingIds) + 0
      /\ wallets[u].pending = 0 - 0 - 0
  BY <1>1, <1>6 DEF MoneyInv, Ledger
<1>8. \A f, a, b, x, y \in Int : a = -x /\ b = -y => f + a - b + 0 = f - x + y
  OBVIOUS
<1> HIDE DEF mine
<1>9. wallets[u].available
        = Funds[u] - Charges({u} \X Stalls, Price) + Settlements(mine, refunds, Price)
  BY <1>1, <1>4, <1>5, <1>7, <1>8, SumsAreIntegers
<1> QED
  BY <1>7, <1>9 DEF mine

(* What stalls an organiser has, as sums over its charges and settlements. *)
LEMMA BusinessSums ==
  ASSUME Typed, NEW o \in Businesses
  PROVE  /\ Weighted(Charge, HeldOf(o), Pairs) = Charges(Users \X StallsOf(o), Escrows)
         /\ Weighted(refunds, RowHelds(o), BookingIds)
              = Settlements(Booked(StallsOf(o)), refunds, Escrows)
         /\ Weighted(releases, RowHelds(o), BookingIds)
              = Settlements(Booked(StallsOf(o)), releases, Escrows)
<1>1. /\ Users \X StallsOf(o) \in SUBSET Pairs
      /\ \A p \in Pairs : HeldOf(o)[p] \in Int
      /\ \A p \in Pairs \ (Users \X StallsOf(o)) : HeldOf(o)[p] = 0
      /\ \A p \in Users \X StallsOf(o) : HeldOf(o)[p] = Escrows[p[2]]
  BY SumsTyped DEF Pairs, StallsOf, HeldOf, Held, Escrows
<1>2. \A b \in BookingIds : b \in Booked(StallsOf(o)) =>
                             row[b] \in Rows /\ row[b].stall \in StallsOf(o)
  BY RowFacts, BookingConstants DEF Booked, StallsOf, Typed, TypeOK
<1>3. /\ Booked(StallsOf(o)) \in SUBSET BookingIds
      /\ \A b \in BookingIds : /\ refunds[b] \in Nat /\ releases[b] \in Nat
                              /\ RowHelds(o)[b] \in Int
      /\ \A b \in BookingIds \ Booked(StallsOf(o)) : RowHelds(o)[b] = 0
      /\ \A b \in Booked(StallsOf(o)) : RowHelds(o)[b] = Escrows[row[b].stall]
  <2>1. /\ Booked(StallsOf(o)) \in SUBSET BookingIds
        /\ \A b \in BookingIds : /\ refunds[b] \in Nat /\ releases[b] \in Nat
                                /\ RowHelds(o)[b] \in Int
    BY SumsTyped DEF Booked
  <2>2. \A b \in BookingIds \ Booked(StallsOf(o)) : RowHelds(o)[b] = 0
    BY RowFacts DEF Booked, StallsOf, RowHelds, Held
  <2>3. \A b \in Booked(StallsOf(o)) : RowHelds(o)[b] = Escrows[row[b].stall]
    BY <1>2, <2>1 DEF StallsOf, RowHelds, Held, Escrows
  <2> QED
    BY <2>1, <2>2, <2>3
<1>4. Weighted(Charge, HeldOf(o), Pairs) = Charges(Users \X StallsOf(o), Escrows)
  BY <1>1, ChargesAre
<1>5. /\ Weighted(refunds, RowHelds(o), BookingIds)
           = Settlements(Booked(StallsOf(o)), refunds, Escrows)
      /\ Weighted(releases, RowHelds(o), BookingIds)
           = Settlements(Booked(StallsOf(o)), releases, Escrows)
  BY <1>3, SettlementsAre
<1> QED
  BY <1>4, <1>5

LEMMA BusinessMoney ==
  ASSUME MoneyInv, NEW o \in Businesses
  PROVE  LET S == StallsOf(o)  B == Booked(S) IN
         /\ wallets[o].available = Settlements(B, releases, Escrows)
         /\ wallets[o].pending
              = Charges(Users \X S, Escrows)
                  - Settlements(B, refunds, Escrows) - Settlements(B, releases, Escrows)
<1>1. Typed /\ o \in Owners /\ o \notin Users /\ o # House /\ Initial(o) = 0
  BY OwnersDistinct DEF MoneyInv, Owners, Initial
<1>2. /\ \A p \in Pairs : SpotOf(o)[p] = 0
      /\ \A b \in BookingIds : RowSpots(o)[b] = 0
  BY <1>1, RowFacts DEF SpotOf, RowSpots, Spot, Pairs
<1>3. /\ Weighted(Charge, SpotOf(o), Pairs) = 0
      /\ Weighted(refunds, RowSpots(o), BookingIds) = 0
  BY <1>1, <1>2, SumsTyped, WeightedZero
<1>4. /\ wallets[o].available = 0 + 0 - 0 + Weighted(releases, RowHelds(o), BookingIds)
      /\ wallets[o].pending
           = Weighted(Charge, HeldOf(o), Pairs)
               - Weighted(refunds, RowHelds(o), BookingIds)
               - Weighted(releases, RowHelds(o), BookingIds)
  BY <1>1, <1>3 DEF MoneyInv, Ledger
<1>5. wallets[o].available = Weighted(releases, RowHelds(o), BookingIds)
  BY <1>1, <1>4, SumsAreIntegers
<1> QED
  BY <1>1, <1>4, <1>5, BusinessSums

LEMMA HouseMoney ==
  ASSUME MoneyInv
  PROVE  wallets[House].available
           = Charges(Users \X Stalls, Fees) - Settlements(Booked(Stalls), refunds, Fees)
<1>1. /\ Typed /\ House \in Owners /\ House \notin Users /\ House \notin Businesses
      /\ Initial(House) = 0
  BY OwnersDistinct DEF MoneyInv, Owners, Initial
<1>2. \A s \in Stalls : /\ Held(House, s) = 0 /\ Fees[s] \in Int
                        /\ \A u \in Users : Spot(House, u, s) = Fees[s]
  BY <1>1, AmountFacts DEF Held, Spot, Fees
<1>3. Weighted(Charge, SpotOf(House), Pairs) = Charges(Users \X Stalls, Fees)
  <2>1. PICK S : S = Pairs /\ S = Users \X Stalls
    BY DEF Pairs
  <2>2. \A p \in Pairs : SpotOf(House)[p] = Fees[p[2]] /\ SpotOf(House)[p] \in Int
    BY <1>2 DEF SpotOf, Pairs
  <2>3. /\ S \in SUBSET Pairs
        /\ \A p \in Pairs : SpotOf(House)[p] \in Int
        /\ \A p \in Pairs \ S : SpotOf(House)[p] = 0
        /\ \A p \in S : SpotOf(House)[p] = Fees[p[2]]
    BY <2>1, <2>2
  <2>4. Weighted(Charge, SpotOf(House), Pairs) = Charges(S, Fees)
    BY <1>1, <2>3, ChargesAre
  <2> QED
    BY <2>1, <2>4
<1>4. Weighted(refunds, RowSpots(House), BookingIds)
        = Settlements(Booked(Stalls), refunds, Fees)
  <2>1. \A b \in BookingIds : b \in Booked(Stalls) <=> row[b] \in Rows
    BY <1>1, RowFacts, BookingConstants DEF Booked, Typed, TypeOK
  <2>2. /\ \A b \in BookingIds \ Booked(Stalls) : RowSpots(House)[b] = 0
        /\ \A b \in Booked(Stalls) : RowSpots(House)[b] = Fees[row[b].stall]
    BY <1>2, <2>1, RowFacts DEF RowSpots, Booked
  <2>3. /\ Booked(Stalls) \in SUBSET BookingIds
        /\ \A b \in BookingIds : refunds[b] \in Nat /\ RowSpots(House)[b] \in Int
    BY <1>1, SumsTyped DEF Booked
  <2> QED
    BY <1>1, <2>2, <2>3, SettlementsAre
<1>5. Weighted(releases, RowHelds(House), BookingIds) = 0
  <2>1. \A b \in BookingIds : RowHelds(House)[b] = 0
    BY <1>2, RowFacts DEF RowHelds
  <2> QED
    BY <1>1, <2>1, SumsTyped, WeightedZero
<1>6. wallets[House].available
        = 0 + Weighted(Charge, SpotOf(House), Pairs)
            - Weighted(refunds, RowSpots(House), BookingIds) + 0
  BY <1>1, <1>5 DEF MoneyInv, Ledger
<1>7. \A a, b \in Int : 0 + a - b + 0 = a - b
  OBVIOUS
<1>8. wallets[House].available
        = Weighted(Charge, SpotOf(House), Pairs)
            - Weighted(refunds, RowSpots(House), BookingIds)
  BY <1>1, <1>6, <1>7, SumsAreIntegers
<1> QED
  BY <1>3, <1>4, <1>8

(* The balances on the wallet rows are what the ledger's entries add up    *)
(* to, for every schedule of requests, jobs, expiries and crashes; and all *)
(* of them together are what the users topped up.                          *)
THEOREM BalancesAddUp == Spec => []WalletsMatchLedger
<1>1. MoneyInv => WalletsMatchLedger
  BY UserMoney, BusinessMoney, HouseMoney DEF WalletsMatchLedger, MoneyInv, Total
<1> QED
  BY <1>1, MoneyAlways, PTL

(* When no booking is settled twice, a row's escrow is refunded, released  *)
(* or still to be settled.                                                 *)
LEMMA EscrowSplits ==
  ASSUME MoneyInv, NEW o \in Businesses,
         \A b \in Booked(StallsOf(o)) : Settled(b) <= 1
  PROVE  LET due == {c \in Booked(StallsOf(o)) : Settled(c) = 0}
             amount == SumFunction([b \in due |-> Escrow(row[b].stall)])
         IN  /\ amount \in Int
             /\ SumFunctionOnSet(RowHelds(o), BookingIds)
                  = Weighted(refunds, RowHelds(o), BookingIds)
                      + Weighted(releases, RowHelds(o), BookingIds) + amount
<1> DEFINE B == Booked(StallsOf(o))
           due == {c \in B : Settled(c) = 0}
           t == [b \in due |-> Escrow(row[b].stall)]
           h == RowHelds(o)
           f == [b \in BookingIds |-> refunds[b] * h[b]]
           g == [b \in BookingIds |-> releases[b] * h[b]]
           e == [b \in BookingIds |-> f[b] + g[b]]
           d == [b \in BookingIds |-> IF b \in due THEN h[b] ELSE 0]
<1>1. Typed /\ IsFiniteSet(BookingIds) /\ due \in SUBSET BookingIds
  BY BookingConstants DEF MoneyInv, Booked
<1>2. \A b \in BookingIds : refunds[b] \in Nat /\ releases[b] \in Nat /\ h[b] \in Int
  BY <1>1, SumsTyped
<1>3. \A b \in BookingIds \ B : h[b] = 0
  BY <1>1, RowFacts DEF Booked, StallsOf, RowHelds, Held
<1>4. \A b \in due : t[b] = h[b]
  BY <1>1, RowFacts, BookingConstants
     DEF Booked, StallsOf, RowHelds, Held, Typed, TypeOK
<1>5. \A b \in BookingIds : /\ f[b] \in Int /\ g[b] \in Int /\ d[b] \in Int /\ e[b] \in Int
                           /\ h[b] = e[b] + d[b]
  <2> TAKE b \in BookingIds
  <2> DEFINE m == refunds[b]  n == releases[b]  x == h[b]
  <2>1. m \in Nat /\ n \in Nat /\ x \in Int
    BY <1>2
  <2>2. b \notin B => x = 0
    BY <1>3
  <2>3. b \in B => m + n <= 1 /\ (b \in due <=> m + n = 0)
    BY DEF Settled
  <2>4. d[b] = IF b \in due THEN x ELSE 0
    OBVIOUS
  <2>5. f[b] = m * x /\ g[b] = n * x /\ e[b] = m * x + n * x /\ h[b] = x
    OBVIOUS
  <2>6. b \in due => b \in B
    OBVIOUS
  <2> HIDE DEF m, n, x, B, due, d, e, f, g, h
  <2>7. \A y \in Int : 0 * y = 0 /\ 1 * y = y /\ \A k \in Nat : k * 0 = 0
    OBVIOUS
  <2>8. CASE b \notin B
    BY <2>1, <2>2, <2>4, <2>5, <2>6, <2>7, <2>8
  <2>9. CASE b \in due
    <3>1. m = 0 /\ n = 0
      BY <2>1, <2>3, <2>6, <2>9
    <3> QED
      BY <3>1, <2>1, <2>4, <2>5, <2>7, <2>9
  <2>10. CASE b \in B /\ b \notin due
    <3>1. (m = 1 /\ n = 0) \/ (m = 0 /\ n = 1)
      BY <2>1, <2>3, <2>10
    <3> QED
      BY <3>1, <2>1, <2>4, <2>5, <2>7, <2>10
  <2> QED
    BY <2>8, <2>9, <2>10
<1>6. \A b \in BookingIds : e[b] = f[b] + g[b]
  OBVIOUS
<1>7. \A b \in BookingIds : d[b] = IF b \in due THEN h[b] ELSE 0
  OBVIOUS
<1>8. /\ Weighted(refunds, RowHelds(o), BookingIds) = SumFunctionOnSet(f, BookingIds)
      /\ Weighted(releases, RowHelds(o), BookingIds) = SumFunctionOnSet(g, BookingIds)
      /\ SumFunctionOnSet(RowHelds(o), BookingIds) = SumFunctionOnSet(h, BookingIds)
  BY DEF Weighted
<1>9. SumFunction(t) = SumFunctionOnSet(t, due)
  BY DEF SumFunction
<1> HIDE DEF h, f, g, e, d, t, due
<1>10. SumFunctionOnSet(e, BookingIds)
         = SumFunctionOnSet(f, BookingIds) + SumFunctionOnSet(g, BookingIds)
  BY <1>1, <1>5, <1>6, SumPlus
<1>11. SumFunctionOnSet(h, BookingIds)
         = SumFunctionOnSet(e, BookingIds) + SumFunctionOnSet(d, BookingIds)
  BY <1>1, <1>5, SumPlus
<1>12. SumFunctionOnSet(h, due) = SumFunctionOnSet(d, BookingIds)
  BY <1>1, <1>2, <1>7, SumPart
<1>13. SumFunctionOnSet(t, due) = SumFunctionOnSet(h, due)
  <2>1. IsFiniteSet(due)
    BY <1>1, FS_Subset
  <2> QED
    BY <1>4, <2>1, SumSame
<1>14. SumFunctionOnSet(d, BookingIds) \in Int
  BY <1>1, <1>5, SumType
<1>15. /\ SumFunction(t) \in Int
       /\ SumFunctionOnSet(RowHelds(o), BookingIds)
            = Weighted(refunds, RowHelds(o), BookingIds)
                + Weighted(releases, RowHelds(o), BookingIds) + SumFunction(t)
  BY <1>8, <1>9, <1>10, <1>11, <1>12, <1>13, <1>14
<1> QED
  BY <1>15 DEF t, due

(* As long as the ledger shows no booking of an organiser settled twice,   *)
(* nobody else's refund or release eats the escrow of a booking that is    *)
(* still to be settled.                                                    *)
THEOREM EscrowIsCovered == Spec => []EscrowCovered
<1>1. MoneyInv => EscrowCovered
  <2> SUFFICES ASSUME MoneyInv, NEW o \in Businesses,
                      \A b \in Booked(StallsOf(o)) : Settled(b) <= 1
               PROVE  wallets[o].pending
                        >= SumFunction([b \in {c \in Booked(StallsOf(o)) : Settled(c) = 0}
                                          |-> Escrow(row[b].stall)])
    BY DEF EscrowCovered
  <2>1. PICK amount :
          amount = SumFunction([b \in {c \in Booked(StallsOf(o)) : Settled(c) = 0}
                                  |-> Escrow(row[b].stall)])
    OBVIOUS
  <2>2. /\ amount \in Int
        /\ SumFunctionOnSet(RowHelds(o), BookingIds)
             = Weighted(refunds, RowHelds(o), BookingIds)
                 + Weighted(releases, RowHelds(o), BookingIds) + amount
    BY <2>1, EscrowSplits
  <2>3. Typed /\ o \in Owners
    BY DEF MoneyInv, Owners
  <2>4. wallets[o].pending
          = Weighted(Charge, HeldOf(o), Pairs)
              - Weighted(refunds, RowHelds(o), BookingIds)
              - Weighted(releases, RowHelds(o), BookingIds)
    BY <2>3 DEF MoneyInv, Ledger
  <2>5. Weighted(Charge, HeldOf(o), Pairs)
          >= SumFunctionOnSet(RowHelds(o), BookingIds) + SumFunctionOnSet(PaidHelds(o), Handlers)
    BY DEF MoneyInv, Backed
  <2>6. SumFunctionOnSet(PaidHelds(o), Handlers) \in Nat
    BY <2>3, SumsTyped, SumOfNaturals
  <2>7. \A c, r, l, a \in Int, p \in Nat : c >= (r + l + a) + p => c - r - l >= a
    OBVIOUS
  <2>8. wallets[o].pending >= amount
    BY <2>2, <2>3, <2>4, <2>5, <2>6, <2>7, SumsAreIntegers
  <2> QED
    BY <2>1, <2>8
<1> QED
  BY <1>1, MoneyAlways, PTL
=============================================================================
