------------------------------ MODULE Featured ------------------------------
(***************************************************************************)
(* FeaturedService.boost: the organiser of an event pays from the wallet   *)
(* for a listing of a tier.  The event's active listing, the day's cap and *)
(* the balance are read, the charge made and the listing inserted, in five *)
(* statements that no transaction joins.                                   *)
(***************************************************************************)
EXTENDS Wallet

CONSTANTS
  Fairs,               \* live events, each the organiser Host[f]'s
  Host,
  Society, City,       \* of each event; its city is its society's, NoFair is none
  Boosters,            \* handlers of boost
  NoFair,
  TierPrice, TierDays, \* TIERS
  SocietyCap,          \* listings but of tier city, per society and day
  MaxDays, MaxPurse, MaxBoostFaults   \* bounds, see the README

Tiers == {"boost", "city"}     \* spotlight differs from boost in price and days

ASSUME FeaturedConstants ==
  /\ IsFiniteSet(Fairs) /\ IsFiniteSet(Boosters)
  /\ Host \in [Fairs -> Users] /\ NoFair \notin Fairs
  /\ \A f \in Fairs : Society[f] = NoFair <=> City[f] = NoFair
  /\ TierPrice \in [Tiers -> Nat \ {0}] /\ TierDays \in [Tiers -> Nat \ {0}]
  /\ {SocietyCap, MaxDays, MaxPurse, MaxBoostFaults} \subseteq Nat

VARIABLES
  today,
  listings,            \* the rows: [fair, tier, from] with how many there are
  fpc, ffair, ftier,   \* each booster: step, event, tier
  bought, lost,        \* history: [Fairs -> Nat], charges, and those never listed
  rushed,              \* history: two boosters were at work at once
  boostFaults

boosterVars  == <<fpc, ffair, ftier>>
featuredVars == <<today, listings, boosterVars, bought, lost, rushed, boostFaults>>

-----------------------------------------------------------------------------
Listings == [fair : Fairs, tier : Tiers, from : 0..MaxDays]

FeaturedInit ==
  /\ wallets = [o \in Owners |-> [available |-> 0, pending |-> 0]]
  /\ today = 0
  /\ listings = [l \in Listings |-> 0]
  /\ fpc = [b \in Boosters |-> "idle"]
  /\ ffair = [b \in Boosters |-> NoFair] /\ ftier = [b \in Boosters |-> "boost"]
  /\ bought = [f \in Fairs |-> 0] /\ lost = [f \in Fairs |-> 0]
  /\ rushed = FALSE /\ boostFaults = 0

RowsAmong(kinds) == SumFunctionOnSet(listings, kinds)

ActiveFor(f) == RowsAmong({l \in Listings : l.fair = f /\ l.from + TierDays[l.tier] > today})
StartingToday == {l \in Listings : l.from = today}
CityToday(f) == RowsAmong({l \in StartingToday : l.tier = "city" /\ City[l.fair] = City[f]})
SocietyToday(f) ==
  RowsAmong({l \in StartingToday : l.tier # "city" /\ Society[l.fair] = Society[f]})

(* No cap where the event has no society.                                  *)
Capped(f, t) ==
  /\ Society[f] # NoFair
  /\ IF t = "city" THEN CityToday(f) >= 1 ELSE SocietyToday(f) >= SocietyCap

Working(b) == fpc[b] # "idle"

BoostTo(b, from, to, f, t) ==
  /\ fpc[b] = from
  /\ fpc' = [fpc EXCEPT ![b] = to]
  /\ ffair' = [ffair EXCEPT ![b] = f]
  /\ ftier' = [ftier EXCEPT ![b] = t]

BoostEnds(b) == BoostTo(b, fpc[b], "idle", NoFair, "boost")

-----------------------------------------------------------------------------
(* Money comes into the wallet, once before anything is bought (bound).    *)
FillPurse(u) ==
  /\ wallets[u].available = 0 /\ \A f \in Fairs : bought[f] = 0
  /\ Transfer(<< Leg(House, "D", MaxPurse, "available"), Leg(u, "C", MaxPurse, "available") >>)
  /\ UNCHANGED featuredVars

(* The event has no active listing.                                        *)
BoostRead(b, f, t) ==
  /\ ActiveFor(f) = 0
  /\ BoostTo(b, "idle", "capping", f, t)
  /\ rushed' = (rushed \/ \E d \in Boosters : Working(d))
  /\ UNCHANGED <<wallets, today, listings, bought, lost, boostFaults>>

(* Mutant: nothing is capped.                                              *)
BoostCapNone(b) ==
  /\ fpc[b] = "capping"
  /\ BoostTo(b, "capping", "paying", ffair[b], ftier[b])
  /\ UNCHANGED <<wallets, today, listings, bought, lost, rushed, boostFaults>>

(* The cap, counted over the listings that start today, then the balance.  *)
BoostCap(b) ==
  LET f == ffair[b] IN
  /\ fpc[b] = "capping"
  /\ IF Capped(f, ftier[b]) \/ wallets[Host[f]].available < TierPrice[ftier[b]]
     THEN BoostEnds(b)
     ELSE BoostTo(b, "capping", "paying", f, ftier[b])
  /\ UNCHANGED <<wallets, today, listings, bought, lost, rushed, boostFaults>>

(* The charge; a transfer that fails ends the call.                        *)
BoostPay(b) ==
  LET f == ffair[b]  price == TierPrice[ftier[b]] IN
  /\ fpc[b] = "paying"
  /\ \/ /\ Transfer(<< Leg(Host[f], "D", price, "available"),
                       Leg(House, "C", price, "available") >>)
        /\ bought' = [bought EXCEPT ![f] = @ + 1]
        /\ BoostTo(b, "paying", "listing", f, ftier[b])
     \/ /\ wallets[Host[f]].available < price
        /\ BoostEnds(b)
        /\ UNCHANGED <<wallets, bought>>
  /\ UNCHANGED <<today, listings, lost, rushed, boostFaults>>

(* Mutant: the row is written before the money has moved.                  *)
ListUnpaid(b) ==
  /\ fpc[b] \in {"paying", "listing"}
  /\ listings' = [listings EXCEPT ![[fair |-> ffair[b], tier |-> ftier[b], from |-> today]] = @ + 1]
  /\ BoostEnds(b)
  /\ UNCHANGED <<wallets, today, bought, lost, rushed, boostFaults>>

BoostList(b) ==
  /\ fpc[b] = "listing"
  /\ listings' = [listings EXCEPT ![[fair |-> ffair[b], tier |-> ftier[b], from |-> today]] = @ + 1]
  /\ BoostEnds(b)
  /\ UNCHANGED <<wallets, today, bought, lost, rushed, boostFaults>>

BoostFails(b) ==
  /\ Working(b) /\ boostFaults < MaxBoostFaults
  /\ boostFaults' = boostFaults + 1
  /\ lost' = IF fpc[b] = "listing" THEN [lost EXCEPT ![ffair[b]] = @ + 1] ELSE lost
  /\ BoostEnds(b)
  /\ UNCHANGED <<wallets, today, listings, bought, rushed>>

DayPasses ==
  /\ today < MaxDays
  /\ today' = today + 1
  /\ rushed' = (rushed \/ \E b \in Boosters : Working(b))
  /\ UNCHANGED <<wallets, listings, boosterVars, bought, lost, boostFaults>>

FeaturedNext ==
  \/ DayPasses
  \/ \E u \in Users : FillPurse(u)
  \/ \E b \in Boosters :
       \/ BoostCap(b) \/ BoostPay(b) \/ BoostList(b) \/ BoostFails(b)
       \/ \E f \in Fairs, t \in Tiers : BoostRead(b, f, t)

FeaturedSpec == FeaturedInit /\ [][FeaturedNext]_<<wallets, featuredVars>>

-----------------------------------------------------------------------------
FeaturedTypeOK ==
  /\ today \in 0..MaxDays
  /\ listings \in [Listings -> Nat]
  /\ fpc \in [Boosters -> {"idle", "capping", "paying", "listing"}]
  /\ ffair \in [Boosters -> Fairs \cup {NoFair}] /\ ftier \in [Boosters -> Tiers]
  /\ bought \in [Fairs -> Nat] /\ lost \in [Fairs -> Nat] /\ rushed \in BOOLEAN

(* Each charge has its listing, each listing its charge, however calls     *)
(* interleave; a charge may be missing its listing only while its handler  *)
(* is between the two, or died there.                                      *)
ListedIffPaid ==
  \A f \in Fairs :
    bought[f] = RowsAmong({l \in Listings : l.fair = f}) + lost[f]
                  + Cardinality({b \in Boosters : fpc[b] = "listing" /\ ffair[b] = f})

(* The caps ("inventory is capped per geo per day to preserve user trust") *)
(* and the single active listing of an event hold of calls that do not     *)
(* overlap each other or midnight.                                         *)
CapsHold ==
  ~rushed =>
    /\ \A f \in Fairs : ActiveFor(f) <= 1
    /\ \A f \in Fairs :
         Society[f] # NoFair => CityToday(f) <= 1 /\ SocietyToday(f) <= SocietyCap
=============================================================================
