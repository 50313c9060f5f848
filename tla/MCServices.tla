----------------------------- MODULE MCServices -----------------------------
(* Eight services that share no state with one another, checked in one run:*)
(* in each behaviour one of them runs, chosen at the start, and the others *)
(* stay as they began.  (Subscriptions and Featured both use the wallets;  *)
(* their properties hold whatever else moves them.)                        *)
EXTENDS Subscriptions, Featured, EventListings, SocialCards, Reviews, Applications,
        Verification, Marketplace, TLC

CONSTANTS u1, f3

MCHost    == [f \in Fairs |-> u1]
MCCity    == [f \in Fairs |-> IF f = f3 THEN NoFair ELSE "blr"]
MCSociety == [f \in Fairs |-> IF f = f3 THEN NoFair ELSE "soc"]
MCPrice   == [t \in Tiers |-> 1]
MCDays    == [t \in Tiers |-> IF t = "city" THEN 1 ELSE 2]

VARIABLE running

Parts == {"plus", "featured", "listings", "social", "reviews", "applications",
          "verification", "marketplace"}

Init ==
  /\ running \in Parts
  /\ PlusInit /\ FeaturedInit /\ ListingInit /\ CardsInit /\ ReviewInit /\ ApplicationInit
  /\ VerificationInit /\ MarketplaceInit
  /\ running # "listings" => status = "none" /\ autoApprove
  /\ running # "verification" => kycStatus = "pending"

cardsVars == <<socialVars, viewerVars>>

Next ==
  \/ /\ running = "plus" /\ PlusNext
     /\ UNCHANGED <<featuredVars, listingVars, cardsVars, reviewVars, applicationVars,
                    verificationVars, marketplaceVars>>
  \/ /\ running = "featured" /\ FeaturedNext
     /\ UNCHANGED <<plusVars, listingVars, cardsVars, reviewVars, applicationVars,
                    verificationVars, marketplaceVars>>
  \/ /\ UNCHANGED <<wallets, plusVars, featuredVars>>
     /\ \/ /\ running = "listings" /\ ListingNext
           /\ UNCHANGED <<cardsVars, reviewVars, applicationVars, verificationVars,
                          marketplaceVars>>
        \/ /\ running = "social" /\ CardsNext
           /\ UNCHANGED <<listingVars, reviewVars, applicationVars, verificationVars,
                          marketplaceVars>>
        \/ /\ running = "reviews" /\ ReviewNext
           /\ UNCHANGED <<listingVars, cardsVars, applicationVars, verificationVars,
                          marketplaceVars>>
        \/ /\ running = "applications" /\ ApplicationNext
           /\ UNCHANGED <<listingVars, cardsVars, reviewVars, verificationVars, marketplaceVars>>
        \/ /\ running = "verification" /\ VerificationNext
           /\ UNCHANGED <<listingVars, cardsVars, reviewVars, applicationVars, marketplaceVars>>
        \/ /\ running = "marketplace" /\ MarketplaceNext
           /\ UNCHANGED <<listingVars, cardsVars, reviewVars, applicationVars, verificationVars>>
  /\ running' = running

Spec ==
  Init /\ [][Next]_<<running, wallets, plusVars, featuredVars, listingVars, cardsVars,
                     reviewVars, applicationVars, verificationVars, marketplaceVars>>

(* The types of every service's rows and handlers.                         *)
TypesOK ==
  /\ PlusTypeOK /\ FeaturedTypeOK /\ ListingTypeOK /\ SocialTypeOK /\ CardsTypeOK
  /\ ReviewTypeOK /\ ApplicationTypeOK /\ VerificationTypeOK /\ MarketplaceTypeOK

(* Handlers of a kind are interchangeable.                                 *)
Symmetry == Permutations(Clerks) \cup Permutations(Billers) \cup Permutations(Handlers)
=============================================================================
