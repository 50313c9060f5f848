--------------------------- MODULE Services_proofs ---------------------------
(***************************************************************************)
(* The services, each of whose handlers decides on a row it read a step    *)
(* before, for any number of handlers and rows.  The invariants say what a *)
(* handler's earlier read is still worth when it writes.  (Followers,      *)
(* posts and likes are in Social_proofs.)  At the end: all of them beside  *)
(* one another, as MCServices composes them.                               *)
(***************************************************************************)
EXTENDS MCServices, Social_proofs, Sums

-----------------------------------------------------------------------------
(* Verification.                                                           *)

(* An admin past the read has an outcome to write.                         *)
Chosen == \A m \in Admins : mpc[m] # "idle" => mchoice[m] \in Outcomes

AuditInv == VerificationTypeOK /\ Chosen /\ StatusIsAudited

LEMMA AuditInit == VerificationInit => AuditInv
<1> SUFFICES ASSUME VerificationInit PROVE AuditInv
  OBVIOUS
<1>1. MaxSubmissions \in Nat /\ MaxKycFaults \in Nat
  BY VerificationConstants
<1>2. <<>> \in Seq(Outcomes)
  OBVIOUS
<1>3. VerificationTypeOK
  <2>1. auditLog \in Seq(Outcomes) /\ kycTold \in Seq(Outcomes)
    BY <1>2 DEF VerificationInit
  <2>2. submissions \in 0..MaxSubmissions /\ kycFaults \in 0..MaxKycFaults
    BY <1>1 DEF VerificationInit
  <2>3. mchoice \in [Admins -> Outcomes \cup {"none"}]
    BY DEF VerificationInit
  <2> QED
    BY <2>1, <2>2, <2>3 DEF VerificationInit, VerificationTypeOK, Outcomes
<1>4. Chosen /\ StatusIsAudited
  BY DEF VerificationInit, Chosen, StatusIsAudited
<1> QED
  BY <1>3, <1>4 DEF AuditInv

(* The commit appends the outcome it writes to the log.                    *)
LEMMA AuditStep == AuditInv /\ [VerificationNext]_verificationVars => AuditInv'
<1> SUFFICES ASSUME AuditInv, [VerificationNext]_verificationVars PROVE AuditInv'
  OBVIOUS
<1>a. MaxSubmissions \in Nat /\ MaxKycFaults \in Nat
  BY VerificationConstants
<1> USE <1>a DEF AuditInv, VerificationTypeOK, Chosen, StatusIsAudited, AdminTo
<1>1. CASE KycFails
  <2>1. kycFaults' \in 0..MaxKycFaults
    BY <1>1 DEF KycFails
  <2> QED
    BY <1>1, <2>1 DEF KycFails
<1>2. ASSUME NEW o \in Applicants, KycInsert(o) PROVE AuditInv'
  BY <1>2 DEF KycInsert
<1>3. ASSUME NEW o \in Applicants, KycReset(o) PROVE AuditInv'
  BY <1>3 DEF KycReset
<1>4. ASSUME NEW m \in Admins, AdminCommit(m) PROVE AuditInv'
  <2>1. mchoice[m] \in Outcomes
    BY <1>4 DEF AdminCommit
  <2>2. /\ auditLog' = Append(auditLog, mchoice[m]) /\ auditLog' \in Seq(Outcomes)
        /\ auditLog' # <<>> /\ auditLog'[Len(auditLog')] = mchoice[m]
    <3>1. auditLog \in Seq(Outcomes) /\ auditLog' = Append(auditLog, mchoice[m])
      BY <1>4 DEF AdminCommit
    <3> QED
      BY ONLY <2>1, <3>1
  <2>3. /\ mpc' \in [Admins -> {"idle", "writing", "telling"}]
        /\ mchoice' \in [Admins -> Outcomes \cup {"none"}]
        /\ kycStatus' = mchoice[m] /\ verified' = (mchoice[m] = "approved")
        /\ asCreated' = FALSE /\ UNCHANGED <<submissions, kpc, kycTold, kycFaults>>
    BY <1>4, <2>1 DEF AdminCommit
  <2>4. \A n \in Admins : mpc'[n] # "idle" => mchoice'[n] \in Outcomes
    BY <1>4, <2>1 DEF AdminCommit
  <2>5. StatusIsAudited'
    BY <2>1, <2>2, <2>3 DEF Outcomes
  <2> QED
    BY <2>1, <2>2, <2>3, <2>4, <2>5
<1>5. ASSUME NEW m \in Admins, AdminTell(m) PROVE AuditInv'
  <2>1. mchoice[m] \in Outcomes
    BY <1>5 DEF AdminTell
  <2>2. kycTold' \in Seq(Outcomes)
    BY <1>5, <2>1 DEF AdminTell
  <2> QED
    BY <1>5, <2>2 DEF AdminTell
<1>6. ASSUME NEW m \in Admins, NEW outcome \in Outcomes, AdminRead(m, outcome) PROVE AuditInv'
  BY <1>6 DEF AdminRead
<1>7. CASE UNCHANGED verificationVars
  BY <1>7 DEF verificationVars
<1> QED
  BY <1>1, <1>2, <1>3, <1>4, <1>5, <1>6, <1>7 DEF VerificationNext

(* A profile's KYC status is the last outcome of the audit log, or         *)
(* pending, or still the one it was created with, and verified goes with   *)
(* it.                                                                     *)
THEOREM DecisionsAreAudited == VerificationSpec => []StatusIsAudited
<1>1. AuditInv => StatusIsAudited
  BY DEF AuditInv
<1> QED
  BY <1>1, AuditInit, AuditStep, PTL DEF VerificationSpec

-----------------------------------------------------------------------------
(* Applications.                                                           *)

(* Of decisions that do not overlap: the one under way has the application *)
(* to itself, which is still open when it writes and is left as it wrote.  *)
Unhurried ==
  ~clashed =>
    /\ \A d, e \in Deciders : dpc[d] # "idle" /\ dpc[e] # "idle" => d = e
    /\ \A d \in Deciders :
         /\ dpc[d] = "writing" => application \notin {"none", "rejected"}
         /\ dpc[d] = "telling" => application \in {dchoice[d], "gone"}

DeciderTypes ==
  /\ dpc \in [Deciders -> {"idle", "writing", "telling"}]
  /\ dchoice \in [Deciders -> Decidable \cup {"none"}]
  /\ \A d \in Deciders : dpc[d] # "idle" => dchoice[d] \in Decidable

StandingInv == DeciderTypes /\ Unhurried

LEMMA StandingInit == ApplicationInit => StandingInv
  BY DEF ApplicationInit, StandingInv, DeciderTypes, Unhurried

LEMMA StandingStep == StandingInv /\ [ApplicationNext]_applicationVars => StandingInv'
<1> SUFFICES ASSUME StandingInv, [ApplicationNext]_applicationVars PROVE StandingInv'
  OBVIOUS
<1> USE DEF StandingInv, DeciderTypes, DeciderTo, Decidable
<1>1. CASE EventCloses
  BY <1>1 DEF EventCloses, Unhurried
<1>2. CASE EventGoes
  BY <1>2 DEF EventGoes, Unhurried
<1>3. ASSUME NEW v \in Vendors, SubmitRead(v) PROVE StandingInv'
  BY <1>3 DEF SubmitRead, Unhurried
<1>4. ASSUME NEW v \in Vendors, SubmitInsert(v) PROVE StandingInv'
  BY <1>4 DEF SubmitInsert, Unhurried
<1>5. ASSUME NEW v \in Vendors, SubmitTell(v) PROVE StandingInv'
  BY <1>5 DEF SubmitTell, Unhurried
<1>6. ASSUME NEW d \in Deciders, NEW choice \in Decidable, DecideRead(d, choice)
      PROVE  StandingInv'
  <2>1. DeciderTypes'
    BY <1>6 DEF DecideRead
  <2>2. ~clashed' => ~clashed /\ \A e \in Deciders : dpc[e] = "idle"
    BY <1>6 DEF DecideRead, Deciding
  <2>3. application \notin {"none", "rejected"} /\ application' = application
    BY <1>6 DEF DecideRead, Statuses, Terminal
  <2>4. \A e \in Deciders : dpc'[e] # dpc[e] => e = d /\ dpc'[e] = "writing"
    BY <1>6 DEF DecideRead
  <2>5. Unhurried'
    BY <2>2, <2>3, <2>4 DEF Unhurried
  <2> QED
    BY <2>1, <2>5
<1>7. ASSUME NEW d \in Deciders, DecideWrite(d) PROVE StandingInv'
  <2>1. dchoice[d] \in Decidable
    BY <1>7 DEF DecideWrite
  <2>2. DeciderTypes'
    BY <1>7, <2>1 DEF DecideWrite
  <2>3. Unhurried'
    BY <1>7, <2>1 DEF DecideWrite, Unhurried
  <2> QED
    BY <2>2, <2>3
<1>8. ASSUME NEW d \in Deciders, DecideTell(d) PROVE StandingInv'
  BY <1>8 DEF DecideTell, Unhurried
<1>9. CASE UNCHANGED applicationVars
  BY <1>9 DEF applicationVars, Unhurried
<1> QED
  BY <1>1, <1>2, <1>3, <1>4, <1>5, <1>6, <1>7, <1>8, <1>9 DEF ApplicationNext

(* The decision a step writes, and the one it tells the applicant of.      *)
Stands ==
  /\ application = "rejected" /\ ~clashed => application' \in {"rejected", "gone"}
  /\ toldLast' # toldLast /\ ~clashed /\ application # "gone" => toldLast' = application

LEMMA StandingStands == StandingInv /\ [ApplicationNext]_applicationVars => [Stands]_applicationVars
<1> SUFFICES ASSUME StandingInv, ApplicationNext PROVE Stands
  BY DEF applicationVars
<1>1. ASSUME NEW v \in Vendors, SubmitRead(v) \/ SubmitInsert(v) \/ SubmitTell(v)
      PROVE  Stands
  BY <1>1 DEF SubmitRead, SubmitInsert, SubmitTell, Stands
<1>2. ASSUME NEW d \in Deciders, NEW choice \in Decidable, DecideRead(d, choice)
      PROVE  Stands
  BY <1>2 DEF DecideRead, Stands
<1>3. ASSUME NEW d \in Deciders, DecideWrite(d) PROVE Stands
  BY <1>3 DEF DecideWrite, StandingInv, Unhurried, Stands
<1>4. ASSUME NEW d \in Deciders, DecideTell(d) PROVE Stands
  BY <1>4 DEF DecideTell, StandingInv, Unhurried, Stands
<1>5. CASE EventCloses \/ EventGoes
  BY <1>5 DEF EventCloses, EventGoes, Stands
<1> QED
  BY <1>1, <1>2, <1>3, <1>4, <1>5 DEF ApplicationNext

(* A rejection is final, and a notice to the applicant says what stands,   *)
(* of decisions that do not overlap.                                       *)
THEOREM DecisionsStand == ApplicationSpec => DecisionStands
<1>1. StandingInv /\ [ApplicationNext]_applicationVars
        => [/\ application = "rejected" /\ ~clashed => application' \in {"rejected", "gone"}
            /\ toldLast' # toldLast /\ ~clashed /\ application # "gone" => toldLast' = application
           ]_applicationVars
  BY StandingStands DEF Stands
<1> QED
  BY <1>1, StandingInit, StandingStep, PTL DEF ApplicationSpec, DecisionStands

-----------------------------------------------------------------------------
(* Reviews.                                                                *)

(* What a handler is to count was inserted, and has not gone unless its    *)
(* event has.  If no two recounts have raced, one handler at most is in    *)
(* the UPDATE, its snapshot has its own review and none but of a removed   *)
(* event that is no more, and what the snapshot lacks is still to be       *)
(* counted.                                                                *)
Recounting ==
  /\ \A x \in reviews : x[2] \in standing
  /\ \A r \in Reviewers :
       rpc[r] \in {"rating", "writing"} => rreview[r] \in reviews \/ rreview[r][2] \notin standing
  /\ ~raced =>
       /\ \A q, r \in Reviewers : rpc[q] = "writing" /\ rpc[r] = "writing" => q = r
       /\ \A r \in Reviewers : rpc[r] = "writing" =>
            /\ rreview[r] \in reviews => rreview[r] \in rsnap[r]
            /\ \A x \in rsnap[r] \ reviews : x[2] \notin standing
            /\ reviews \ rsnap[r] \subseteq RatingDue \cup unrated

RatingInv == ReviewTypeOK /\ Recounting /\ RatingMatches

LEMMA RatingInit == ReviewInit => RatingInv
<1> SUFFICES ASSUME ReviewInit PROVE RatingInv
  OBVIOUS
<1>1. ReviewTypeOK
  BY ReviewConstants DEF ReviewInit, ReviewTypeOK
<1>2. Recounting /\ RatingMatches
  BY DEF ReviewInit, Recounting, RatingMatches
<1> QED
  BY <1>1, <1>2 DEF RatingInv

LEMMA ReviewTyping == ReviewTypeOK /\ [ReviewNext]_reviewVars => ReviewTypeOK'
<1> USE ReviewConstants DEF ReviewTypeOK, ReviewerTo
<1> SUFFICES ASSUME ReviewTypeOK, [ReviewNext]_reviewVars PROVE ReviewTypeOK'
  OBVIOUS
<1>1. ASSUME NEW v \in Gatherings, EventRemoved(v) PROVE ReviewTypeOK'
  BY <1>1 DEF EventRemoved, reviewerVars
<1>2. ASSUME NEW r \in Reviewers, NEW x \in AllReviews, ReviewRead(r, x) PROVE ReviewTypeOK'
  BY <1>2 DEF ReviewRead
<1>3. ASSUME NEW r \in Reviewers, ReviewInsert(r) PROVE ReviewTypeOK'
  <2>1. rreview[r] \in AllReviews
    BY <1>3 DEF ReviewInsert
  <2> QED
    BY <1>3, <2>1 DEF ReviewInsert
<1>4. ASSUME NEW r \in Reviewers, RateRead(r) PROVE ReviewTypeOK'
  BY <1>4 DEF RateRead
<1>5. ASSUME NEW r \in Reviewers, RateWrite(r) PROVE ReviewTypeOK'
  BY <1>5 DEF RateWrite
<1>6. ASSUME NEW r \in Reviewers, ReviewerDies(r) PROVE ReviewTypeOK'
  BY <1>6 DEF ReviewerDies
<1>7. CASE UNCHANGED reviewVars
  BY <1>7 DEF reviewVars, reviewerVars
<1> QED
  BY <1>1, <1>2, <1>3, <1>4, <1>5, <1>6, <1>7 DEF ReviewNext

LEMMA RatingStep == RatingInv /\ [ReviewNext]_reviewVars => RatingInv'
<1> SUFFICES ASSUME RatingInv, [ReviewNext]_reviewVars PROVE Recounting' /\ RatingMatches'
  BY ReviewTyping DEF RatingInv
<1> USE DEF RatingInv, ReviewTypeOK, ReviewerTo
<1>1. ASSUME NEW v \in Gatherings, EventRemoved(v) PROVE Recounting' /\ RatingMatches'
  <2>1. RatingDue' = RatingDue
    BY <1>1 DEF EventRemoved, reviewerVars, RatingDue
  <2> QED
    BY <1>1, <2>1 DEF EventRemoved, reviewerVars, Recounting, RatingMatches
<1>2. ASSUME NEW r \in Reviewers, NEW x \in AllReviews, ReviewRead(r, x)
      PROVE  Recounting' /\ RatingMatches'
  <2>1. RatingDue \subseteq RatingDue'
    BY <1>2 DEF ReviewRead, RatingDue
  <2> QED
    BY <1>2, <2>1 DEF ReviewRead, Recounting, RatingMatches
<1>3. ASSUME NEW r \in Reviewers, ReviewInsert(r) PROVE Recounting' /\ RatingMatches'
  <2>1. RatingDue \subseteq RatingDue'
    BY <1>3 DEF ReviewInsert, RatingDue
  <2>2. CASE rreview[r][2] \in standing /\ rreview[r] \notin reviews
    <3>1. reviews' = reviews \cup {rreview[r]} /\ rreview[r] \in RatingDue'
      BY <1>3, <2>2 DEF ReviewInsert, RatingDue
    <3> QED
      BY <1>3, <2>1, <2>2, <3>1 DEF ReviewInsert, Recounting, RatingMatches
  <2>3. CASE ~(rreview[r][2] \in standing /\ rreview[r] \notin reviews)
    BY <1>3, <2>1, <2>3 DEF ReviewInsert, Recounting, RatingMatches
  <2> QED
    BY <2>2, <2>3
<1>4. ASSUME NEW r \in Reviewers, RateRead(r) PROVE Recounting' /\ RatingMatches'
  <2>1. RatingDue' = RatingDue
    BY <1>4 DEF RateRead, RatingDue
  <2>2. ~raced' => ~raced /\ \A q \in Reviewers : rpc[q] # "writing"
    BY <1>4 DEF RateRead
  <2> QED
    BY <1>4, <2>1, <2>2 DEF RateRead, Recounting, RatingMatches
<1>5. ASSUME NEW r \in Reviewers, RateWrite(r) PROVE Recounting' /\ RatingMatches'
  <2>1. \A a \in RatingDue : a = rreview[r] \/ a \in RatingDue'
    BY <1>5 DEF RateWrite, RatingDue
  <2>2. Recounting'
    BY <1>5 DEF RateWrite, Recounting
  <2>3. RatingMatches'
    BY <1>5, <2>1 DEF RateWrite, Recounting, RatingMatches
  <2> QED
    BY <2>2, <2>3
<1>6. ASSUME NEW r \in Reviewers, ReviewerDies(r) PROVE Recounting' /\ RatingMatches'
  <2>1. \A a \in RatingDue \cup unrated : a \in RatingDue' \cup unrated'
    <3> SUFFICES ASSUME NEW q \in Reviewers, rpc[q] \in {"rating", "writing"}
                 PROVE  rreview[q] \in RatingDue' \cup unrated'
      BY <1>6 DEF ReviewerDies, RatingDue
    <3> QED
      BY <1>6 DEF ReviewerDies, RatingDue
  <2> QED
    BY <1>6, <2>1 DEF ReviewerDies, Recounting, RatingMatches
<1>7. CASE UNCHANGED reviewVars
  BY <1>7 DEF reviewVars, reviewerVars, Recounting, RatingMatches, RatingDue
<1> QED
  BY <1>1, <1>2, <1>3, <1>4, <1>5, <1>6, <1>7 DEF ReviewNext

(* The organiser's stored rating lacks only reviews that are still to be   *)
(* counted or whose handler died, and has too many only by events removed  *)
(* since, for any number of events and reviewers.                          *)
THEOREM RatingsMatch == ReviewSpec => []RatingMatches
<1>1. RatingInv => RatingMatches
  BY DEF RatingInv
<1> QED
  BY <1>1, RatingInit, RatingStep, PTL DEF ReviewSpec

-----------------------------------------------------------------------------
(* Marketplace.                                                            *)

(* What a buyer and the owner's handlers know of the enquiry they hold.    *)
Holding ==
  /\ \A b \in Buyers : epc[b] = "inserting" =>
       /\ benq[b] \in Enquiries
       /\ ProductExists => enquiry[benq[b]] = "none"
       /\ \A c \in Buyers : benq[c] = benq[b] => c = b
  /\ \A b \in Buyers : epc[b] = "idle" => benq[b] = NoEnquiry
  /\ \A s \in Sellers :
       IF vpc[s] = "idle" THEN venq[s] = NoEnquiry
       ELSE /\ venq[s] \in Enquiries /\ vread[s] # "none"
            /\ ProductExists => enquiry[venq[s]] # "none"
            /\ vread[s] = "replied" /\ enquiry[venq[s]] # "none" => venq[s] \in replied
            /\ venq[s] \in replied \ beside => vread[s] = "replied"
            /\ \A r \in Sellers : venq[r] = venq[s] => r = s \/ venq[s] \in beside

Answered ==
  /\ \A e \in replied : enquiry[e] # "none"
  /\ product = "none" => \A s \in Sellers : vpc[s] = "idle"

ReplyInv == MarketplaceTypeOK /\ Holding /\ Answered /\ ReplyShown

LEMMA ReplyInit == MarketplaceInit => ReplyInv
<1> SUFFICES ASSUME MarketplaceInit PROVE ReplyInv
  OBVIOUS
<1> USE MarketplaceConstants
<1>1. MarketplaceTypeOK
  BY DEF MarketplaceInit, MarketplaceTypeOK
<1>2. Holding /\ Answered /\ ReplyShown
  BY DEF MarketplaceInit, Holding, Answered, ReplyShown
<1> QED
  BY <1>1, <1>2 DEF ReplyInv

LEMMA ReplyStep == ReplyInv /\ [MarketplaceNext]_marketplaceVars => ReplyInv'
<1> SUFFICES ASSUME ReplyInv, [MarketplaceNext]_marketplaceVars PROVE ReplyInv'
  OBVIOUS
<1> USE MarketplaceConstants
    DEF ReplyInv, MarketplaceTypeOK, SellerTo, SellerEnds, ProductExists, sellerVars
<1>1. CASE ProductCreate
  BY <1>1 DEF ProductCreate, Holding, Answered, ReplyShown
<1>2. CASE ProductUpdate
  <2>1. edits' \in 0..MaxEdits
    BY <1>2 DEF ProductUpdate
  <2> QED
    BY <1>2, <2>1 DEF ProductUpdate, Holding, Answered, ReplyShown
<1>3. CASE ProductRemove
  BY <1>3 DEF ProductRemove, Holding, Answered, ReplyShown
<1>4. ASSUME NEW b \in Buyers, NEW e \in Enquiries, EnquireRead(b, e) PROVE ReplyInv'
  <2>1. MarketplaceTypeOK'
    BY <1>4 DEF EnquireRead
  <2>2. Holding'
    BY <1>4 DEF EnquireRead, Holding
  <2> QED
    BY <1>4, <2>1, <2>2 DEF EnquireRead, Answered, ReplyShown
<1>5. ASSUME NEW b \in Buyers, EnquireInsert(b) PROVE ReplyInv'
  <2>1. /\ benq[b] \in Enquiries /\ (ProductExists => enquiry[benq[b]] = "none")
        /\ \A c \in Buyers : benq[c] = benq[b] => c = b
    BY <1>5 DEF EnquireInsert, Holding
  <2>2. MarketplaceTypeOK'
    BY <1>5, <2>1 DEF EnquireInsert
  <2>3. Holding'
    BY <1>5, <2>1 DEF EnquireInsert, Holding
  <2>4. Answered' /\ ReplyShown'
    BY <1>5, <2>1 DEF EnquireInsert, Answered, ReplyShown
  <2> QED
    BY <2>2, <2>3, <2>4
<1>6. ASSUME NEW s \in Sellers, NEW e \in Enquiries, NEW task \in {"replying", "marking"},
             SellerRead(s, task, e)
      PROVE  ReplyInv'
  <2>1. MarketplaceTypeOK'
    BY <1>6 DEF SellerRead
  <2>2. Answered' /\ ReplyShown'
    BY <1>6 DEF SellerRead, Answered, ReplyShown
  <2>3. vpc[s] = "idle" /\ venq[s] = NoEnquiry
    BY <1>6 DEF SellerRead, Holding
  <2>4. /\ vpc' = [vpc EXCEPT ![s] = task] /\ venq' = [venq EXCEPT ![s] = e]
        /\ vread' = [vread EXCEPT ![s] = enquiry[e]]
        /\ UNCHANGED <<product, enquiry, replied, epc, benq>>
        /\ beside' = IF \E r \in Sellers : venq[r] = e THEN beside \cup {e} ELSE beside
    BY <1>6 DEF SellerRead
  <2>5. enquiry[e] # "none" /\ (enquiry[e] = "replied" => e \in replied)
          /\ (e \in replied \ beside => enquiry[e] = "replied")
    BY <1>6 DEF SellerRead, ReplyShown
  <2>6. Holding'
    BY <2>3, <2>4, <2>5 DEF Holding
  <2> QED
    BY <2>1, <2>2, <2>6
<1>7. ASSUME NEW s \in Sellers, ReplyWrite(s) PROVE ReplyInv'
  <2>1. venq[s] \in Enquiries
    BY <1>7 DEF ReplyWrite, Holding
  <2>2. MarketplaceTypeOK'
    BY <1>7, <2>1 DEF ReplyWrite
  <2>3. Holding'
    BY <1>7, <2>1 DEF ReplyWrite, Holding
  <2>4. Answered' /\ ReplyShown'
    BY <1>7, <2>1 DEF ReplyWrite, Answered, ReplyShown
  <2> QED
    BY <2>2, <2>3, <2>4
<1>8. ASSUME NEW s \in Sellers, MarkReadWrite(s) PROVE ReplyInv'
  <2> DEFINE e == venq[s]
             writes == IF vread[s] = "new" THEN "read" ELSE vread[s]
  <2>1. /\ e \in Enquiries /\ vread[s] # "none"
        /\ vread[s] = "replied" /\ enquiry[e] # "none" => e \in replied
        /\ e \in replied \ beside => vread[s] = "replied"
    BY <1>8 DEF MarkReadWrite, Holding
  <2>2. /\ enquiry' = IF enquiry[e] = "none" THEN enquiry ELSE [enquiry EXCEPT ![e] = writes]
        /\ vpc' = [vpc EXCEPT ![s] = "idle"] /\ venq' = [venq EXCEPT ![s] = NoEnquiry]
        /\ vread' = [vread EXCEPT ![s] = "none"]
        /\ UNCHANGED <<product, replied, epc, benq, edits, beside>>
    BY <1>8 DEF MarkReadWrite
  <2>3. writes \in {"read", "replied"} /\ (writes = "replied" <=> vread[s] = "replied")
    BY <2>1
  <2> HIDE DEF writes
  <2>4. MarketplaceTypeOK'
    BY <2>1, <2>2, <2>3
  <2>5. \A x \in Enquiries : enquiry'[x] = "none" <=> enquiry[x] = "none"
    BY <2>1, <2>2, <2>3
  <2>6. Holding'
    BY <2>2, <2>5 DEF Holding
  <2>7. Answered'
    BY <1>8, <2>2, <2>5 DEF Answered
  <2>8. ReplyShown'
    BY <2>1, <2>2, <2>3, <2>5 DEF ReplyShown
  <2> QED
    BY <2>4, <2>6, <2>7, <2>8
<1>9. CASE UNCHANGED marketplaceVars
  BY <1>9 DEF marketplaceVars, Holding, Answered, ReplyShown
<1> QED
  BY <1>1, <1>2, <1>3, <1>4, <1>5, <1>6, <1>7, <1>8, <1>9 DEF MarketplaceNext

(* An enquiry shows as replied exactly when it has a reply, but for the    *)
(* owner's own overlapping devices, and goes with its product.             *)
THEOREM RepliesAreShown == MarketplaceSpec => []ReplyShown
<1>1. ReplyInv => ReplyShown
  BY DEF ReplyInv
<1> QED
  BY <1>1, ReplyInit, ReplyStep, PTL DEF MarketplaceSpec

-----------------------------------------------------------------------------
(* Event listings.                                                         *)

Dropping(k) == \E o \in Organisers : k \in toDrop[o]

(* A key that no handler is about to pass holds, and will be given, the    *)
(* event's row as it is.                                                   *)
Fresh ==
  \A k \in Keys \ tainted :
    Dropping(k) \/ (entry[k].row \in {Empty.row, Shown.row} /\ ~StaleLoad(k))

Contents == [row : Int, booked : Int, others : Int]

DroppersTyped ==
  /\ opc \in [Organisers -> {"idle", "removing", "dropping"}]
  /\ toDrop \in [Organisers -> SUBSET Keys]
  /\ \A o \in Organisers : opc[o] # "dropping" => toDrop[o] = {}
  /\ entry \in [Keys -> Contents] /\ load \in [Processes -> [Keys -> Contents]]
  /\ version \in Nat /\ booked \in Int /\ others \in Int /\ tainted \subseteq Keys

FreshInv == DroppersTyped /\ Fresh /\ BookedEventStays

(* What entries and loads hold when they hold nothing.                     *)
LEMMA NothingTyped ==
  /\ {Absent, Empty, NoLoad, Begun} \subseteq Contents
  /\ Absent.row = 0 /\ Empty.row = -1 /\ NoLoad.row = -2 /\ Begun.row = -3
  BY DEF Absent, Empty, NoLoad, Begun, Nothing, Contents

LEMMA ShownTyped == DroppersTyped => Shown \in Contents /\ Shown.row >= 0
<1> SUFFICES ASSUME DroppersTyped PROVE Shown \in Contents /\ Shown.row >= 0
  OBVIOUS
<1>1. CASE status = "live"
  BY <1>1 DEF DroppersTyped, Shown, Contents
<1>2. CASE status # "live"
  BY <1>2, NothingTyped DEF Shown
<1> QED
  BY <1>1, <1>2

LEMMA FreshInit == ListingInit => FreshInv
<1> SUFFICES ASSUME ListingInit PROVE FreshInv
  OBVIOUS
<1>1. DroppersTyped /\ BookedEventStays
  BY NothingTyped DEF ListingInit, DroppersTyped, BookedEventStays
<1>2. \A p \in Processes, k \in Keys : ~HasRead(p, k)
  BY NothingTyped DEF ListingInit, HasRead
<1>3. Fresh
  BY <1>2 DEF ListingInit, Fresh, StaleLoad
<1> QED
  BY <1>1, <1>3 DEF FreshInv

(* A handler that commits a change drops every key, or changed nothing     *)
(* that is shown.                                                          *)
LEMMA CommitKeeps ==
  ASSUME FreshInv, NEW o \in Organisers, NEW from \in {"idle", "removing"},
         NEW keys \in SUBSET Keys, Commit(o, from, keys),
         version' \in Nat, UNCHANGED <<booked, others, entry, load>>,
         tainted' \in {tainted, Keys},
         keys = Keys \/ tainted' = Keys \/ Shown' = Shown
  PROVE  DroppersTyped' /\ Fresh'
<1> USE DEF FreshInv, DroppersTyped
<1>1. /\ toDrop[o] = {} /\ toDrop' = [toDrop EXCEPT ![o] = keys]
      /\ opc' = [opc EXCEPT ![o] = IF keys = {} THEN "idle" ELSE "dropping"]
  BY DEF Commit
<1>2. DroppersTyped'
  BY <1>1
<1>3. \A k \in Keys : Dropping(k) => Dropping(k)'
  BY <1>1 DEF Dropping
<1>4. Fresh'
  <2> SUFFICES ASSUME NEW k \in Keys, k \notin tainted'
               PROVE  Dropping(k)' \/ (/\ entry[k].row \in {Empty.row, Shown'.row}
                                       /\ ~StaleLoad(k)')
    BY DEF Fresh
  <2>1. CASE keys = Keys
    BY <1>1, <2>1 DEF Dropping
  <2>2. CASE Shown' = Shown
    BY <1>3, <2>2 DEF Fresh, StaleLoad, HasRead
  <2> QED
    BY <2>1, <2>2
<1> QED
  BY <1>2, <1>4

LEMMA FreshStep == FreshInv /\ [ListingNext]_listingVars => FreshInv'
<1> SUFFICES ASSUME FreshInv, [ListingNext]_listingVars PROVE FreshInv'
  OBVIOUS
<1> USE DEF FreshInv
<1>1. ASSUME Shown.row = Shown'.row, status' # "gone",
             UNCHANGED <<version, cacheVars, opc, toDrop>>, booked' \in Int, others' \in Int
      PROVE  FreshInv'
  <2>1. DroppersTyped'
    BY <1>1 DEF DroppersTyped, cacheVars
  <2>2. Fresh'
    BY <1>1 DEF Fresh, StaleLoad, HasRead, Dropping, cacheVars
  <2> QED
    BY <1>1, <2>1, <2>2 DEF BookedEventStays
<1>2. CASE Create \/ BookingInserted \/ BookingEnded \/ OthersChange
  <2>1. /\ UNCHANGED <<version, cacheVars, opc, toDrop>>
        /\ status' = status \/ (status = "none" /\ status' = "draft")
        /\ booked' \in {booked, booked + 1, booked - 1} /\ others' \in {others, others + 1}
    BY <1>2 DEF Create, BookingInserted, BookingEnded, OthersChange, bookingVars
  <2>2. booked \in Int /\ others \in Int
    BY DEF DroppersTyped
  <2>3. Shown.row = Shown'.row
    BY <2>1 DEF Shown
  <2>4. CASE status' # "gone"
    BY <1>1, <2>1, <2>2, <2>3, <2>4
  <2>5. CASE BookingEnded /\ status' = "gone"
    <3>1. UNCHANGED <<status, bookedRows>>
      BY <2>5 DEF BookingEnded
    <3>2. DroppersTyped' /\ Fresh'
      BY <2>1, <2>2, <2>3 DEF DroppersTyped, Fresh, StaleLoad, HasRead, Dropping, cacheVars
    <3> QED
      BY <3>1, <3>2 DEF BookedEventStays
  <2>6. BookingEnded \/ status' # "gone"
    BY <1>2 DEF Create, BookingInserted, OthersChange, Exists
  <2> QED
    BY <2>4, <2>5, <2>6
<1>3. ASSUME NEW o \in Organisers, Update(o) PROVE FreshInv'
  <2> DEFINE keys == IF status = "live" THEN Keys ELSE {}
  <2>1. /\ Commit(o, "idle", keys) /\ UNCHANGED <<booked, others, entry, load, tainted>>
        /\ version' \in Nat
    BY <1>3 DEF Update, bookingVars, cacheVars, DroppersTyped
  <2>2. keys = Keys \/ Shown' = Shown
    BY <1>3 DEF Update, Shown
  <2>3. DroppersTyped' /\ Fresh'
    BY <2>1, <2>2, CommitKeeps
  <2> QED
    BY <1>3, <2>3 DEF Update, bookingVars, BookedEventStays
<1>4. ASSUME NEW o \in Organisers, Submit(o) PROVE FreshInv'
  <2> DEFINE keys == IF autoApprove THEN Keys ELSE {}
  <2>1. /\ Commit(o, "idle", keys) /\ UNCHANGED <<booked, others, entry, load, version>>
        /\ tainted' \in {tainted, Keys}
    BY <1>4 DEF Submit, bookingVars
  <2>2. keys = Keys \/ tainted' = Keys \/ Shown' = Shown
    BY <1>4 DEF Submit, Shown
  <2>3. DroppersTyped' /\ Fresh'
    BY <2>1, <2>2, CommitKeeps DEF DroppersTyped
  <2> QED
    BY <1>4, <2>3 DEF Submit, bookingVars, BookedEventStays, Exists
<1>5. ASSUME NEW o \in Organisers, RemoveRead(o) PROVE FreshInv'
  <2>1. Shown' = Shown
    BY <1>5 DEF RemoveRead, eventVars, bookingVars, Shown
  <2> QED
    BY <1>5, <2>1 DEF RemoveRead, eventVars, bookingVars, cacheVars, DroppersTyped, Fresh,
                      StaleLoad, HasRead, Dropping, BookedEventStays
<1>6. ASSUME NEW o \in Organisers, RemoveCommit(o) PROVE FreshInv'
  <2> DEFINE keys == IF Exists /\ bookedRows = 0 THEN Keys ELSE {}
  <2>1. /\ Commit(o, "removing", keys)
        /\ UNCHANGED <<booked, others, entry, load, tainted, version>>
    BY <1>6 DEF RemoveCommit, bookingVars, cacheVars
  <2>2. keys = Keys \/ Shown' = Shown
    BY <1>6 DEF RemoveCommit, bookingVars, Shown
  <2>3. DroppersTyped' /\ Fresh'
    BY <2>1, <2>2, CommitKeeps DEF DroppersTyped
  <2> QED
    BY <1>6, <2>3 DEF RemoveCommit, bookingVars, BookedEventStays
<1>7. ASSUME NEW o \in Organisers, DropFails(o) PROVE FreshInv'
  <2>1. /\ Shown' = Shown /\ tainted' = tainted \cup toDrop[o]
        /\ toDrop' = [toDrop EXCEPT ![o] = {}] /\ UNCHANGED <<entry, load>>
    BY <1>7 DEF DropFails, eventVars, bookingVars, Shown
  <2>2. \A k \in Keys \ tainted' : Dropping(k) => Dropping(k)'
    BY <2>1 DEF Dropping, DroppersTyped
  <2> QED
    BY <1>7, <2>1, <2>2 DEF DropFails, eventVars, bookingVars, DroppersTyped, Fresh,
                            StaleLoad, HasRead, BookedEventStays
<1>8. ASSUME NEW o \in Organisers, NEW k \in Keys, DropKey(o, k) PROVE FreshInv'
  <2>1. /\ Shown' = Shown /\ toDrop' = [toDrop EXCEPT ![o] = @ \ {k}]
        /\ entry' = [entry EXCEPT ![k] = Empty] /\ UNCHANGED load
        /\ tainted' = IF StaleLoad(k) THEN tainted \cup {k} ELSE tainted \ {k}
    BY <1>8 DEF DropKey, eventVars, bookingVars, Shown
  <2>2. \A l \in Keys : l # k => (Dropping(l) => Dropping(l)')
    BY <2>1 DEF Dropping, DroppersTyped
  <2>3. \A l \in Keys : StaleLoad(l)' = StaleLoad(l)
    BY <2>1 DEF StaleLoad, HasRead
  <2>4. Fresh'
    BY <2>1, <2>2, <2>3 DEF Fresh, DroppersTyped
  <2>5. DroppersTyped'
    BY <1>8, <2>1, NothingTyped DEF DropKey, eventVars, bookingVars, DroppersTyped
  <2> QED
    BY <1>8, <2>4, <2>5 DEF DropKey, eventVars, bookingVars, BookedEventStays
<1>9. ASSUME NEW p \in Processes, NEW k \in Keys, LoadBegin(p, k) \/ LoadRead(p, k)
      PROVE  FreshInv'
  <2>1. /\ Shown' = Shown
        /\ UNCHANGED <<entry, toDrop, opc, tainted, version, booked, others, status, bookedRows>>
    BY <1>9 DEF LoadBegin, LoadRead, eventVars, bookingVars, Shown
  <2>2. PICK x \in {Begun, Shown} : load' = [load EXCEPT ![p][k] = x]
    BY <1>9 DEF LoadBegin, LoadRead
  <2>3. x \in Contents /\ (x.row < 0 \/ x.row = Shown.row)
    BY NothingTyped, ShownTyped
  <2>4. \A q \in Processes, l \in Keys : load'[q][l] \in {load[q][l], x}
    BY <2>2 DEF DroppersTyped
  <2>5. \A l \in Keys : StaleLoad(l)' => StaleLoad(l)
    BY <2>1, <2>3, <2>4 DEF StaleLoad, HasRead, Contents
  <2>6. load' \in [Processes -> [Keys -> Contents]]
    BY <2>2, <2>3 DEF DroppersTyped
  <2>7. DroppersTyped'
    BY <2>1, <2>6 DEF DroppersTyped
  <2> QED
    BY <2>1, <2>5, <2>7 DEF Fresh, Dropping, BookedEventStays
<1>10. ASSUME NEW p \in Processes, NEW k \in Keys, LoadStore(p, k) PROVE FreshInv'
  <2>1. /\ Shown' = Shown
        /\ UNCHANGED <<toDrop, opc, tainted, version, booked, others, status, bookedRows>>
        /\ load' = [load EXCEPT ![p][k] = NoLoad] /\ HasRead(p, k)
        /\ entry' = [entry EXCEPT ![k] = load[p][k]] \/ entry' = entry
    BY <1>10 DEF LoadStore, eventVars, bookingVars, Shown
  <2>2. \A l \in Keys : StaleLoad(l)' => StaleLoad(l)
    <3>1. \A q \in Processes, l \in Keys : load'[q][l] \in {load[q][l], NoLoad}
      BY <2>1 DEF DroppersTyped
    <3> QED
      BY <2>1, <3>1, NothingTyped DEF StaleLoad, HasRead
  <2>3. StaleLoad(k) \/ load[p][k].row = Shown.row
    BY <2>1 DEF StaleLoad
  <2>4. DroppersTyped'
    BY <2>1, NothingTyped DEF DroppersTyped
  <2>5. Fresh'
    BY <2>1, <2>2, <2>3 DEF Fresh, Dropping, DroppersTyped
  <2> QED
    BY <2>1, <2>4, <2>5 DEF BookedEventStays
<1>11. ASSUME NEW k \in Keys, Expire(k) PROVE FreshInv'
  <2>1. /\ Shown' = Shown
        /\ UNCHANGED <<toDrop, opc, load, version, booked, others, status, bookedRows>>
        /\ entry' = [entry EXCEPT ![k] = Empty]
        /\ tainted' = IF StaleLoad(k) THEN tainted ELSE tainted \ {k}
    BY <1>11 DEF Expire, eventVars, bookingVars, Shown
  <2>2. DroppersTyped'
    BY <2>1, NothingTyped DEF DroppersTyped
  <2>3. Fresh'
    BY <2>1 DEF Fresh, Dropping, StaleLoad, HasRead, DroppersTyped
  <2> QED
    BY <2>1, <2>2, <2>3 DEF BookedEventStays
<1>12. CASE UNCHANGED listingVars
  BY <1>12 DEF listingVars, eventVars, bookingVars, cacheVars, DroppersTyped, Fresh, StaleLoad,
               HasRead, Dropping, Shown, BookedEventStays
<1> QED
  BY <1>2, <1>3, <1>4, <1>5, <1>6, <1>7, <1>8, <1>9, <1>10, <1>11, <1>12
     DEF ListingNext

(* The cache serves the event's row as it is, once the handlers that wrote *)
(* it are done with the key, but for the known kinds of older row: for any *)
(* number of keys, processes and handlers, and whatever bookings and other *)
(* services do to the rest of what it serves.                              *)
THEOREM ListsShowEdits == ListingSpec => []EditsAreListed
<1>1. FreshInv => EditsAreListed
  BY DEF FreshInv, Fresh, Dropping, EditsAreListed
<1> QED
  BY <1>1, FreshInit, FreshStep, PTL DEF ListingSpec

(* No event with a booking is ever removed.                                *)
THEOREM BookedEventsStay == ListingSpec => []BookedEventStays
<1>1. FreshInv => BookedEventStays
  BY DEF FreshInv
<1> QED
  BY <1>1, FreshInit, FreshStep, PTL DEF ListingSpec

-----------------------------------------------------------------------------
(* Subscriptions.                                                          *)

PlanRows == [user : Users, status : Open \cup {"cancelled"}, due : Nat, started : Nat]

(* A clerk works for a user, or on a row; the rows on the job's lists are  *)
(* there, and the row a run has charged is still on its list.              *)
AtWork ==
  /\ \A c \in Clerks :
       /\ cuser[c] \in Users <=> cpc[c] \in {"subscribing", "inserting"}
       /\ cpc[c] = "cancelling" => crow[c] \in Subs /\ sub[crow[c]] # NoRow
  /\ \A w \in Billers :
       /\ \A s \in batch[w] : sub[s] # NoRow
       /\ bpc[w] \in Subs => bpc[w] \in batch[w]

PlusBase == PlusTypeOK /\ AtWork

LEMMA PlusBaseInit == PlusInit => PlusBase
<1> SUFFICES ASSUME PlusInit PROVE PlusBase
  OBVIOUS
<1>1. 0 \in 0..MaxMonths /\ NoSub \notin Users /\ "idle" \notin Subs
  BY SubscriptionConstants
<1> QED
  BY <1>1 DEF PlusInit, PlusBase, PlusTypeOK, AtWork

(* What a row is, and what it is once one of its fields is written.        *)
LEMMA RowTyped ==
  ASSUME NEW r \in {NoRow} \cup PlanRows
  PROVE  /\ r # NoRow <=> r \in PlanRows
         /\ r # NoRow <=> r.user \in Users
         /\ r # NoRow <=> r.status # "none"
         /\ r.due \in Nat /\ r.started \in Nat
<1>1. NoSub \notin Users /\ "none" \notin Open \cup {"cancelled"}
  BY SubscriptionConstants DEF Open
<1> QED
  BY <1>1 DEF PlanRows, NoRow

LEMMA RowMarked ==
  ASSUME NEW r \in PlanRows, NEW t \in Open \cup {"cancelled"},
         NEW m, m = [r EXCEPT !.status = t]
  PROVE  /\ m \in PlanRows
         /\ m.user = r.user /\ m.due = r.due /\ m.started = r.started /\ m.status = t
         /\ r.status = t => m = r
BY DEF PlanRows

LEMMA RowAdvanced ==
  ASSUME NEW r \in PlanRows, NEW n \in Nat, NEW m, m = [r EXCEPT !.due = n]
  PROVE  /\ m \in PlanRows
         /\ m.user = r.user /\ m.due = n /\ m.started = r.started /\ m.status = r.status
BY DEF PlanRows

(* What a step does to the rows: none is lost or changes its user or its   *)
(* start.                                                                  *)
RowsKept ==
  /\ sub' \in [Subs -> {NoRow} \cup PlanRows]
  /\ \A s \in Subs : sub[s] # NoRow =>
       sub'[s] # NoRow /\ sub'[s].user = sub[s].user /\ sub'[s].started = sub[s].started

(* The writes of the actions, row by row.                                  *)
LEMMA CancelRows ==
  ASSUME PlusBase, NEW c \in Clerks, CancelWrite(c)
  PROVE  /\ RowsKept /\ crow[c] \in Subs
         /\ \A s \in Subs : s # crow[c] => sub'[s] = sub[s]
         /\ sub'[crow[c]].status = "cancelled" /\ sub[crow[c]] # NoRow
         /\ sub'[crow[c]].due = sub[crow[c]].due
         /\ sub[crow[c]].status = "cancelled" => sub'[crow[c]] = sub[crow[c]]
<1> DEFINE s == crow[c]
<1>1. s \in Subs /\ sub[s] # NoRow /\ sub \in [Subs -> {NoRow} \cup PlanRows]
  BY DEF PlusBase, PlusTypeOK, PlanRows, AtWork, CancelWrite
<1>2. sub[s] \in PlanRows
  BY <1>1, RowTyped
<1>3. \A t \in Subs : t # s => sub'[t] = sub[t]
  BY <1>1 DEF CancelWrite
<1>4. sub'[s] = [sub[s] EXCEPT !.status = "cancelled"]
  BY <1>1 DEF CancelWrite
<1>5. sub' = [t \in Subs |-> sub'[t]]
  BY <1>1 DEF CancelWrite
<1> HIDE DEF s
<1>6. /\ sub'[s] \in PlanRows /\ sub'[s].user = sub[s].user /\ sub'[s].due = sub[s].due
      /\ sub'[s].started = sub[s].started /\ sub'[s].status = "cancelled"
      /\ sub[s].status = "cancelled" => sub'[s] = sub[s]
  BY <1>2, <1>4, RowMarked
<1>7. sub'[s] # NoRow
  BY <1>6, RowTyped
<1>8. RowsKept
  BY <1>1, <1>3, <1>5, <1>6, <1>7 DEF RowsKept
<1> QED
  BY <1>1, <1>3, <1>6, <1>8 DEF s

LEMMA PastDueRows ==
  ASSUME PlusBase, NEW w \in Billers, NEW s \in Subs, BillPastDue(w, s)
  PROVE  /\ RowsKept
         /\ \A t \in Subs : t # s => sub'[t] = sub[t]
         /\ sub'[s].status = "past_due" /\ sub[s] # NoRow
         /\ sub'[s].due = sub[s].due
<1>1. sub[s] # NoRow /\ sub \in [Subs -> {NoRow} \cup PlanRows]
  BY DEF PlusBase, PlusTypeOK, PlanRows, AtWork, BillPastDue
<1>2. sub[s] \in PlanRows
  BY <1>1, RowTyped
<1>3. /\ \A t \in Subs : t # s => sub'[t] = sub[t]
      /\ sub'[s] = [sub[s] EXCEPT !.status = "past_due"]
      /\ sub' = [t \in Subs |-> sub'[t]]
  BY <1>1 DEF BillPastDue
<1>4. "past_due" \in Open \cup {"cancelled"}
  BY DEF Open
<1>6. /\ sub'[s] \in PlanRows /\ sub'[s].user = sub[s].user /\ sub'[s].due = sub[s].due
      /\ sub'[s].started = sub[s].started /\ sub'[s].status = "past_due"
  BY <1>2, <1>3, <1>4, RowMarked
<1>7. sub'[s] # NoRow
  BY <1>6, RowTyped
<1>8. RowsKept
  BY <1>1, <1>3, <1>6, <1>7 DEF RowsKept
<1> QED
  BY <1>1, <1>3, <1>6, <1>8

LEMMA AdvanceRows ==
  ASSUME PlusBase, NEW w \in Billers, BillAdvance(w)
  PROVE  /\ RowsKept /\ bpc[w] \in batch[w] /\ bpc[w] \in Subs
         /\ \A t \in Subs : t # bpc[w] => sub'[t] = sub[t]
         /\ sub'[bpc[w]].status = sub[bpc[w]].status /\ sub[bpc[w]] # NoRow
         /\ sub'[bpc[w]].due = seen[w][bpc[w]] + 1
<1> DEFINE s == bpc[w]
<1>1. /\ s \in Subs /\ s \in batch[w] /\ sub[s] # NoRow
      /\ sub \in [Subs -> {NoRow} \cup PlanRows] /\ seen[w][s] + 1 \in Nat
  BY DEF PlusBase, PlusTypeOK, PlanRows, AtWork, BillAdvance
<1>2. sub[s] \in PlanRows
  BY <1>1, RowTyped
<1>3. /\ \A t \in Subs : t # s => sub'[t] = sub[t]
      /\ sub'[s] = [sub[s] EXCEPT !.due = seen[w][s] + 1]
      /\ sub' = [t \in Subs |-> sub'[t]]
  BY <1>1 DEF BillAdvance
<1> HIDE DEF s
<1>6. /\ sub'[s] \in PlanRows /\ sub'[s].user = sub[s].user /\ sub'[s].due = seen[w][s] + 1
      /\ sub'[s].started = sub[s].started /\ sub'[s].status = sub[s].status
  BY <1>1, <1>2, <1>3, RowAdvanced
<1>7. sub'[s] # NoRow
  BY <1>6, RowTyped
<1>8. RowsKept
  BY <1>1, <1>3, <1>6, <1>7 DEF RowsKept
<1> QED
  BY <1>1, <1>3, <1>6, <1>8 DEF s

LEMMA InsertRows ==
  ASSUME PlusBase, NEW c \in Clerks, SubscribeInsert(c)
  PROVE  \E s \in Subs :
           /\ RowsKept /\ sub[s] = NoRow
           /\ \A t \in Subs : t # s => sub'[t] = sub[t]
           /\ sub'[s] = [user |-> cuser[c], status |-> "active",
                         due |-> month + 1, started |-> month]
           /\ cuser[c] \in Users /\ month \in Nat
<1>0. cuser[c] \in Users /\ month \in Nat /\ sub \in [Subs -> {NoRow} \cup PlanRows]
  BY DEF PlusBase, PlusTypeOK, PlanRows, AtWork, SubscribeInsert
<1> DEFINE row == [user |-> cuser[c], status |-> "active", due |-> month + 1, started |-> month]
<1>1. PICK s \in Subs : sub[s] = NoRow /\ sub' = [sub EXCEPT ![s] = row]
  BY DEF SubscribeInsert
<1>2. row \in PlanRows
  BY <1>0 DEF PlanRows, Open
<1> HIDE DEF row
<1>3. sub'[s] = row /\ \A t \in Subs : t # s => sub'[t] = sub[t]
  BY <1>0, <1>1
<1>4. RowsKept
  BY <1>0, <1>1, <1>2, <1>3 DEF RowsKept
<1> QED
  BY <1>0, <1>1, <1>3, <1>4 DEF row

-----------------------------------------------------------------------------
LEMMA PlusBaseStep == PlusBase /\ [PlusNext]_<<wallets, plusVars>> => PlusBase'
<1> SUFFICES ASSUME PlusBase, [PlusNext]_<<wallets, plusVars>> PROVE PlusBase'
  OBVIOUS
<1>a. NoSub \notin Users /\ "idle" \notin Subs /\ MaxMonths \in Nat
  BY SubscriptionConstants
<1>b. \A s \in Subs : /\ sub[s] # NoRow <=> sub[s].user \in Users
                      /\ sub[s] # NoRow <=> sub[s].status # "none"
                      /\ sub[s].due \in Nat
  BY RowTyped DEF PlusBase, PlusTypeOK, PlanRows
<1>c. \A s : sub[s] # NoRow <=> ~(sub[s] = NoRow)
  OBVIOUS
<1> USE DEF PlusBase, PlusTypeOK, AtWork
<1>1. CASE MonthPasses
  BY <1>1, <1>a DEF MonthPasses, clerkVars, billerVars, plusHistory
<1>2. ASSUME NEW u \in Users, TopUp(u) PROVE PlusBase'
  BY <1>2 DEF TopUp, clerkVars, billerVars, plusHistory
<1>3. ASSUME NEW c \in Clerks, SubscribePay(c) PROVE PlusBase'
  <2>1. cuser[c] \in Users
    BY <1>3 DEF SubscribePay
  <2>2. charged' \in [Users -> Nat]
    BY <1>3, <2>1 DEF SubscribePay
  <2>3. /\ cpc' \in [Clerks -> {"idle", "subscribing", "inserting", "cancelling"}]
        /\ cuser' \in [Clerks -> Users \cup {NoSub}] /\ crow' \in [Clerks -> Subs \cup {NoSub}]
        /\ \A d \in Clerks :
             /\ cuser'[d] \in Users <=> cpc'[d] \in {"subscribing", "inserting"}
             /\ cpc'[d] = "cancelling" => crow'[d] \in Subs /\ sub[crow'[d]] # NoRow
    <3>1. \/ /\ cpc' = [cpc EXCEPT ![c] = "inserting"] /\ cuser' = [cuser EXCEPT ![c] = cuser[c]]
             /\ crow' = [crow EXCEPT ![c] = NoSub]
          \/ /\ cpc' = [cpc EXCEPT ![c] = "idle"] /\ cuser' = [cuser EXCEPT ![c] = NoSub]
             /\ crow' = [crow EXCEPT ![c] = NoSub]
      BY <1>3 DEF SubscribePay, Clerk, ClerkDone
    <3> QED
      BY <1>a, <2>1, <3>1
  <2>4. UNCHANGED <<month, sub, batch, seen, bpc, excused, crossed>>
    BY <1>3 DEF SubscribePay, billerVars
  <2> QED
    BY <2>2, <2>3, <2>4
<1>4. ASSUME NEW c \in Clerks, SubscribeInsert(c) PROVE PlusBase'
  <2>1. RowsKept
    BY <1>4, InsertRows
  <2> QED
    BY <1>4, <1>a, <2>1 DEF RowsKept, PlanRows, SubscribeInsert, Clerk, ClerkDone, billerVars,
                            plusHistory
<1>5. ASSUME NEW c \in Clerks, CancelWrite(c) PROVE PlusBase'
  <2>1. RowsKept
    BY <1>5, CancelRows
  <2> QED
    BY <1>5, <1>a, <2>1 DEF RowsKept, PlanRows, CancelWrite, Clerk, ClerkDone, billerVars,
                            plusHistory
<1>6. ASSUME NEW c \in Clerks, ClerkFails(c) PROVE PlusBase'
  <2>1. cpc[c] = "inserting" => cuser[c] \in Users
    OBVIOUS
  <2> QED
    BY <1>6, <1>a, <2>1 DEF ClerkFails, Clerk, ClerkDone, billerVars
<1>7. ASSUME NEW c \in Clerks, NEW u \in Users, SubscribeRead(c, u) PROVE PlusBase'
  BY <1>7, <1>a DEF SubscribeRead, Clerk, billerVars
<1>8. ASSUME NEW c \in Clerks, NEW s \in Subs, CancelRead(c, s) PROVE PlusBase'
  <2>1. sub[s] # NoRow
    BY <1>8, <1>b DEF CancelRead, Open
  <2> QED
    BY <1>8, <1>a, <2>1 DEF CancelRead, Clerk, billerVars, plusHistory
<1>9. ASSUME NEW w \in Billers, BillScan(w) PROVE PlusBase'
  <2> DEFINE due == {s \in Subs : sub[s].status = "active" /\ sub[s].due <= month}
             dates == [s \in Subs |-> IF s \in due THEN sub[s].due ELSE 0]
             also == {sub[s].user : s \in {r \in due : Held(r)}}
  <2>1. \A s \in due : sub[s] # NoRow /\ sub[s].user \in Users
    BY <1>b
  <2>2. dates \in [Subs -> Nat] /\ due \in SUBSET Subs /\ also \subseteq Users
    BY <1>b, <2>1
  <2>3. /\ bpc[w] = "idle" /\ batch' = [batch EXCEPT ![w] = due]
        /\ seen' = [seen EXCEPT ![w] = dates] /\ excused' = excused \cup also
        /\ UNCHANGED <<month, sub, clerkVars, bpc, charged, crossed>>
    BY <1>9 DEF BillScan, Scan
  <2> HIDE DEF due, dates, also
  <2> QED
    BY <1>a, <2>1, <2>2, <2>3 DEF clerkVars
<1>10. ASSUME NEW w \in Billers, BillAdvance(w) PROVE PlusBase'
  <2>1. RowsKept
    BY <1>10, AdvanceRows
  <2>2. seen' \in [Billers -> [Subs -> Nat]]
    BY <1>10 DEF BillAdvance, BillDrop
  <2> QED
    BY <1>10, <1>a, <2>1, <2>2 DEF RowsKept, PlanRows, BillAdvance, BillDrop, clerkVars, plusHistory
<1>11. ASSUME NEW w \in Billers, NEW s \in Subs, BillPastDue(w, s) PROVE PlusBase'
  <2>1. RowsKept /\ sub[s].user \in Users
    BY <1>11, <1>b, PastDueRows
  <2>2. seen' \in [Billers -> [Subs -> Nat]]
    BY <1>11 DEF BillPastDue, BillDrop
  <2>3. crossed' \subseteq Users
    BY <1>11, <2>1 DEF BillPastDue
  <2>4. \A v \in Billers : bpc'[v] \in Subs => bpc'[v] \in batch'[v]
    BY <1>11, <1>a DEF BillPastDue, BillDrop
  <2> QED
    BY <1>11, <1>a, <2>1, <2>2, <2>3, <2>4
    DEF RowsKept, PlanRows, BillPastDue, BillDrop, clerkVars
<1>12. ASSUME NEW w \in Billers, NEW s \in Subs, BillPay(w, s) PROVE PlusBase'
  <2>1. sub[s].user \in Users /\ s \in batch[w]
    BY <1>12, <1>b DEF BillPay
  <2> QED
    BY <1>12, <1>a, <2>1 DEF BillPay, clerkVars
<1>13. ASSUME NEW w \in Billers, BillFails(w) PROVE PlusBase'
  <2>1. PICK gone : /\ batch' = [batch EXCEPT ![w] = @ \ gone]
                    /\ seen' = [seen EXCEPT ![w] = [s \in Subs |-> IF s \in gone THEN 0 ELSE @[s]]]
    BY <1>13 DEF BillFails
  <2>2. seen' \in [Billers -> [Subs -> Nat]]
    BY <2>1
  <2>3. bpc[w] # "idle" => sub[bpc[w]].user \in Users
    BY <1>b
  <2>4. excused' \subseteq Users
    BY <1>13, <2>3 DEF BillFails
  <2> QED
    BY <1>13, <1>a, <2>1, <2>2, <2>4 DEF BillFails, clerkVars
<1>14. CASE UNCHANGED <<wallets, plusVars>>
  BY <1>14 DEF plusVars, clerkVars, billerVars, plusHistory
<1> QED
  BY <1>1, <1>2, <1>3, <1>4, <1>5, <1>6, <1>7, <1>8, <1>9, <1>10, <1>11, <1>12, <1>13, <1>14
  DEF PlusNext, BillStep

-----------------------------------------------------------------------------
(* What the rows of a user would come to, in months, were row s due at     *)
(* D[s]: the sum over all rows, of which those of other users count none.  *)
Worth(rows, D, u) ==
  SumFunctionOnSet([s \in Subs |-> IF rows[s].user = u THEN D[s] - rows[s].started ELSE 0], Subs)

DueDates == [s \in Subs |-> sub[s].due]

Inserting(u) == {c \in Clerks : cuser[c] = u /\ cpc[c] = "inserting"}
Advancing(u) == {w \in Billers : bpc[w] \in Subs /\ sub[bpc[w]].user = u}

(* What the scan read of a row on one list only is what the row says, of a *)
(* user whose payments nothing went wrong with.                            *)
AsRead ==
  \A w \in Billers : \A s \in batch[w] : sub[s].user \notin excused =>
    seen[w][s] = sub[s].due /\ \A v \in Billers : s \in batch[v] => v = w

(* The latest date each row ever had: payments cover that, although runs   *)
(* that overlap may write an earlier date over it.                         *)
Covers(top) ==
  /\ \A s \in Subs : sub[s].due <= top[s]
  /\ \A w \in Billers : \A s \in batch[w] : seen[w][s] <= top[s]
  /\ \A u \in Users : charged[u] >= Worth(sub, top, u) + Unwritten(u)

Exact == \A u \in Users \ excused : charged[u] = Worth(sub, DueDates, u) + Unwritten(u)

MonthsInv ==
  PlusBase /\ AsRead /\ Exact /\ \E top \in [Subs -> Nat] : Covers(top)

LEMMA WorthType ==
  ASSUME PlusBase, NEW D \in [Subs -> Int], NEW u \in Users
  PROVE  Worth(sub, D, u) \in Int
<1>1. \A s \in Subs : sub[s].started \in Nat
  BY RowTyped DEF PlusBase, PlusTypeOK, PlanRows
<1>2. \A s \in Subs : (IF sub[s].user = u THEN D[s] - sub[s].started ELSE 0) \in Int
  BY <1>1
<1>3. IsFiniteSet(Subs)
  BY SubscriptionConstants
<1> DEFINE f == [s \in Subs |-> IF sub[s].user = u THEN D[s] - sub[s].started ELSE 0]
<1>4. \A s \in Subs : f[s] \in Int
  BY <1>2
<1> HIDE DEF f
<1>5. SumFunctionOnSet(f, Subs) \in Int
  BY <1>3, <1>4, SumType
<1> QED
  BY <1>5 DEF Worth, f

LEMMA UnwrittenCounts ==
  ASSUME NEW u
  PROVE  /\ IsFiniteSet(Inserting(u)) /\ IsFiniteSet(Advancing(u))
         /\ Cardinality(Inserting(u)) \in Nat /\ Cardinality(Advancing(u)) \in Nat
         /\ Unwritten(u) = Cardinality(Inserting(u)) + Cardinality(Advancing(u))
         /\ Unwritten(u)' = Cardinality(Inserting(u)') + Cardinality(Advancing(u)')
         /\ Unwritten(u) \in Nat /\ Unwritten(u)' \in Nat
<1>1. IsFiniteSet(Inserting(u)) /\ IsFiniteSet(Advancing(u))
  BY SubscriptionConstants, FS_Subset DEF Inserting, Advancing
<1>2. Cardinality(Inserting(u)) \in Nat /\ Cardinality(Advancing(u)) \in Nat
  BY <1>1, FS_CardinalityType
<1>3. Cardinality(Inserting(u)') \in Nat /\ Cardinality(Advancing(u)') \in Nat
  <2>1. IsFiniteSet(Inserting(u)') /\ IsFiniteSet(Advancing(u)')
    BY SubscriptionConstants, FS_Subset DEF Inserting, Advancing
  <2> QED
    BY <2>1, FS_CardinalityType
<1> QED
  BY <1>1, <1>2, <1>3 DEF Unwritten, Inserting, Advancing

(* The months a user has is the worth of the rows as they are due.         *)
LEMMA CoveredIsWorth ==
  ASSUME PlusBase, NEW u \in Users
  PROVE  Covered(u) = Worth(sub, DueDates, u)
<1> DEFINE f == [s \in Subs |-> sub[s].due - sub[s].started]
           g == [s \in Subs |-> IF sub[s].user = u THEN DueDates[s] - sub[s].started ELSE 0]
           T == {s \in Subs : sub[s].user = u}
<1>1. \A s \in Subs : sub[s].due \in Nat /\ sub[s].started \in Nat
  BY RowTyped DEF PlusBase, PlusTypeOK, PlanRows
<1>2. \A s \in Subs : f[s] \in Int
  BY <1>1
<1>3. \A s \in Subs : g[s] = IF s \in T THEN f[s] ELSE 0
  BY DEF DueDates
<1>4. IsFiniteSet(Subs) /\ T \in SUBSET Subs
  BY SubscriptionConstants
<1>5. Covered(u) = SumFunctionOnSet(f, T) /\ Worth(sub, DueDates, u) = SumFunctionOnSet(g, Subs)
  BY DEF Covered, Worth
<1> HIDE DEF f, g, T
<1>6. SumFunctionOnSet(f, T) = SumFunctionOnSet(g, Subs)
  BY <1>2, <1>3, <1>4, SumPart
<1> QED
  BY <1>5, <1>6

(* The worth of a user's rows does not change with the rows' statuses.     *)
LEMMA WorthSame ==
  ASSUME NEW rows, NEW D, NEW E, NEW u,
         \A s \in Subs : /\ rows[s].user = sub[s].user /\ rows[s].started = sub[s].started
                         /\ D[s] = E[s]
  PROVE  Worth(rows, D, u) = Worth(sub, E, u)
<1> DEFINE f == [s \in Subs |-> IF sub[s].user = u THEN E[s] - sub[s].started ELSE 0]
           g == [s \in Subs |-> IF rows[s].user = u THEN D[s] - rows[s].started ELSE 0]
<1>1. f = g
  OBVIOUS
<1> QED
  BY <1>1 DEF Worth

(* It changes with the date and the user of one row as that row does.      *)
LEMMA WorthChange ==
  ASSUME PlusBase, PlusBase', NEW D \in [Subs -> Int], NEW E \in [Subs -> Int], NEW u \in Users,
         NEW s \in Subs, \A t \in Subs : t # s => sub'[t] = sub[t] /\ D[t] = E[t]
  PROVE  Worth(sub', D, u)
           = Worth(sub, E, u)
               + (IF sub'[s].user = u THEN D[s] - sub'[s].started ELSE 0)
               - (IF sub[s].user = u THEN E[s] - sub[s].started ELSE 0)
<1> DEFINE f == [t \in Subs |-> IF sub[t].user = u THEN E[t] - sub[t].started ELSE 0]
           g == [t \in Subs |-> IF sub'[t].user = u THEN D[t] - sub'[t].started ELSE 0]
<1>1. \A t \in Subs : sub[t].started \in Nat /\ sub'[t].started \in Nat
  BY RowTyped DEF PlusBase, PlusTypeOK, PlanRows
<1>2. \A t \in Subs : f[t] \in Int /\ g[t] \in Int
  BY <1>1
<1>3. \A t \in Subs : t # s => g[t] = f[t]
  OBVIOUS
<1>4. IsFiniteSet(Subs)
  BY SubscriptionConstants
<1>5. SumFunctionOnSet(g, Subs) = SumFunctionOnSet(f, Subs) + g[s] - f[s]
  <2> HIDE DEF f, g
  <2> QED
    BY <1>2, <1>3, <1>4, SumChange
<1>6. Worth(sub', D, u) = SumFunctionOnSet(g, Subs) /\ Worth(sub, E, u) = SumFunctionOnSet(f, Subs)
  BY DEF Worth
<1>7. /\ g[s] = IF sub'[s].user = u THEN D[s] - sub'[s].started ELSE 0
      /\ f[s] = IF sub[s].user = u THEN E[s] - sub[s].started ELSE 0
  OBVIOUS
<1> HIDE DEF f, g
<1> QED
  BY <1>5, <1>6, <1>7

LEMMA MonthsInit == PlusInit => MonthsInv
<1> SUFFICES ASSUME PlusInit PROVE MonthsInv
  OBVIOUS
<1>0. "idle" \notin Subs /\ NoSub \notin Users /\ IsFiniteSet(Subs)
  BY SubscriptionConstants
<1>1. PlusBase
  BY PlusBaseInit
<1>2. AsRead
  BY DEF PlusInit, AsRead
<1>3. ASSUME NEW u \in Users, NEW D PROVE Worth(sub, D, u) = 0
  <2> DEFINE f == [s \in Subs |-> IF sub[s].user = u THEN D[s] - sub[s].started ELSE 0]
  <2>1. \A s \in Subs : f[s] = 0
    BY <1>0 DEF PlusInit, NoRow
  <2> HIDE DEF f
  <2>2. SumFunctionOnSet(f, Subs) = 0
    BY <1>0, <2>1, SumZero
  <2> QED
    BY <2>2 DEF Worth, f
<1>4. ASSUME NEW u \in Users PROVE Unwritten(u) = 0
  <2>1. Inserting(u) = {} /\ Advancing(u) = {}
    BY <1>0 DEF Inserting, Advancing, PlusInit
  <2> QED
    BY <2>1, UnwrittenCounts, FS_EmptySet
<1>5. Exact
  BY <1>3, <1>4 DEF Exact, PlusInit
<1>6. Covers([s \in Subs |-> 0])
  BY <1>3, <1>4 DEF Covers, PlusInit, NoRow
<1>7. [s \in Subs |-> 0] \in [Subs -> Nat]
  OBVIOUS
<1> QED
  BY <1>1, <1>2, <1>5, <1>6, <1>7 DEF MonthsInv

(* A step that pays for nothing and dates no row keeps the accounts, if a  *)
(* payment it loses is one of a user it excuses, and the dates a run holds *)
(* are those it held or those of the rows.                                 *)
LEMMA MonthsKept ==
  ASSUME MonthsInv, PlusBase', AsRead', charged' = charged, excused \subseteq excused',
         \A s \in Subs : /\ sub'[s].user = sub[s].user /\ sub'[s].started = sub[s].started
                         /\ sub'[s].due = sub[s].due,
         \A u \in Users : /\ Unwritten(u)' <= Unwritten(u)
                          /\ u \notin excused' => Unwritten(u)' = Unwritten(u),
         \A w \in Billers : \A s \in batch'[w] :
           (s \in batch[w] /\ seen'[w][s] = seen[w][s]) \/ seen'[w][s] = sub[s].due
  PROVE  MonthsInv'
<1>a. PlusTypeOK /\ PlusTypeOK'
  BY DEF MonthsInv, PlusBase
<1>1. \A D : \A u \in Users : Worth(sub', D, u) = Worth(sub, D, u)
  BY WorthSame
<1>2. \A u \in Users : Worth(sub', DueDates', u) = Worth(sub, DueDates, u)
  BY <1>1 DEF DueDates, Worth
<1>3. Exact'
  BY <1>2 DEF MonthsInv, Exact
<1>4. PICK top \in [Subs -> Nat] : Covers(top)
  BY DEF MonthsInv
<1>5. Covers(top)'
  <2>1. \A s \in Subs : sub'[s].due <= top[s]
    BY <1>4 DEF Covers
  <2>2. ASSUME NEW w \in Billers, NEW s \in batch'[w] PROVE seen'[w][s] <= top[s]
    <3>1. s \in Subs
      BY <1>a DEF PlusTypeOK
    <3> QED
      BY <1>4, <3>1 DEF Covers
  <2>3. ASSUME NEW u \in Users PROVE charged'[u] >= Worth(sub', top, u) + Unwritten(u)'
    <3>1. /\ charged[u] >= Worth(sub, top, u) + Unwritten(u)
          /\ Worth(sub', top, u) = Worth(sub, top, u)
      BY <1>1, <1>4 DEF Covers
    <3>2. Unwritten(u) \in Nat /\ Unwritten(u)' \in Nat
      BY UnwrittenCounts
    <3>3. Unwritten(u)' <= Unwritten(u)
      OBVIOUS
    <3>4. Worth(sub, top, u) \in Int /\ charged[u] \in Nat
      BY <1>a, WorthType DEF MonthsInv, PlusTypeOK
    <3> QED
      BY <3>1, <3>2, <3>3, <3>4
  <2> QED
    BY <2>1, <2>2, <2>3 DEF Covers
<1> QED
  BY <1>3, <1>4, <1>5 DEF MonthsInv

(* A payment is counted as one not yet written.                            *)
LEMMA MonthsPaid ==
  ASSUME MonthsInv, PlusBase', NEW p \in Users, charged' = [charged EXCEPT ![p] = @ + 1],
         UNCHANGED <<sub, batch, seen, excused>>,
         \A u \in Users : Unwritten(u)' = Unwritten(u) + IF u = p THEN 1 ELSE 0
  PROVE  MonthsInv'
<1>a. PlusBase /\ PlusTypeOK
  BY DEF MonthsInv, PlusBase
<1>1. \A u \in Users : /\ charged'[u] = charged[u] + IF u = p THEN 1 ELSE 0
                       /\ charged[u] \in Nat /\ Unwritten(u) \in Nat
  BY <1>a, UnwrittenCounts DEF PlusTypeOK
<1>2. \A D \in [Subs -> Int] : \A u \in Users : Worth(sub, D, u) \in Int
  BY <1>a, WorthType
<1>3. DueDates \in [Subs -> Int]
  BY <1>a, RowTyped DEF DueDates, PlusTypeOK, PlanRows
<1>4. Exact'
  <2>1. SUFFICES ASSUME NEW u \in Users \ excused
                 PROVE  charged'[u] = Worth(sub, DueDates, u) + Unwritten(u)'
    BY DEF Exact, DueDates, Worth
  <2>2. charged[u] = Worth(sub, DueDates, u) + Unwritten(u)
    BY DEF MonthsInv, Exact
  <2> QED
    BY <1>1, <1>2, <1>3, <2>2
<1>5. PICK top \in [Subs -> Nat] : Covers(top)
  BY DEF MonthsInv
<1>6. Covers(top)'
  <2>1. SUFFICES ASSUME NEW u \in Users
                 PROVE  charged'[u] >= Worth(sub, top, u) + Unwritten(u)'
    BY <1>5 DEF Covers, Worth
  <2>2. charged[u] >= Worth(sub, top, u) + Unwritten(u)
    BY <1>5 DEF Covers
  <2>3. Worth(sub, top, u) \in Int
    BY <1>2
  <2> QED
    BY <1>1, <2>2, <2>3
<1>7. AsRead'
  BY DEF MonthsInv, AsRead
<1> QED
  BY <1>4, <1>5, <1>6, <1>7 DEF MonthsInv

(* A month is written to a row that was due at the date a run had read, or *)
(* to a new row: one payment of its user's is no longer unwritten.         *)
LEMMA MonthsWritten ==
  ASSUME MonthsInv, PlusBase', AsRead', UNCHANGED <<charged, excused>>,
         NEW s \in Subs, \A t \in Subs : t # s => sub'[t] = sub[t],
         NEW p \in Users, sub'[s].user = p,
         \A u \in Users : Unwritten(u) = Unwritten(u)' + IF u = p THEN 1 ELSE 0,
         \/ sub[s] = NoRow /\ sub'[s].due = sub'[s].started + 1 /\ batch' = batch /\ seen' = seen
         \/ /\ sub[s].user = p /\ sub'[s].started = sub[s].started
            /\ \E w \in Billers : s \in batch[w] /\ sub'[s].due = seen[w][s] + 1
            /\ \A w \in Billers : \A t \in batch'[w] : t \in batch[w] /\ seen'[w][t] = seen[w][t]
  PROVE  MonthsInv'
<1>a. PlusBase /\ PlusTypeOK /\ PlusTypeOK' /\ AtWork
  BY DEF MonthsInv, PlusBase
<1>b. \A t \in Subs : /\ sub[t].due \in Nat /\ sub[t].started \in Nat
                      /\ sub'[t].due \in Nat /\ sub'[t].started \in Nat
  BY <1>a, RowTyped DEF PlusTypeOK, PlanRows
<1>c. \A u \in Users : charged[u] \in Nat /\ Unwritten(u) \in Nat /\ Unwritten(u)' \in Nat
  BY <1>a, UnwrittenCounts DEF PlusTypeOK
<1>d. NoSub \notin Users
  BY SubscriptionConstants
<1>e. \A D \in [Subs -> Int] : \A u \in Users : Worth(sub, D, u) \in Int
  BY <1>a, WorthType
<1>f. ASSUME NEW u \in Users, u # p PROVE ~(sub'[s].user = u) /\ ~(sub[s].user = u)
  BY <1>d, <1>f DEF NoRow
<1>1. Exact'
  <2>1. DueDates \in [Subs -> Int] /\ DueDates' \in [Subs -> Int]
    BY <1>b DEF DueDates
  <2>2. \A t \in Subs : t # s => DueDates'[t] = DueDates[t]
    BY DEF DueDates
  <2>3. DueDates'[s] = sub'[s].due /\ DueDates[s] = sub[s].due
    BY DEF DueDates
  <2>4. ASSUME NEW u \in Users \ excused
        PROVE  charged[u] = Worth(sub', DueDates', u) + Unwritten(u)'
    <3>1. charged[u] = Worth(sub, DueDates, u) + Unwritten(u) /\ Worth(sub, DueDates, u) \in Int
      BY <1>e, <2>1 DEF MonthsInv, Exact
    <3>2. Worth(sub', DueDates', u) = Worth(sub, DueDates, u)
               + (IF sub'[s].user = u THEN sub'[s].due - sub'[s].started ELSE 0)
               - (IF sub[s].user = u THEN sub[s].due - sub[s].started ELSE 0)
      <4> DEFINE D == DueDates'  E == DueDates
      <4>1. /\ D \in [Subs -> Int] /\ E \in [Subs -> Int]
            /\ \A t \in Subs : t # s => sub'[t] = sub[t] /\ D[t] = E[t]
        BY <2>1, <2>2
      <4>2. D[s] = sub'[s].due /\ E[s] = sub[s].due
        BY <2>3
      <4> HIDE DEF D, E
      <4>3. Worth(sub', D, u) = Worth(sub, E, u)
               + (IF sub'[s].user = u THEN D[s] - sub'[s].started ELSE 0)
               - (IF sub[s].user = u THEN E[s] - sub[s].started ELSE 0)
        BY <1>a, <4>1, WorthChange
      <4> QED
        BY <4>2, <4>3 DEF D, E
    <3>3. CASE u # p
      <4>1. Worth(sub', DueDates', u) = Worth(sub, DueDates, u)
        BY <1>f, <3>1, <3>2, <3>3
      <4>2. Unwritten(u)' = Unwritten(u)
        BY <1>c, <3>3
      <4> QED
        BY <3>1, <4>1, <4>2
    <3>4. CASE u = p
      <4>1. Unwritten(u) = Unwritten(u)' + 1
        BY <3>4
      <4>2. CASE sub[s] = NoRow
        <5>1. sub[s].user # u /\ sub'[s].due = sub'[s].started + 1
          BY <1>d, <3>4, <4>2 DEF NoRow
        <5>2. Worth(sub', DueDates', u) = Worth(sub, DueDates, u) + 1
          BY <1>b, <3>1, <3>2, <3>4, <5>1
        <5> QED
          BY <1>c, <3>1, <4>1, <5>2
      <4>3. CASE sub[s] # NoRow
        <5>1. sub[s].user = p /\ sub'[s].started = sub[s].started
          BY <4>3
        <5>2. PICK w \in Billers : s \in batch[w] /\ sub'[s].due = seen[w][s] + 1
          BY <4>3
        <5>3. sub'[s].due = sub[s].due + 1
          BY <3>4, <5>1, <5>2 DEF MonthsInv, AsRead
        <5>4. Worth(sub', DueDates', u) = Worth(sub, DueDates, u) + 1
          BY <1>b, <3>1, <3>2, <3>4, <5>1, <5>3
        <5> QED
          BY <1>c, <3>1, <4>1, <5>4
      <4> QED
        BY <4>2, <4>3
    <3> QED
      BY <3>3, <3>4
  <2> QED
    BY <2>4 DEF Exact
<1>2. PICK top \in [Subs -> Nat] : Covers(top)
  BY DEF MonthsInv
<1>3. PICK high \in Nat :
        /\ sub'[s].due <= high /\ (sub[s] # NoRow => high \in {top[s], top[s] + 1})
        /\ (sub[s] = NoRow => high = sub'[s].due)
  <2>1. top[s] \in Nat /\ sub'[s].due \in Nat
    BY <1>b
  <2>2. CASE sub[s] = NoRow
    BY <2>1, <2>2
  <2>3. CASE sub[s] # NoRow
    <3>1. PICK w \in Billers : s \in batch[w] /\ sub'[s].due = seen[w][s] + 1
      BY <2>3
    <3>2. seen[w][s] <= top[s] /\ seen[w][s] \in Nat
      BY <1>2, <1>a, <3>1 DEF Covers, PlusTypeOK
    <3>3. sub'[s].due <= top[s] + 1
      BY <3>1, <3>2, <2>1
    <3> QED
      BY <2>1, <2>3, <3>3
  <2> QED
    BY <2>2, <2>3
<1>4. PICK new \in [Subs -> Nat] :
        new[s] = high /\ \A t \in Subs : t # s => new[t] = top[t]
  <2>1. [top EXCEPT ![s] = high] \in [Subs -> Nat]
    OBVIOUS
  <2> QED
    BY <2>1
<1>5. top[s] \in Nat /\ (sub[s] # NoRow => top[s] <= high)
  BY <1>3
<1>6. \A t \in Subs : sub'[t].due <= new[t]
  BY <1>2, <1>3, <1>4 DEF Covers
<1>7. ASSUME NEW w \in Billers, NEW t \in batch'[w] PROVE seen'[w][t] <= new[t]
  <2>1. t \in Subs /\ t \in batch[w] /\ seen'[w][t] = seen[w][t] /\ seen[w][t] \in Nat
    BY <1>a DEF PlusTypeOK
  <2>2. seen[w][t] <= top[t]
    BY <1>2, <2>1 DEF Covers
  <2>3. CASE t = s
    <3>1. sub[s] # NoRow
      BY <1>a, <2>1, <2>3 DEF AtWork
    <3>2. top[s] \in Nat
      BY <2>1, <2>3
    <3> QED
      BY <1>4, <1>5, <2>1, <2>2, <2>3, <3>1, <3>2
  <2>4. CASE t # s
    BY <1>4, <2>1, <2>2, <2>4
  <2> QED
    BY <2>3, <2>4
<1>8. ASSUME NEW u \in Users PROVE charged[u] >= Worth(sub', new, u) + Unwritten(u)'
  <2>1. charged[u] >= Worth(sub, top, u) + Unwritten(u) /\ Worth(sub, top, u) \in Int
    BY <1>2, <1>e DEF Covers
  <2>2. Worth(sub', new, u) = Worth(sub, top, u)
               + (IF sub'[s].user = u THEN high - sub'[s].started ELSE 0)
               - (IF sub[s].user = u THEN top[s] - sub[s].started ELSE 0)
    <3>1. /\ new \in [Subs -> Int] /\ top \in [Subs -> Int]
          /\ \A t \in Subs : t # s => sub'[t] = sub[t] /\ new[t] = top[t]
      BY <1>4
    <3> QED
      BY <1>4, <1>a, <3>1, WorthChange DEF MonthsInv
  <2>3. CASE u # p
    <3>1. Worth(sub', new, u) = Worth(sub, top, u)
      BY <1>f, <2>1, <2>2, <2>3
    <3>2. Unwritten(u)' = Unwritten(u)
      BY <1>c, <2>3
    <3> QED
      BY <2>1, <3>1, <3>2
  <2>4. CASE u = p
    <3>1. Unwritten(u) = Unwritten(u)' + 1
      BY <2>4
    <3>2. top[s] \in Nat
      OBVIOUS
    <3>3. CASE sub[s] = NoRow
      <4>1. sub[s].user # u /\ high = sub'[s].started + 1
        BY <1>3, <1>d, <2>4, <3>3 DEF NoRow
      <4>2. Worth(sub', new, u) = Worth(sub, top, u) + 1
        BY <1>b, <2>1, <2>2, <2>4, <4>1
      <4> QED
        BY <1>c, <2>1, <3>1, <4>2
    <3>4. CASE sub[s] # NoRow
      <4>1. sub[s].user = p /\ sub'[s].started = sub[s].started /\ high <= top[s] + 1
        BY <1>3, <3>2, <3>4
      <4>2. Worth(sub', new, u) = Worth(sub, top, u) + high - top[s]
        BY <1>3, <1>b, <2>1, <2>2, <2>4, <3>2, <4>1
      <4> QED
        BY <1>3, <1>c, <2>1, <3>1, <3>2, <4>1, <4>2
    <3> QED
      BY <3>3, <3>4
  <2> QED
    BY <2>3, <2>4
<1>9. Covers(new)'
  BY <1>6, <1>7, <1>8 DEF Covers
<1> QED
  BY <1>1, <1>4, <1>9 DEF MonthsInv

(* A step of a clerk that is not about to insert a row, or of the clock.   *)
LEMMA MonthsQuiet ==
  ASSUME MonthsInv, PlusBase', UNCHANGED <<charged, excused, batch, seen, bpc>>,
         \A s \in Subs : /\ sub'[s].user = sub[s].user /\ sub'[s].started = sub[s].started
                         /\ sub'[s].due = sub[s].due,
         \A u \in Users : Inserting(u)' = Inserting(u)
  PROVE  MonthsInv'
<1>1. PlusTypeOK
  BY DEF MonthsInv, PlusBase
<1>2. AsRead'
  <2>1. \A w \in Billers : \A s \in batch[w] : s \in Subs
    BY <1>1 DEF PlusTypeOK
  <2> QED
    BY <2>1 DEF MonthsInv, AsRead
<1>3. ASSUME NEW u \in Users PROVE Unwritten(u)' = Unwritten(u)
  <2>1. Advancing(u)' = Advancing(u)
    BY DEF Advancing
  <2> QED
    BY <2>1, UnwrittenCounts
<1>4. \A u \in Users : Unwritten(u) \in Nat
  BY UnwrittenCounts
<1> QED
  BY <1>2, <1>3, <1>4, MonthsKept

LEMMA MonthsClerk ==
  ASSUME MonthsInv, PlusBase', NEW c \in Clerks,
         \/ SubscribePay(c) \/ SubscribeInsert(c) \/ CancelWrite(c) \/ ClerkFails(c)
         \/ \E u \in Users : SubscribeRead(c, u)
         \/ \E s \in Subs : CancelRead(c, s)
  PROVE  MonthsInv'
<1>a. PlusBase /\ PlusTypeOK /\ AtWork
  BY DEF MonthsInv, PlusBase
<1>b. NoSub \notin Users
  BY SubscriptionConstants
<1>1. CASE SubscribePay(c)
  <2>1. cuser[c] \in Users /\ cpc[c] = "subscribing"
    BY <1>1, <1>a DEF SubscribePay, AtWork
  <2>2. UNCHANGED <<sub, batch, seen, bpc, excused>>
    BY <1>1 DEF SubscribePay, billerVars
  <2>3. CASE cpc'[c] = "inserting"
    <3>1. charged' = [charged EXCEPT ![cuser[c]] = @ + 1]
            /\ cpc' = [cpc EXCEPT ![c] = "inserting"] /\ cuser' = cuser
      BY <1>1, <1>a, <2>3 DEF SubscribePay, Clerk, ClerkDone, PlusTypeOK
    <3>2. ASSUME NEW u \in Users
          PROVE  Unwritten(u)' = Unwritten(u) + IF u = cuser[c] THEN 1 ELSE 0
      <4>1. Advancing(u)' = Advancing(u)
        BY <2>2 DEF Advancing
      <4>2. Inserting(u)' = (IF u = cuser[c] THEN Inserting(u) \cup {c} ELSE Inserting(u))
              /\ c \notin Inserting(u)
        BY <1>a, <2>1, <3>1 DEF Inserting, PlusTypeOK
      <4>3. Cardinality(Inserting(u)')
              = Cardinality(Inserting(u)) + IF u = cuser[c] THEN 1 ELSE 0
        <5>1. IsFiniteSet(Inserting(u)) /\ Cardinality(Inserting(u)) \in Nat
          BY UnwrittenCounts
        <5>2. CASE u = cuser[c]
          BY <4>2, <5>1, <5>2, FS_AddElement
        <5>3. CASE u # cuser[c]
          BY <4>2, <5>1, <5>3
        <5> QED
          BY <5>2, <5>3
      <4> QED
        BY <4>1, <4>3, UnwrittenCounts
    <3> QED
      BY <2>1, <2>2, <3>1, <3>2, MonthsPaid
  <2>4. CASE cpc'[c] # "inserting"
    <3>1. charged' = charged /\ cpc' = [cpc EXCEPT ![c] = "idle"]
            /\ cuser' = [cuser EXCEPT ![c] = NoSub]
      BY <1>1, <1>a, <2>4 DEF SubscribePay, Clerk, ClerkDone, PlusTypeOK
    <3>2. \A u \in Users : Inserting(u)' = Inserting(u)
      BY <1>a, <2>1, <3>1 DEF Inserting, PlusTypeOK
    <3> QED
      BY <2>2, <3>1, <3>2, MonthsQuiet
  <2> QED
    BY <2>3, <2>4
<1>2. CASE SubscribeInsert(c)
  <2>1. PICK s \in Subs :
           /\ sub[s] = NoRow
           /\ \A t \in Subs : t # s => sub'[t] = sub[t]
           /\ sub'[s] = [user |-> cuser[c], status |-> "active",
                         due |-> month + 1, started |-> month]
    BY <1>2, <1>a, InsertRows
  <2>2. cuser[c] \in Users
    BY <1>2, <1>a, InsertRows
  <2>3. /\ UNCHANGED <<charged, excused, batch, seen, bpc>> /\ cpc[c] = "inserting"
        /\ cpc' = [cpc EXCEPT ![c] = "idle"] /\ cuser' = [cuser EXCEPT ![c] = NoSub]
    BY <1>2 DEF SubscribeInsert, ClerkDone, Clerk, billerVars, plusHistory
  <2>4. \A w \in Billers : s \notin batch[w] /\ bpc[w] # s
    BY <1>a, <2>1 DEF AtWork
  <2>5. AsRead'
    <3>1. \A w \in Billers : \A t \in batch[w] : sub'[t] = sub[t]
      BY <1>a, <2>1, <2>4 DEF PlusTypeOK
    <3> QED
      BY <2>3, <3>1 DEF MonthsInv, AsRead
  <2>6. ASSUME NEW u \in Users
        PROVE  Unwritten(u) = Unwritten(u)' + IF u = cuser[c] THEN 1 ELSE 0
    <3>1. Advancing(u)' = Advancing(u)
      BY <2>1, <2>3, <2>4 DEF Advancing
    <3>2. CASE u = cuser[c]
      <4>1. Inserting(u)' = Inserting(u) \ {c} /\ c \in Inserting(u)
        BY <1>a, <1>b, <2>3, <3>2 DEF Inserting, PlusTypeOK
      <4>2. Cardinality(Inserting(u)') = Cardinality(Inserting(u)) - 1
        BY <4>1, UnwrittenCounts, FS_RemoveElement
      <4> QED
        BY <3>1, <3>2, <4>2, UnwrittenCounts
    <3>3. CASE u # cuser[c]
      <4>1. Inserting(u)' = Inserting(u)
        BY <1>a, <1>b, <2>3, <3>3 DEF Inserting, PlusTypeOK
      <4> QED
        BY <3>1, <3>3, <4>1, UnwrittenCounts
    <3> QED
      BY <3>2, <3>3
  <2>7. sub'[s].user = cuser[c] /\ sub'[s].due = sub'[s].started + 1
    BY <2>1
  <2> QED
    BY <2>1, <2>2, <2>3, <2>5, <2>6, <2>7, MonthsWritten
<1>3. CASE CancelWrite(c)
  <2>1. /\ UNCHANGED <<charged, excused, batch, seen, bpc>> /\ cpc[c] = "cancelling"
        /\ cpc' = [cpc EXCEPT ![c] = "idle"] /\ cuser' = [cuser EXCEPT ![c] = NoSub]
    BY <1>3 DEF CancelWrite, ClerkDone, Clerk, billerVars, plusHistory
  <2>2. \A u \in Users : Inserting(u)' = Inserting(u)
    BY <1>a, <2>1 DEF Inserting, PlusTypeOK
  <2>3. \A s \in Subs : /\ sub'[s].user = sub[s].user /\ sub'[s].started = sub[s].started
                        /\ sub'[s].due = sub[s].due
    BY <1>3, <1>a, CancelRows DEF RowsKept
  <2> QED
    BY <2>1, <2>2, <2>3, MonthsQuiet
<1>4. CASE ClerkFails(c)
  <2>1. /\ UNCHANGED <<sub, charged, batch, seen, bpc>>
        /\ excused' = IF cpc[c] = "inserting" THEN excused \cup {cuser[c]} ELSE excused
        /\ cpc' = [cpc EXCEPT ![c] = "idle"] /\ cuser' = [cuser EXCEPT ![c] = NoSub]
    BY <1>4 DEF ClerkFails, ClerkDone, Clerk, billerVars
  <2>2. AsRead'
    BY <2>1 DEF MonthsInv, AsRead
  <2>3. ASSUME NEW u \in Users
        PROVE  /\ Unwritten(u)' <= Unwritten(u)
               /\ u \notin excused' => Unwritten(u)' = Unwritten(u)
    <3>1. Advancing(u)' = Advancing(u)
      BY <2>1 DEF Advancing
    <3>2. CASE c \in Inserting(u)
      <4>1. Inserting(u)' = Inserting(u) \ {c}
        BY <1>a, <1>b, <2>1, <3>2 DEF Inserting, PlusTypeOK
      <4>2. Cardinality(Inserting(u)') = Cardinality(Inserting(u)) - 1
        BY <3>2, <4>1, UnwrittenCounts, FS_RemoveElement
      <4>3. u \in excused'
        BY <2>1, <3>2 DEF Inserting
      <4> QED
        BY <3>1, <4>2, <4>3, UnwrittenCounts
    <3>3. CASE c \notin Inserting(u)
      <4>1. Inserting(u)' = Inserting(u)
        BY <1>a, <1>b, <2>1, <3>3 DEF Inserting, PlusTypeOK
      <4> QED
        BY <3>1, <4>1, UnwrittenCounts
    <3> QED
      BY <3>2, <3>3
  <2> QED
    BY <2>1, <2>2, <2>3, MonthsKept
<1>5. ASSUME NEW u \in Users, SubscribeRead(c, u) PROVE MonthsInv'
  <2>1. /\ UNCHANGED <<sub, charged, excused, batch, seen, bpc>> /\ cpc[c] = "idle"
        /\ cpc' = [cpc EXCEPT ![c] = "subscribing"] /\ cuser' = [cuser EXCEPT ![c] = u]
    BY <1>5 DEF SubscribeRead, Clerk, billerVars
  <2>2. \A v \in Users : Inserting(v)' = Inserting(v)
    BY <1>a, <2>1 DEF Inserting, PlusTypeOK
  <2> QED
    BY <2>1, <2>2, MonthsQuiet
<1>6. ASSUME NEW s \in Subs, CancelRead(c, s) PROVE MonthsInv'
  <2>1. /\ UNCHANGED <<sub, charged, excused, batch, seen, bpc>> /\ cpc[c] = "idle"
        /\ cpc' = [cpc EXCEPT ![c] = "cancelling"] /\ cuser' = [cuser EXCEPT ![c] = NoSub]
    BY <1>6 DEF CancelRead, Clerk, billerVars, plusHistory
  <2>2. \A u \in Users : Inserting(u)' = Inserting(u)
    BY <1>a, <2>1 DEF Inserting, PlusTypeOK
  <2> QED
    BY <2>1, <2>2, MonthsQuiet
<1> QED
  BY <1>1, <1>2, <1>3, <1>4, <1>5, <1>6

LEMMA MonthsBiller ==
  ASSUME MonthsInv, PlusBase', NEW w \in Billers, BillStep(w) \/ BillFails(w)
  PROVE  MonthsInv'
<1>a. PlusBase /\ PlusTypeOK /\ AtWork /\ AsRead
  BY DEF MonthsInv, PlusBase
<1>b. "idle" \notin Subs
  BY SubscriptionConstants
<1>c. \A u : (cpc' = cpc /\ cuser' = cuser) => Inserting(u)' = Inserting(u)
  BY DEF Inserting
<1>1. CASE BillScan(w)
  <2> DEFINE due == {s \in Subs : sub[s].status = "active" /\ sub[s].due <= month}
             dates == [s \in Subs |-> IF s \in due THEN sub[s].due ELSE 0]
             also == {sub[s].user : s \in {r \in due : Held(r)}}
  <2>1. /\ bpc[w] = "idle" /\ batch' = [batch EXCEPT ![w] = due] /\ batch[w] = {}
        /\ seen' = [seen EXCEPT ![w] = dates] /\ excused' = excused \cup also
        /\ UNCHANGED <<sub, cpc, cuser, bpc, charged>>
    BY <1>1 DEF BillScan, Scan, clerkVars
  <2>2. \A s \in due : s \in Subs /\ dates[s] = sub[s].due /\ (Held(s) => sub[s].user \in also)
    OBVIOUS
  <2> HIDE DEF due, dates, also
  <2>3. \A v \in Billers : v # w => batch'[v] = batch[v] /\ seen'[v] = seen[v]
    BY <1>a, <2>1 DEF PlusTypeOK
  <2>4. batch'[w] = due /\ seen'[w] = dates
    BY <1>a, <2>1 DEF PlusTypeOK
  <2>5. AsRead'
    <3>1. SUFFICES ASSUME NEW x \in Billers, NEW s \in batch'[x], sub[s].user \notin excused'
                   PROVE  seen'[x][s] = sub[s].due /\ \A v \in Billers : s \in batch'[v] => v = x
      BY <2>1 DEF AsRead
    <3>2. sub[s].user \notin excused /\ (s \in due => ~Held(s))
      BY <2>1, <2>2, <3>1
    <3>3. CASE s \in due
      BY <2>2, <2>3, <2>4, <3>2, <3>3 DEF Held
    <3>4. CASE s \notin due
      BY <1>a, <2>3, <2>4, <3>2, <3>4 DEF AsRead
    <3> QED
      BY <3>3, <3>4
  <2>6. \A u \in Users : Unwritten(u)' = Unwritten(u) /\ Unwritten(u) \in Nat
    <3>1. \A u : Advancing(u)' = Advancing(u)
      BY <2>1 DEF Advancing
    <3> QED
      BY <1>c, <2>1, <3>1, UnwrittenCounts
  <2>7. \A v \in Billers : \A s \in batch'[v] :
          (s \in batch[v] /\ seen'[v][s] = seen[v][s]) \/ seen'[v][s] = sub[s].due
    BY <2>2, <2>3, <2>4
  <2>8. excused \subseteq excused'
    BY <2>1
  <2>9. \A s \in Subs : sub'[s].user = sub[s].user /\ sub'[s].started = sub[s].started
                        /\ sub'[s].due = sub[s].due
    BY <2>1
  <2> QED
    BY <2>1, <2>5, <2>6, <2>7, <2>8, <2>9, MonthsKept
<1>2. ASSUME NEW s \in Subs, BillPastDue(w, s) PROVE MonthsInv'
  <2>1. /\ batch' = [batch EXCEPT ![w] = @ \ {s}] /\ seen' = [seen EXCEPT ![w][s] = 0]
        /\ UNCHANGED <<cpc, cuser, bpc, charged, excused>>
    BY <1>2 DEF BillPastDue, BillDrop, clerkVars
  <2>2. \A t \in Subs : sub'[t].user = sub[t].user /\ sub'[t].started = sub[t].started
                        /\ sub'[t].due = sub[t].due
    BY <1>2, <1>a, PastDueRows DEF RowsKept
  <2>3. \A v \in Billers : \A t \in batch'[v] :
          t \in batch[v] /\ seen'[v][t] = seen[v][t] /\ t \in Subs
    BY <1>a, <2>1 DEF PlusTypeOK
  <2>4. AsRead'
    BY <1>a, <2>1, <2>2, <2>3 DEF AsRead
  <2>5. \A u \in Users : Unwritten(u)' = Unwritten(u) /\ Unwritten(u) \in Nat
    <3>1. \A u : Advancing(u)' = Advancing(u)
      BY <2>1, <2>2 DEF Advancing
    <3> QED
      BY <1>c, <2>1, <3>1, UnwrittenCounts
  <2> QED
    BY <2>1, <2>2, <2>3, <2>4, <2>5, MonthsKept
<1>3. ASSUME NEW s \in Subs, BillPay(w, s) PROVE MonthsInv'
  <2> DEFINE p == sub[s].user
  <2>1. /\ s \in batch[w] /\ bpc[w] = "idle" /\ bpc' = [bpc EXCEPT ![w] = s]
        /\ charged' = [charged EXCEPT ![p] = @ + 1]
        /\ UNCHANGED <<sub, cpc, cuser, batch, seen, excused>>
    BY <1>3 DEF BillPay, clerkVars
  <2>2. p \in Users
    BY <1>a, <2>1, RowTyped DEF AtWork, PlusTypeOK, PlanRows
  <2>3. ASSUME NEW u \in Users PROVE Unwritten(u)' = Unwritten(u) + IF u = p THEN 1 ELSE 0
    <3>1. Inserting(u)' = Inserting(u)
      BY <1>c, <2>1
    <3>2. Advancing(u)' = (IF u = p THEN Advancing(u) \cup {w} ELSE Advancing(u))
            /\ w \notin Advancing(u)
      BY <1>a, <1>b, <2>1 DEF Advancing, PlusTypeOK
    <3>3. Cardinality(Advancing(u)') = Cardinality(Advancing(u)) + IF u = p THEN 1 ELSE 0
      <4>1. IsFiniteSet(Advancing(u)) /\ Cardinality(Advancing(u)) \in Nat
        BY UnwrittenCounts
      <4>2. CASE u = p
        BY <3>2, <4>1, <4>2, FS_AddElement
      <4>3. CASE u # p
        BY <3>2, <4>1, <4>3
      <4> QED
        BY <4>2, <4>3
    <3> QED
      BY <3>1, <3>3, UnwrittenCounts
  <2> HIDE DEF p
  <2> QED
    BY <2>1, <2>2, <2>3, MonthsPaid
<1>4. CASE BillAdvance(w)
  <2> DEFINE s == bpc[w]
             p == sub[s].user
  <2>1. /\ batch' = [batch EXCEPT ![w] = @ \ {s}] /\ seen' = [seen EXCEPT ![w][s] = 0]
        /\ bpc' = [bpc EXCEPT ![w] = "idle"] /\ UNCHANGED <<cpc, cuser, charged, excused>>
    BY <1>4 DEF BillAdvance, BillDrop, clerkVars, plusHistory
  <2>2. /\ RowsKept /\ s \in batch[w] /\ s \in Subs /\ sub[s] # NoRow
        /\ \A t \in Subs : t # s => sub'[t] = sub[t]
        /\ sub'[s].due = seen[w][s] + 1
    BY <1>4, <1>a, AdvanceRows
  <2>3. p \in Users /\ sub'[s].user = p /\ sub'[s].started = sub[s].started
    BY <1>a, <2>2, RowTyped DEF RowsKept, PlusTypeOK, PlanRows
  <2>4. \A v \in Billers : \A t \in batch'[v] : t \in batch[v] /\ seen'[v][t] = seen[v][t] /\ t \in Subs
    BY <1>a, <2>1 DEF PlusTypeOK
  <2>5. AsRead'
    <3>1. SUFFICES ASSUME NEW x \in Billers, NEW t \in batch'[x], sub'[t].user \notin excused
                   PROVE  seen'[x][t] = sub'[t].due /\ \A v \in Billers : t \in batch'[v] => v = x
      BY <2>1 DEF AsRead
    <3>2. sub'[t].user = sub[t].user
      BY <2>2, <2>3, <2>4
    <3>3. seen[x][t] = sub[t].due /\ \A v \in Billers : t \in batch[v] => v = x
      BY <1>a, <2>4, <3>1, <3>2 DEF AsRead
    <3>4. t # s
      BY <1>a, <2>1, <2>2, <2>4, <3>3 DEF PlusTypeOK
    <3> QED
      BY <2>2, <2>4, <3>3, <3>4
  <2>6. ASSUME NEW u \in Users PROVE Unwritten(u) = Unwritten(u)' + IF u = p THEN 1 ELSE 0
    <3>1. Inserting(u)' = Inserting(u)
      BY <1>c, <2>1
    <3>2. Advancing(u)' = Advancing(u) \ {w} /\ (w \in Advancing(u) <=> u = p)
      <4>1. \A v \in Billers : bpc[v] \in Subs => sub'[bpc[v]].user = sub[bpc[v]].user
        BY <2>2, <2>3
      <4>2. \A v \in Billers : bpc'[v] = IF v = w THEN "idle" ELSE bpc[v]
        BY <1>a, <2>1 DEF PlusTypeOK
      <4> QED
        BY <1>b, <2>2, <4>1, <4>2 DEF Advancing
    <3>3. Cardinality(Advancing(u)') = Cardinality(Advancing(u)) - IF u = p THEN 1 ELSE 0
      <4>1. IsFiniteSet(Advancing(u)) /\ Cardinality(Advancing(u)) \in Nat
        BY UnwrittenCounts
      <4>2. CASE u = p
        BY <3>2, <4>1, <4>2, FS_RemoveElement
      <4>3. CASE u # p
        <5>1. Advancing(u)' = Advancing(u)
          BY <3>2, <4>3
        <5> QED
          BY <4>1, <4>3, <5>1
      <4> QED
        BY <4>2, <4>3
    <3> QED
      BY <3>1, <3>3, UnwrittenCounts
  <2> HIDE DEF s, p
  <2> QED
    BY <2>1, <2>2, <2>3, <2>4, <2>5, <2>6, MonthsWritten DEF p
<1>5. CASE BillFails(w)
  <2>1. PICK gone : /\ batch' = [batch EXCEPT ![w] = @ \ gone]
                    /\ seen' = [seen EXCEPT ![w] = [s \in Subs |-> IF s \in gone THEN 0 ELSE @[s]]]
    BY <1>5 DEF BillFails
  <2>2. /\ bpc' = [bpc EXCEPT ![w] = "idle"]
        /\ UNCHANGED <<sub, cpc, cuser, charged>>
        /\ excused' = IF bpc[w] = "idle" THEN excused ELSE excused \cup {sub[bpc[w]].user}
    BY <1>5 DEF BillFails, clerkVars
  <2>3. \A v \in Billers : \A t \in batch'[v] : t \in batch[v] /\ seen'[v][t] = seen[v][t]
    BY <1>a, <2>1 DEF PlusTypeOK
  <2>4. excused \subseteq excused'
    BY <2>2
  <2>5. AsRead'
    BY <1>a, <2>2, <2>3, <2>4 DEF AsRead
  <2>6. ASSUME NEW u \in Users
        PROVE  /\ Unwritten(u)' <= Unwritten(u)
               /\ u \notin excused' => Unwritten(u)' = Unwritten(u)
    <3>1. Inserting(u)' = Inserting(u)
      BY <1>c, <2>2
    <3>2. Advancing(u)' = Advancing(u) \ {w} /\ (w \in Advancing(u) => u \in excused')
      <4>2. \A v \in Billers : bpc'[v] = IF v = w THEN "idle" ELSE bpc[v]
        BY <1>a, <2>2 DEF PlusTypeOK
      <4> QED
        BY <1>b, <2>2, <4>2 DEF Advancing
    <3>3. Cardinality(Advancing(u)')
            = Cardinality(Advancing(u)) - IF w \in Advancing(u) THEN 1 ELSE 0
      <4>1. IsFiniteSet(Advancing(u)) /\ Cardinality(Advancing(u)) \in Nat
        BY UnwrittenCounts
      <4>2. CASE w \in Advancing(u)
        BY <3>2, <4>1, <4>2, FS_RemoveElement
      <4>3. CASE w \notin Advancing(u)
        <5>1. Advancing(u)' = Advancing(u)
          BY <3>2, <4>3
        <5> QED
          BY <4>1, <4>3, <5>1
      <4> QED
        BY <4>2, <4>3
    <3>4. /\ Unwritten(u) = Cardinality(Inserting(u)) + Cardinality(Advancing(u))
          /\ Unwritten(u)' = Cardinality(Inserting(u)') + Cardinality(Advancing(u)')
          /\ Cardinality(Inserting(u)) \in Nat /\ Cardinality(Advancing(u)) \in Nat
      BY UnwrittenCounts
    <3> QED
      BY <3>1, <3>2, <3>3, <3>4
  <2> QED
    BY <2>2, <2>3, <2>4, <2>5, <2>6, MonthsKept
<1> QED
  BY <1>1, <1>2, <1>3, <1>4, <1>5 DEF BillStep

LEMMA MonthsStep == MonthsInv /\ [PlusNext]_<<wallets, plusVars>> => MonthsInv'
<1> SUFFICES ASSUME MonthsInv, [PlusNext]_<<wallets, plusVars>> PROVE MonthsInv'
  OBVIOUS
<1>a. PlusBase'
  BY PlusBaseStep DEF MonthsInv
<1>1. ASSUME UNCHANGED <<sub, charged, excused, batch, seen, bpc, cpc, cuser>> PROVE MonthsInv'
  <2>1. \A u \in Users : Inserting(u)' = Inserting(u)
    BY <1>1 DEF Inserting
  <2> QED
    BY <1>1, <1>a, <2>1, MonthsQuiet
<1>2. CASE MonthPasses
  BY <1>1, <1>2 DEF MonthPasses, clerkVars, billerVars, plusHistory
<1>3. ASSUME NEW u \in Users, TopUp(u) PROVE MonthsInv'
  BY <1>1, <1>3 DEF TopUp, clerkVars, billerVars, plusHistory
<1>4. CASE UNCHANGED <<wallets, plusVars>>
  BY <1>1, <1>4 DEF plusVars, clerkVars, billerVars, plusHistory
<1> QED
  BY <1>a, <1>2, <1>3, <1>4, MonthsClerk, MonthsBiller DEF PlusNext

LEMMA MonthsInvImplies == MonthsInv => MonthsPaidFor
<1> SUFFICES ASSUME MonthsInv, NEW u \in Users
             PROVE  /\ charged[u] >= Covered(u)
                    /\ u \notin excused => charged[u] = Covered(u) + Unwritten(u)
  BY DEF MonthsPaidFor
<1>1. Covered(u) = Worth(sub, DueDates, u)
  BY CoveredIsWorth DEF MonthsInv
<1>2. PICK top \in [Subs -> Nat] : Covers(top)
  BY DEF MonthsInv
<1>3. Worth(sub, DueDates, u) <= Worth(sub, top, u)
  <2> DEFINE f == [s \in Subs |-> IF sub[s].user = u THEN DueDates[s] - sub[s].started ELSE 0]
             g == [s \in Subs |-> IF sub[s].user = u THEN top[s] - sub[s].started ELSE 0]
  <2>1. \A s \in Subs : sub[s].due \in Nat /\ sub[s].started \in Nat /\ sub[s].due <= top[s]
    BY <1>2, RowTyped DEF MonthsInv, PlusBase, PlusTypeOK, PlanRows, Covers
  <2>2. \A s \in Subs : f[s] \in Int /\ g[s] \in Int /\ f[s] <= g[s]
    BY <2>1 DEF DueDates
  <2>3. IsFiniteSet(Subs)
    BY SubscriptionConstants
  <2> HIDE DEF f, g
  <2>4. SumFunctionOnSet(f, Subs) <= SumFunctionOnSet(g, Subs)
    BY <2>2, <2>3, SumAtMost
  <2> QED
    BY <2>4 DEF Worth, f, g
<1>4. charged[u] >= Worth(sub, top, u) + Unwritten(u) /\ Unwritten(u) \in Nat
  BY <1>2, UnwrittenCounts DEF Covers
<1>5. DueDates \in [Subs -> Int]
  BY RowTyped DEF MonthsInv, PlusBase, PlusTypeOK, PlanRows, DueDates
<1>6. /\ Worth(sub, top, u) \in Int /\ Worth(sub, DueDates, u) \in Int /\ charged[u] \in Nat
  BY <1>5, WorthType DEF MonthsInv, PlusBase, PlusTypeOK
<1>7. u \notin excused => charged[u] = Worth(sub, DueDates, u) + Unwritten(u)
  BY DEF MonthsInv, Exact
<1> QED
  BY <1>1, <1>3, <1>4, <1>6, <1>7

-----------------------------------------------------------------------------
(* Of a user no two of whose calls overlapped, and whom the job did not    *)
(* mark past_due after a cancel: one clerk is at work on a subscription,   *)
(* and only while none is open.                                            *)
OneCall ==
  \A u \in Users \ crossed :
    /\ \A c, d \in Clerks : cuser[c] = u /\ cuser[d] = u => c = d
    /\ \A c \in Clerks, s \in Subs : cuser[c] = u /\ sub[s].user = u => sub[s].status \notin Open

PlanInv == PlusBase /\ OneCall /\ OnePlanEach

LEMMA PlanInit == PlusInit => PlanInv
<1> SUFFICES ASSUME PlusInit PROVE PlanInv
  OBVIOUS
<1>1. PlusBase /\ NoSub \notin Users
  BY PlusBaseInit, SubscriptionConstants
<1> QED
  BY <1>1 DEF PlusInit, PlanInv, OneCall, OnePlanEach, NoRow, Open

(* A step that opens no row and starts no call.                            *)
LEMMA PlanKept ==
  ASSUME PlanInv, PlusBase', crossed \subseteq crossed',
         \A c \in Clerks : cuser'[c] \in Users => cuser'[c] = cuser[c],
         \A s \in Subs : sub'[s].user \in Users \ crossed' /\ sub'[s].status \in Open
           => sub[s].user = sub'[s].user /\ sub[s].status \in Open
  PROVE  PlanInv'
<1>1. \A u \in Users \ crossed' : u \in Users \ crossed
  OBVIOUS
<1>2. \A u \in Users \ crossed' : \A s \in Subs :
        sub'[s].user = u /\ sub'[s].status \in Open => sub[s].user = u /\ sub[s].status \in Open
  OBVIOUS
<1>3. OnePlanEach'
  <2>1. SUFFICES ASSUME NEW u \in Users \ crossed', NEW s \in Subs, NEW t \in Subs,
                        sub'[s].user = u, sub'[s].status \in Open,
                        sub'[t].user = u, sub'[t].status \in Open
                 PROVE  s = t
    BY DEF OnePlanEach, Open
  <2> QED
    BY <1>1, <1>2, <2>1 DEF PlanInv, OnePlanEach
<1>4. OneCall'
  <2>1. SUFFICES ASSUME NEW u \in Users \ crossed'
                 PROVE  /\ \A c, d \in Clerks : cuser'[c] = u /\ cuser'[d] = u => c = d
                        /\ \A c \in Clerks, s \in Subs :
                             cuser'[c] = u /\ sub'[s].user = u => sub'[s].status \notin Open
    BY DEF OneCall, Open
  <2>2. \A c \in Clerks : cuser'[c] = u => cuser[c] = u
    OBVIOUS
  <2> QED
    BY <1>1, <1>2, <2>2 DEF PlanInv, OneCall
<1> QED
  BY <1>3, <1>4 DEF PlanInv

LEMMA PlanStep == PlanInv /\ [PlusNext]_<<wallets, plusVars>> => PlanInv'
<1> SUFFICES ASSUME PlanInv, [PlusNext]_<<wallets, plusVars>> PROVE PlanInv'
  OBVIOUS
<1>a. PlusBase /\ PlusTypeOK /\ AtWork /\ OneCall /\ OnePlanEach
  BY DEF PlanInv, PlusBase
<1>b. PlusBase'
  BY PlusBaseStep DEF PlanInv
<1>c. NoSub \notin Users
  BY SubscriptionConstants
<1>1. ASSUME UNCHANGED <<sub, crossed>>, \A c \in Clerks : cuser'[c] \in {cuser[c], NoSub}
      PROVE  PlanInv'
  BY <1>1, <1>b, <1>c, PlanKept
<1>2. CASE MonthPasses
  BY <1>1, <1>2 DEF MonthPasses, clerkVars, plusHistory
<1>3. ASSUME NEW u \in Users, TopUp(u) PROVE PlanInv'
  BY <1>1, <1>3 DEF TopUp, clerkVars, plusHistory
<1>4. ASSUME NEW c \in Clerks, SubscribePay(c) PROVE PlanInv'
  <2>1. /\ UNCHANGED <<sub, crossed>>
        /\ \E u \in {cuser[c], NoSub} : cuser' = [cuser EXCEPT ![c] = u]
    BY <1>4 DEF SubscribePay, Clerk, ClerkDone
  <2>2. \A d \in Clerks : cuser'[d] \in {cuser[d], NoSub}
    BY <1>a, <2>1 DEF PlusTypeOK
  <2> QED
    BY <1>1, <2>1, <2>2
<1>5. ASSUME NEW c \in Clerks, SubscribeInsert(c) PROVE PlanInv'
  <2>1. PICK s \in Subs :
           /\ sub[s] = NoRow /\ \A t \in Subs : t # s => sub'[t] = sub[t]
           /\ sub'[s] = [user |-> cuser[c], status |-> "active",
                         due |-> month + 1, started |-> month]
           /\ cuser[c] \in Users
    BY <1>5, <1>a, InsertRows
  <2>2. cuser' = [cuser EXCEPT ![c] = NoSub] /\ crossed' = crossed
    BY <1>5 DEF SubscribeInsert, ClerkDone, Clerk, plusHistory
  <2>3. \A d \in Clerks : cuser'[d] = IF d = c THEN NoSub ELSE cuser[d]
    BY <1>a, <2>2 DEF PlusTypeOK
  <2>4. sub'[s].user = cuser[c] /\ sub[s].user = NoSub
    BY <2>1 DEF NoRow
  <2>5. OneCall'
    <3>1. SUFFICES ASSUME NEW u \in Users \ crossed
                   PROVE  /\ \A d, e \in Clerks : cuser'[d] = u /\ cuser'[e] = u => d = e
                          /\ \A d \in Clerks, t \in Subs :
                               cuser'[d] = u /\ sub'[t].user = u => sub'[t].status \notin Open
      BY <2>2 DEF OneCall, Open
    <3>2. \A d \in Clerks : cuser'[d] = u => cuser[d] = u /\ d # c
      BY <1>c, <2>3
    <3>3. \A d \in Clerks : cuser'[d] = u => u # cuser[c]
      BY <1>a, <3>2 DEF OneCall
    <3>4. \A d \in Clerks, t \in Subs :
            cuser'[d] = u /\ sub'[t].user = u => sub'[t].status \notin Open
      BY <1>a, <2>1, <2>4, <3>2, <3>3 DEF OneCall
    <3> QED
      BY <1>a, <3>2, <3>4 DEF OneCall
  <2>6. OnePlanEach'
    <3>1. SUFFICES ASSUME NEW u \in Users \ crossed, NEW r \in Subs, NEW t \in Subs,
                          sub'[r].user = u, sub'[r].status \in Open,
                          sub'[t].user = u, sub'[t].status \in Open
                   PROVE  r = t
      BY <2>2 DEF OnePlanEach, Open
    <3>2. CASE u = cuser[c]
      <4>1. \A q \in Subs : sub[q].user = u => sub[q].status \notin Open
        BY <1>a, <3>2 DEF OneCall
      <4> QED
        BY <2>1, <3>1, <4>1
    <3>3. CASE u # cuser[c]
      <4>1. r # s /\ t # s
        BY <2>4, <3>1, <3>3
      <4>2. sub'[r] = sub[r] /\ sub'[t] = sub[t]
        BY <2>1, <4>1
      <4> QED
        BY <1>a, <3>1, <4>2 DEF OnePlanEach
    <3> QED
      BY <3>2, <3>3
  <2> QED
    BY <1>b, <2>5, <2>6 DEF PlanInv
<1>6. ASSUME NEW c \in Clerks, CancelWrite(c) PROVE PlanInv'
  <2>1. crossed' = crossed /\ cuser' = [cuser EXCEPT ![c] = NoSub]
    BY <1>6 DEF CancelWrite, ClerkDone, Clerk, plusHistory
  <2>2. \A d \in Clerks : cuser'[d] \in Users => cuser'[d] = cuser[d]
    BY <1>a, <1>c, <2>1 DEF PlusTypeOK
  <2>3. \A s \in Subs : sub'[s].status \in Open => sub'[s] = sub[s]
    BY <1>6, <1>a, CancelRows DEF Open
  <2> QED
    BY <1>b, <2>1, <2>2, <2>3, PlanKept
<1>7. ASSUME NEW c \in Clerks, ClerkFails(c) PROVE PlanInv'
  <2>1. /\ UNCHANGED <<sub, crossed>> /\ cuser' = [cuser EXCEPT ![c] = NoSub]
    BY <1>7 DEF ClerkFails, Clerk, ClerkDone
  <2>2. \A d \in Clerks : cuser'[d] \in {cuser[d], NoSub}
    BY <1>a, <2>1 DEF PlusTypeOK
  <2> QED
    BY <1>1, <2>1, <2>2
<1>8. ASSUME NEW c \in Clerks, NEW u \in Users, SubscribeRead(c, u) PROVE PlanInv'
  <2>1. /\ \A s \in Subs : ~(sub[s].user = u /\ sub[s].status \in Open)
        /\ cuser' = [cuser EXCEPT ![c] = u] /\ sub' = sub
        /\ crossed' = IF \E d \in Clerks : cuser[d] = u THEN crossed \cup {u} ELSE crossed
    BY <1>8 DEF SubscribeRead, Clerk
  <2>2. \A d \in Clerks : cuser'[d] = IF d = c THEN u ELSE cuser[d]
    BY <1>a, <2>1 DEF PlusTypeOK
  <2>3. crossed \subseteq crossed' /\ (u \notin crossed' => \A d \in Clerks : cuser[d] # u)
    BY <2>1
  <2>4. OneCall'
    <3>1. SUFFICES ASSUME NEW v \in Users \ crossed'
                   PROVE  /\ \A d, e \in Clerks : cuser'[d] = v /\ cuser'[e] = v => d = e
                          /\ \A d \in Clerks, t \in Subs :
                               cuser'[d] = v /\ sub[t].user = v => sub[t].status \notin Open
      BY <2>1 DEF OneCall, Open
    <3>2. CASE v = u
      BY <2>1, <2>2, <2>3, <3>2
    <3>3. CASE v # u
      BY <1>a, <2>2, <2>3, <3>3 DEF OneCall
    <3> QED
      BY <3>2, <3>3
  <2>5. OnePlanEach'
    BY <1>a, <2>1, <2>3 DEF OnePlanEach
  <2> QED
    BY <1>b, <2>4, <2>5 DEF PlanInv
<1>9. ASSUME NEW c \in Clerks, NEW s \in Subs, CancelRead(c, s) PROVE PlanInv'
  <2>1. UNCHANGED <<sub, crossed>> /\ cuser' = [cuser EXCEPT ![c] = NoSub]
    BY <1>9 DEF CancelRead, Clerk, plusHistory
  <2>2. \A d \in Clerks : cuser'[d] \in {cuser[d], NoSub}
    BY <1>a, <2>1 DEF PlusTypeOK
  <2> QED
    BY <1>1, <2>1, <2>2
<1>10. ASSUME NEW w \in Billers, BillScan(w) PROVE PlanInv'
  BY <1>1, <1>10 DEF BillScan, Scan, clerkVars
<1>11. ASSUME NEW w \in Billers, BillAdvance(w) PROVE PlanInv'
  <2>1. crossed' = crossed /\ cuser' = cuser
    BY <1>11 DEF BillAdvance, clerkVars, plusHistory
  <2>2. \A s \in Subs : sub'[s].user = sub[s].user /\ sub'[s].status = sub[s].status
    BY <1>11, <1>a, AdvanceRows DEF RowsKept
  <2> QED
    BY <1>b, <2>1, <2>2, PlanKept
<1>12. ASSUME NEW w \in Billers, NEW s \in Subs, BillPastDue(w, s) PROVE PlanInv'
  <2>1. /\ cuser' = cuser /\ s \in batch[w]
        /\ crossed' = IF sub[s].status = "cancelled" THEN crossed \cup {sub[s].user} ELSE crossed
    BY <1>12 DEF BillPastDue, clerkVars
  <2>2. /\ sub'[s].user = sub[s].user /\ sub[s] # NoRow
        /\ \A t \in Subs : t # s => sub'[t] = sub[t]
    BY <1>12, <1>a, PastDueRows DEF RowsKept
  <2>3. sub[s].status \in Open \cup {"cancelled"}
    BY <1>a, <2>2 DEF PlusTypeOK
  <2>4. sub'[s].user \in Users \ crossed' => sub[s].status \in Open
    BY <2>1, <2>2, <2>3
  <2> QED
    BY <1>b, <2>1, <2>2, <2>4, PlanKept
<1>13. ASSUME NEW w \in Billers, NEW s \in Subs, BillPay(w, s) PROVE PlanInv'
  BY <1>1, <1>13 DEF BillPay, clerkVars
<1>14. ASSUME NEW w \in Billers, BillFails(w) PROVE PlanInv'
  BY <1>1, <1>14 DEF BillFails, clerkVars
<1>15. CASE UNCHANGED <<wallets, plusVars>>
  BY <1>1, <1>15 DEF plusVars, clerkVars, plusHistory
<1> QED
  BY <1>2, <1>3, <1>4, <1>5, <1>6, <1>7, <1>8, <1>9, <1>10, <1>11, <1>12, <1>13, <1>14, <1>15
  DEF PlusNext, BillStep

(* Every month of Plus is paid for once, by the user who has it, and a     *)
(* user has one open subscription, with the exceptions the history names.  *)
THEOREM PlusIsAccounted == PlusSpec => []PlusAccounted
<1>1. MonthsInv /\ PlanInv => PlusAccounted
  BY MonthsInvImplies DEF PlanInv, PlusAccounted
<1> QED
  BY <1>1, MonthsInit, MonthsStep, PlanInit, PlanStep, PTL DEF PlusSpec

-----------------------------------------------------------------------------
(* A subscription that is cancelled and on no list of the job's is not     *)
(* written by any step, nor listed again.                                  *)
Settled(s) == sub[s].status = "cancelled" /\ ~Held(s)

LEMMA SettledKept ==
  ASSUME PlusBase, [PlusNext]_<<wallets, plusVars>>, NEW s \in Subs, Settled(s)
  PROVE  sub'[s] = sub[s] /\ ~Held(s)'
<1>a. PlusTypeOK /\ AtWork /\ sub[s].status = "cancelled" /\ \A w \in Billers : s \notin batch[w]
  BY DEF PlusBase, Settled, Held
<1>1. ASSUME sub'[s] = sub[s], \A w \in Billers : batch'[w] \in SUBSET batch[w]
      PROVE  sub'[s] = sub[s] /\ ~Held(s)'
  BY <1>1, <1>a DEF Held
<1>2. CASE MonthPasses
  BY <1>1, <1>2 DEF MonthPasses, billerVars
<1>3. ASSUME NEW u \in Users, TopUp(u) PROVE sub'[s] = sub[s] /\ ~Held(s)'
  BY <1>1, <1>3 DEF TopUp, billerVars
<1>4. ASSUME NEW c \in Clerks, \/ SubscribePay(c) \/ ClerkFails(c)
                               \/ \E u \in Users : SubscribeRead(c, u)
                               \/ \E t \in Subs : CancelRead(c, t)
      PROVE  sub'[s] = sub[s] /\ ~Held(s)'
  BY <1>1, <1>4 DEF SubscribePay, ClerkFails, SubscribeRead, CancelRead, billerVars
<1>5. ASSUME NEW c \in Clerks, SubscribeInsert(c) PROVE sub'[s] = sub[s] /\ ~Held(s)'
  <2>1. PICK t \in Subs : sub[t] = NoRow /\ \A r \in Subs : r # t => sub'[r] = sub[r]
    BY <1>5, InsertRows
  <2>2. t # s
    BY <1>a, <2>1 DEF NoRow
  <2> QED
    BY <1>1, <1>5, <2>1, <2>2 DEF SubscribeInsert, billerVars
<1>6. ASSUME NEW c \in Clerks, CancelWrite(c) PROVE sub'[s] = sub[s] /\ ~Held(s)'
  <2>1. sub'[s] = sub[s]
    BY <1>a, <1>6, CancelRows
  <2> QED
    BY <1>1, <1>6, <2>1 DEF CancelWrite, billerVars
<1>7. ASSUME NEW w \in Billers, BillScan(w) PROVE sub'[s] = sub[s] /\ ~Held(s)'
  BY <1>a, <1>7 DEF BillScan, Scan, Held, PlusTypeOK
<1>8. ASSUME NEW w \in Billers, NEW t \in Subs, BillPastDue(w, t)
      PROVE  sub'[s] = sub[s] /\ ~Held(s)'
  <2>1. t \in batch[w] /\ batch' = [batch EXCEPT ![w] = @ \ {t}]
    BY <1>8 DEF BillPastDue, BillDrop
  <2>2. sub'[s] = sub[s]
    BY <1>a, <1>8, <2>1, PastDueRows
  <2> QED
    BY <1>1, <1>a, <2>1, <2>2 DEF PlusTypeOK
<1>9. ASSUME NEW w \in Billers, NEW t \in Subs, BillPay(w, t) PROVE sub'[s] = sub[s] /\ ~Held(s)'
  BY <1>1, <1>9 DEF BillPay
<1>10. ASSUME NEW w \in Billers, BillAdvance(w) PROVE sub'[s] = sub[s] /\ ~Held(s)'
  <2>1. sub'[s] = sub[s]
    BY <1>a, <1>10, AdvanceRows
  <2>2. batch' = [batch EXCEPT ![w] = @ \ {bpc[w]}]
    BY <1>10 DEF BillAdvance, BillDrop
  <2> QED
    BY <1>1, <1>a, <2>1, <2>2 DEF PlusTypeOK
<1>11. ASSUME NEW w \in Billers, BillFails(w) PROVE sub'[s] = sub[s] /\ ~Held(s)'
  <2>1. sub' = sub /\ \E gone : batch' = [batch EXCEPT ![w] = @ \ gone]
    BY <1>11 DEF BillFails
  <2> QED
    BY <1>1, <1>a, <2>1 DEF PlusTypeOK
<1>12. CASE UNCHANGED <<wallets, plusVars>>
  BY <1>1, <1>12 DEF plusVars, billerVars
<1> QED
  BY <1>2, <1>3, <1>4, <1>5, <1>6, <1>7, <1>8, <1>9, <1>10, <1>11, <1>12 DEF PlusNext, BillStep

(* A cancelled subscription that no run of the job has listed is never     *)
(* changed, marked or charged again, for any number of rows and runs.      *)
THEOREM CancelledStays == PlusSpec => CancelledIsFinal
<1>1. PlusBase /\ [PlusNext]_<<wallets, plusVars>>
        => [\A s \in Subs : sub[s].status = "cancelled" /\ ~Held(s)
                            => sub'[s] = sub[s] /\ ~Held(s)']_<<wallets, plusVars>>
  BY SettledKept DEF Settled
<1> QED
  BY <1>1, PlusBaseInit, PlusBaseStep, PTL DEF PlusSpec, CancelledIsFinal

-----------------------------------------------------------------------------
(* Featured.                                                               *)

(* A handler at work has an event.                                         *)
Aimed == \A b \in Boosters : fpc[b] # "idle" => ffair[b] \in Fairs

ListingsOf(f) == {l \in Listings : l.fair = f}
Between(f)    == {b \in Boosters : fpc[b] = "listing" /\ ffair[b] = f}

PaidInv == FeaturedTypeOK /\ Aimed /\ ListedIffPaid

(* There are finitely many kinds of listing.                               *)
LEMMA ListingsFinite == IsFiniteSet(Listings)
<1> DEFINE D == (Fairs \X Tiers) \X (0..MaxDays)
           row == [d \in D |-> [fair |-> d[1][1], tier |-> d[1][2], from |-> d[2]]]
<1>1. IsFiniteSet(Fairs) /\ MaxDays \in Nat
  BY FeaturedConstants
<1>2. IsFiniteSet(Tiers)
  <2>1. IsFiniteSet({"boost"})
    BY FS_Singleton
  <2>2. Tiers = {"boost"} \cup {"city"}
    BY DEF Tiers
  <2> QED
    BY <2>1, <2>2, FS_AddElement
<1>3. IsFiniteSet(0..MaxDays)
  BY <1>1, FS_Interval
<1>4. IsFiniteSet(D)
  BY <1>1, <1>2, <1>3, FS_Product
<1>5. IsFiniteSet({row[d] : d \in D})
  <2>1. row \in Surjection(D, {row[d] : d \in D})
    BY DEF Surjection
  <2> HIDE DEF D, row
  <2> QED
    BY <1>4, <2>1, FS_Surjection
<1>6. Listings \subseteq {row[d] : d \in D}
  <2>1. SUFFICES ASSUME NEW l \in Listings PROVE \E d \in D : l = row[d]
    OBVIOUS
  <2>2. <<<<l.fair, l.tier>>, l.from>> \in D /\ l = row[<<<<l.fair, l.tier>>, l.from>>]
    BY DEF Listings
  <2> QED
    BY <2>2
<1> QED
  BY <1>5, <1>6, FS_Subset

(* A row more counts wherever its kind does.                               *)
LEMMA RowAdded ==
  ASSUME NEW rows \in [Listings -> Nat], NEW l \in Listings, NEW K \in SUBSET Listings,
         NEW more \in [Listings -> Nat], more[l] = rows[l] + 1,
         \A k \in Listings : k # l => more[k] = rows[k]
  PROVE  /\ SumFunctionOnSet(rows, K) \in Nat
         /\ SumFunctionOnSet(more, K) = SumFunctionOnSet(rows, K) + IF l \in K THEN 1 ELSE 0
<1>1. IsFiniteSet(K)
  BY ListingsFinite, FS_Subset
<1>2. \A k \in K : rows[k] \in Nat /\ more[k] \in Nat
  OBVIOUS
<1>3. SumFunctionOnSet(rows, K) \in Int
  BY <1>1, <1>2, SumType
<1>4. SumFunctionOnSet(rows, K) \in Nat
  BY <1>1, <1>2, SumOfNaturals
<1>5. CASE l \in K
  <2>1. SumFunctionOnSet(more, K) = SumFunctionOnSet(rows, K) + more[l] - rows[l]
    <3>1. \A k \in K : k # l => more[k] = rows[k]
      OBVIOUS
    <3>2. \A k \in K : rows[k] \in Int /\ more[k] \in Int
      BY <1>2
    <3> QED
      BY <1>1, <1>5, <3>1, <3>2, SumChange
  <2>2. rows[l] \in Int
    OBVIOUS
  <2> QED
    BY <1>4, <1>5, <2>1, <2>2
<1>6. CASE l \notin K
  <2>1. SumFunctionOnSet(more, K) = SumFunctionOnSet(rows, K)
    <3>1. \A k \in K : rows[k] = more[k]
      BY <1>6
    <3> QED
      BY <1>1, <3>1, SumSame
  <2> QED
    BY <1>4, <1>6, <2>1
<1> QED
  BY <1>5, <1>6

LEMMA PaidInit == FeaturedInit => PaidInv
<1> SUFFICES ASSUME FeaturedInit PROVE PaidInv
  OBVIOUS
<1>1. FeaturedTypeOK
  <2>1. 0 \in 0..MaxDays
    BY FeaturedConstants
  <2> QED
    BY <2>1 DEF FeaturedInit, FeaturedTypeOK, Tiers
<1>2. Aimed
  BY DEF FeaturedInit, Aimed
<1>3. ASSUME NEW f \in Fairs
      PROVE  bought[f] = RowsAmong(ListingsOf(f)) + lost[f] + Cardinality(Between(f))
  <2>1. IsFiniteSet(ListingsOf(f))
    BY ListingsFinite, FS_Subset DEF ListingsOf
  <2>2. RowsAmong(ListingsOf(f)) = 0
    BY <2>1, SumZero DEF RowsAmong, ListingsOf, FeaturedInit
  <2>3. Between(f) = {}
    BY DEF Between, FeaturedInit
  <2> QED
    BY <2>2, <2>3, FS_EmptySet DEF FeaturedInit
<1> QED
  BY <1>1, <1>2, <1>3 DEF PaidInv, ListedIffPaid, ListingsOf, Between

(* Where charges, rows and the handlers between the two are as they were.  *)
LEMMA PaidSame ==
  ASSUME ListedIffPaid, UNCHANGED <<listings, bought, lost>>,
         \A f \in Fairs : Between(f)' = Between(f)
  PROVE  ListedIffPaid'
BY DEF ListedIffPaid, Between, RowsAmong

LEMMA PaidStep == PaidInv /\ [FeaturedNext]_<<wallets, featuredVars>> => PaidInv'
<1> SUFFICES ASSUME PaidInv, [FeaturedNext]_<<wallets, featuredVars>> PROVE PaidInv'
  OBVIOUS
<1>a. IsFiniteSet(Boosters) /\ MaxDays \in Nat
  BY FeaturedConstants
<1>b. FeaturedTypeOK /\ Aimed /\ ListedIffPaid
  BY DEF PaidInv
<1>c. \A f \in Fairs : IsFiniteSet(Between(f)) /\ Cardinality(Between(f)) \in Nat
  BY <1>a, FS_Subset, FS_CardinalityType DEF Between
<1>d. \A f \in Fairs : RowsAmong(ListingsOf(f)) \in Nat
  <2>1. SUFFICES ASSUME NEW f \in Fairs PROVE RowsAmong(ListingsOf(f)) \in Nat
    OBVIOUS
  <2>2. IsFiniteSet(ListingsOf(f)) /\ \A l \in ListingsOf(f) : listings[l] \in Nat
    BY <1>b, ListingsFinite, FS_Subset DEF ListingsOf, FeaturedTypeOK
  <2> QED
    BY <2>2, SumOfNaturals DEF RowsAmong
<1>e. \A f \in Fairs :
        bought[f] = RowsAmong(ListingsOf(f)) + lost[f] + Cardinality(Between(f))
  BY <1>b DEF ListedIffPaid, ListingsOf, Between
<1>1. CASE DayPasses
  <2>1. FeaturedTypeOK' /\ Aimed'
    BY <1>1, <1>a, <1>b DEF DayPasses, FeaturedTypeOK, Aimed, boosterVars
  <2>2. ListedIffPaid'
    BY <1>1, <1>b, PaidSame DEF DayPasses, boosterVars, Between
  <2> QED
    BY <2>1, <2>2 DEF PaidInv
<1>2. ASSUME NEW u \in Users, FillPurse(u) PROVE PaidInv'
  <2>1. FeaturedTypeOK' /\ Aimed'
    BY <1>2, <1>b DEF FillPurse, FeaturedTypeOK, Aimed, featuredVars, boosterVars
  <2>2. ListedIffPaid'
    BY <1>2, <1>b, PaidSame DEF FillPurse, featuredVars, boosterVars, Between
  <2> QED
    BY <2>1, <2>2 DEF PaidInv
<1>3. ASSUME NEW b \in Boosters, BoostCap(b) PROVE PaidInv'
  <2>1. FeaturedTypeOK' /\ Aimed'
    BY <1>3, <1>b DEF BoostCap, BoostEnds, BoostTo, FeaturedTypeOK, Aimed, Tiers
  <2>2. \A f \in Fairs : Between(f)' = Between(f)
    BY <1>3, <1>b DEF BoostCap, BoostEnds, BoostTo, Between, FeaturedTypeOK
  <2>3. ListedIffPaid'
    BY <1>3, <1>b, <2>2, PaidSame DEF BoostCap
  <2> QED
    BY <2>1, <2>3 DEF PaidInv
<1>4. ASSUME NEW b \in Boosters, BoostPay(b) PROVE PaidInv'
  <2>1. ffair[b] \in Fairs
    BY <1>4, <1>b DEF BoostPay, Aimed
  <2>2. FeaturedTypeOK' /\ Aimed'
    BY <1>4, <1>b, <2>1 DEF BoostPay, BoostEnds, BoostTo, FeaturedTypeOK, Aimed, Tiers
  <2>3. CASE fpc'[b] = "listing"
    <3>1. /\ bought' = [bought EXCEPT ![ffair[b]] = @ + 1]
          /\ UNCHANGED <<listings, lost>>
          /\ fpc' = [fpc EXCEPT ![b] = "listing"] /\ ffair'[b] = ffair[b]
          /\ \A d \in Boosters : d # b => ffair'[d] = ffair[d]
          /\ fpc[b] = "paying"
      BY <1>4, <1>b, <2>3 DEF BoostPay, BoostEnds, BoostTo, FeaturedTypeOK
    <3>2. SUFFICES ASSUME NEW f \in Fairs
                   PROVE  bought'[f] = RowsAmong(ListingsOf(f))' + lost'[f]
                                         + Cardinality(Between(f)')
      BY <2>2 DEF PaidInv, ListedIffPaid, ListingsOf, Between
    <3>3. RowsAmong(ListingsOf(f))' = RowsAmong(ListingsOf(f))
      BY <3>1 DEF RowsAmong, ListingsOf
    <3>4. CASE f = ffair[b]
      <4>1. Between(f)' = Between(f) \cup {b} /\ b \notin Between(f)
        BY <1>b, <3>1, <3>4 DEF Between, FeaturedTypeOK
      <4>2. Cardinality(Between(f)') = Cardinality(Between(f)) + 1
        BY <1>c, <4>1, FS_AddElement
      <4>3. bought'[f] = bought[f] + 1 /\ lost[f] \in Nat
        BY <1>b, <3>1, <3>4 DEF FeaturedTypeOK
      <4> QED
        BY <1>c, <1>d, <1>e, <3>1, <3>3, <4>2, <4>3
    <3>5. CASE f # ffair[b]
      <4>1. Between(f)' = Between(f) /\ bought'[f] = bought[f]
        BY <1>b, <3>1, <3>5 DEF Between, FeaturedTypeOK
      <4> QED
        BY <1>e, <3>1, <3>3, <4>1
    <3> QED
      BY <3>4, <3>5
  <2>4. CASE fpc'[b] # "listing"
    <3>1. UNCHANGED <<listings, bought, lost>>
      BY <1>4, <1>b, <2>4 DEF BoostPay, BoostTo, FeaturedTypeOK
    <3>2. \A f \in Fairs : Between(f)' = Between(f)
      BY <1>4, <1>b, <2>4 DEF BoostPay, BoostEnds, BoostTo, Between, FeaturedTypeOK
    <3> QED
      BY <1>b, <2>2, <3>1, <3>2, PaidSame DEF PaidInv
  <2> QED
    BY <2>3, <2>4
<1>5. ASSUME NEW b \in Boosters, BoostList(b) PROVE PaidInv'
  <2> DEFINE l == [fair |-> ffair[b], tier |-> ftier[b], from |-> today]
  <2>1. ffair[b] \in Fairs
    BY <1>5, <1>b DEF BoostList, Aimed
  <2>2. l \in Listings
    BY <1>b, <2>1 DEF Listings, FeaturedTypeOK
  <2>3. FeaturedTypeOK' /\ Aimed'
    BY <1>5, <1>b, <2>2 DEF BoostList, BoostEnds, BoostTo, FeaturedTypeOK, Aimed, Tiers
  <2>4. /\ listings' = [listings EXCEPT ![l] = @ + 1] /\ UNCHANGED <<bought, lost>>
        /\ fpc[b] = "listing" /\ fpc' = [fpc EXCEPT ![b] = "idle"]
        /\ \A d \in Boosters : d # b => ffair'[d] = ffair[d]
    BY <1>5, <1>b DEF BoostList, BoostEnds, BoostTo, FeaturedTypeOK
  <2>5. SUFFICES ASSUME NEW f \in Fairs
                 PROVE  bought'[f] = RowsAmong(ListingsOf(f))' + lost'[f]
                                       + Cardinality(Between(f)')
    BY <2>3 DEF PaidInv, ListedIffPaid, ListingsOf, Between
  <2>6. RowsAmong(ListingsOf(f))'
          = RowsAmong(ListingsOf(f)) + IF l \in ListingsOf(f) THEN 1 ELSE 0
    <3>1. ListingsOf(f) \in SUBSET Listings /\ listings \in [Listings -> Nat]
      BY <1>b DEF ListingsOf, FeaturedTypeOK
    <3> HIDE DEF l
    <3>a. /\ listings' \in [Listings -> Nat] /\ listings'[l] = listings[l] + 1
          /\ \A k \in Listings : k # l => listings'[k] = listings[k]
      BY <2>2, <2>4, <3>1
    <3>2. SumFunctionOnSet(listings', ListingsOf(f))
            = SumFunctionOnSet(listings, ListingsOf(f)) + IF l \in ListingsOf(f) THEN 1 ELSE 0
      BY <2>2, <3>a, <3>1, RowAdded
    <3> QED
      BY <3>2 DEF RowsAmong, ListingsOf
  <2>7. lost[f] \in Nat
    BY <1>b DEF FeaturedTypeOK
  <2>8. CASE f = ffair[b]
    <3>1. Between(f)' = Between(f) \ {b} /\ b \in Between(f)
      BY <1>b, <2>4, <2>8 DEF Between, FeaturedTypeOK
    <3>2. Cardinality(Between(f)') = Cardinality(Between(f)) - 1
      BY <1>c, <3>1, FS_RemoveElement
    <3>3. l \in ListingsOf(f)
      BY <2>2, <2>8 DEF ListingsOf
    <3>4. RowsAmong(ListingsOf(f))' = RowsAmong(ListingsOf(f)) + 1
      BY <2>6, <3>3
    <3> QED
      BY <1>c, <1>d, <1>e, <2>4, <2>7, <3>2, <3>4
  <2>9. CASE f # ffair[b]
    <3>1. Between(f)' = Between(f)
      BY <1>b, <2>4, <2>9 DEF Between, FeaturedTypeOK
    <3>2. l \notin ListingsOf(f)
      BY <2>9 DEF ListingsOf
    <3>3. RowsAmong(ListingsOf(f))' = RowsAmong(ListingsOf(f))
      BY <1>d, <2>6, <3>2
    <3> QED
      BY <1>e, <2>4, <3>1, <3>3
  <2> QED
    BY <2>8, <2>9
<1>6. ASSUME NEW b \in Boosters, BoostFails(b) PROVE PaidInv'
  <2>1. ffair[b] \in Fairs
    BY <1>6, <1>b DEF BoostFails, Working, Aimed
  <2>2. FeaturedTypeOK' /\ Aimed'
    BY <1>6, <1>b, <2>1 DEF BoostFails, BoostEnds, BoostTo, FeaturedTypeOK, Aimed, Tiers
  <2>3. /\ UNCHANGED <<listings, bought>> /\ fpc' = [fpc EXCEPT ![b] = "idle"]
        /\ lost' = IF fpc[b] = "listing" THEN [lost EXCEPT ![ffair[b]] = @ + 1] ELSE lost
        /\ \A d \in Boosters : d # b => ffair'[d] = ffair[d]
    BY <1>6, <1>b DEF BoostFails, BoostEnds, BoostTo, FeaturedTypeOK
  <2>4. SUFFICES ASSUME NEW f \in Fairs
                 PROVE  bought'[f] = RowsAmong(ListingsOf(f))' + lost'[f]
                                       + Cardinality(Between(f)')
    BY <2>2 DEF PaidInv, ListedIffPaid, ListingsOf, Between
  <2>5. RowsAmong(ListingsOf(f))' = RowsAmong(ListingsOf(f))
    BY <2>3 DEF RowsAmong, ListingsOf
  <2>6. CASE f = ffair[b] /\ fpc[b] = "listing"
    <3>1. Between(f)' = Between(f) \ {b} /\ b \in Between(f)
      BY <1>b, <2>3, <2>6 DEF Between, FeaturedTypeOK
    <3>2. Cardinality(Between(f)') = Cardinality(Between(f)) - 1
      BY <1>c, <3>1, FS_RemoveElement
    <3>3. lost'[f] = lost[f] + 1 /\ lost[f] \in Nat
      BY <1>b, <2>3, <2>6 DEF FeaturedTypeOK
    <3> QED
      BY <1>c, <1>d, <1>e, <2>3, <2>5, <3>2, <3>3
  <2>7. CASE ~(f = ffair[b] /\ fpc[b] = "listing")
    <3>1. Between(f)' = Between(f) /\ lost'[f] = lost[f]
      BY <1>b, <2>1, <2>3, <2>7 DEF Between, FeaturedTypeOK
    <3> QED
      BY <1>e, <2>3, <2>5, <3>1
  <2> QED
    BY <2>6, <2>7
<1>7. ASSUME NEW b \in Boosters, NEW f \in Fairs, NEW t \in Tiers, BoostRead(b, f, t)
      PROVE  PaidInv'
  <2>1. FeaturedTypeOK' /\ Aimed'
    BY <1>7, <1>b DEF BoostRead, BoostTo, FeaturedTypeOK, Aimed, Working
  <2>2. \A g \in Fairs : Between(g)' = Between(g)
    BY <1>7, <1>b DEF BoostRead, BoostTo, Between, FeaturedTypeOK
  <2>3. ListedIffPaid'
    BY <1>7, <1>b, <2>2, PaidSame DEF BoostRead
  <2> QED
    BY <2>1, <2>3 DEF PaidInv
<1>8. CASE UNCHANGED <<wallets, featuredVars>>
  <2>1. FeaturedTypeOK' /\ Aimed'
    BY <1>8, <1>b DEF featuredVars, boosterVars, FeaturedTypeOK, Aimed
  <2>2. ListedIffPaid'
    BY <1>8, <1>b, PaidSame DEF featuredVars, boosterVars, Between
  <2> QED
    BY <2>1, <2>2 DEF PaidInv
<1> QED
  BY <1>1, <1>2, <1>3, <1>4, <1>5, <1>6, <1>7, <1>8 DEF FeaturedNext

(* Each charge for a featured listing has its row, and each row its        *)
(* charge, but for a handler still between the two, or lost there.         *)
THEOREM ListedAsPaid == FeaturedSpec => []ListedIffPaid
<1>1. PaidInv => ListedIffPaid
  BY DEF PaidInv
<1> QED
  BY <1>1, PaidInit, PaidStep, PTL DEF FeaturedSpec

(* Nothing is listed from a day to come.                                   *)
NoneAhead == \A l \in Listings : l.from > today => listings[l] = 0

(* Of calls that do not overlap each other or midnight: one is at work; its*)
(* event has no active listing still, and from the payment on its tier is  *)
(* not capped still.                                                       *)
Unrushed ==
  ~rushed =>
    /\ \A b, d \in Boosters : Working(b) /\ Working(d) => b = d
    /\ \A b \in Boosters : Working(b) => ActiveFor(ffair[b]) = 0
    /\ \A b \in Boosters :
         fpc[b] \in {"paying", "listing"} => ~Capped(ffair[b], ftier[b])

CapsInv == PaidInv /\ NoneAhead /\ Unrushed /\ CapsHold

ActiveRows(f)  == {l \in Listings : l.fair = f /\ l.from + TierDays[l.tier] > today}
CityRows(f)    == {l \in StartingToday : l.tier = "city" /\ City[l.fair] = City[f]}
SocietyRows(f) == {l \in StartingToday : l.tier # "city" /\ Society[l.fair] = Society[f]}

(* The kinds of listing the three counts run over.                         *)
LEMMA CountedRows ==
  /\ \A f : /\ ActiveRows(f) \in SUBSET Listings /\ CityRows(f) \in SUBSET Listings
            /\ SocietyRows(f) \in SUBSET Listings
            /\ ActiveFor(f) = SumFunctionOnSet(listings, ActiveRows(f))
            /\ CityToday(f) = SumFunctionOnSet(listings, CityRows(f))
            /\ SocietyToday(f) = SumFunctionOnSet(listings, SocietyRows(f))
  /\ \A f : /\ ActiveFor(f)' = SumFunctionOnSet(listings', ActiveRows(f)')
            /\ CityToday(f)' = SumFunctionOnSet(listings', CityRows(f)')
            /\ SocietyToday(f)' = SumFunctionOnSet(listings', SocietyRows(f)')
BY DEF ActiveRows, CityRows, SocietyRows, StartingToday, ActiveFor, CityToday,
       SocietyToday, RowsAmong

LEMMA CapsInit == FeaturedInit => CapsInv
<1> SUFFICES ASSUME FeaturedInit PROVE CapsInv
  OBVIOUS
<1>1. PaidInv
  BY PaidInit
<1>2. NoneAhead /\ Unrushed
  BY DEF FeaturedInit, NoneAhead, Unrushed, Working
<1>3. \A K \in SUBSET Listings : SumFunctionOnSet(listings, K) = 0
  <2>1. SUFFICES ASSUME NEW K \in SUBSET Listings PROVE SumFunctionOnSet(listings, K) = 0
    OBVIOUS
  <2>2. IsFiniteSet(K) /\ \A l \in K : listings[l] = 0
    BY ListingsFinite, FS_Subset DEF FeaturedInit
  <2> QED
    BY <2>2, SumZero
<1>4. SocietyCap \in Nat
  BY FeaturedConstants
<1>5. CapsHold
  BY <1>3, <1>4, CountedRows DEF CapsHold
<1> QED
  BY <1>1, <1>2, <1>5 DEF CapsInv

(* A step that lists nothing on the same day, starts no call, and lets one *)
(* go on to pay only if it is not capped.                                  *)
LEMMA CapsSame ==
  ASSUME NoneAhead, Unrushed, CapsHold, UNCHANGED <<listings, today, rushed>>,
         \A b \in Boosters : fpc'[b] # "idle" =>
           /\ fpc[b] # "idle" /\ ffair'[b] = ffair[b] /\ ftier'[b] = ftier[b]
           /\ \/ fpc'[b] = "capping"
              \/ fpc[b] \in {"paying", "listing"}
              \/ ~Capped(ffair[b], ftier[b])
  PROVE  NoneAhead' /\ Unrushed' /\ CapsHold'
<1>1. NoneAhead'
  BY DEF NoneAhead
<1>2. \A f : /\ ActiveFor(f)' = ActiveFor(f) /\ CityToday(f)' = CityToday(f)
             /\ SocietyToday(f)' = SocietyToday(f)
  BY DEF ActiveFor, CityToday, SocietyToday, StartingToday, RowsAmong
<1>3. \A f, t : Capped(f, t)' <=> Capped(f, t)
  BY <1>2 DEF Capped
<1>4. CapsHold'
  BY <1>2 DEF CapsHold
<1>5. Unrushed'
  <2>1. SUFFICES ASSUME ~rushed
                 PROVE  /\ \A b, d \in Boosters : Working(b)' /\ Working(d)' => b = d
                        /\ \A b \in Boosters : Working(b)' => ActiveFor(ffair[b])' = 0
                        /\ \A b \in Boosters : fpc'[b] \in {"paying", "listing"}
                             => ~Capped(ffair[b], ftier[b])'
    BY DEF Unrushed
  <2>2. ASSUME NEW b \in Boosters, Working(b)' PROVE Working(b) /\ ActiveFor(ffair[b])' = 0
    <3>1. Working(b) /\ ffair'[b] = ffair[b]
      BY <2>2 DEF Working
    <3>2. ActiveFor(ffair[b]) = 0
      BY <2>1, <3>1 DEF Unrushed
    <3> QED
      BY <3>1, <3>2 DEF ActiveFor, RowsAmong
  <2>3. ASSUME NEW b \in Boosters, fpc'[b] \in {"paying", "listing"}
        PROVE  ~Capped(ffair[b], ftier[b])'
    <3>1. ffair'[b] = ffair[b] /\ ftier'[b] = ftier[b]
      BY <2>3
    <3>2. ~Capped(ffair[b], ftier[b])
      BY <2>1, <2>3 DEF Unrushed
    <3> QED
      BY <3>1, <3>2 DEF Capped, CityToday, SocietyToday, StartingToday, RowsAmong
  <2>4. \A b, d \in Boosters : Working(b)' /\ Working(d)' => b = d
    BY <2>1, <2>2 DEF Unrushed
  <2> QED
    BY <2>2, <2>3, <2>4
<1> QED
  BY <1>1, <1>4, <1>5
(* A listing counts from the day it starts on.                             *)
LEMMA CapsListed ==
  ASSUME CapsInv, NEW b \in Boosters, BoostList(b), PaidInv'
  PROVE  NoneAhead' /\ Unrushed' /\ CapsHold'
<1> DEFINE f == ffair[b]
           l == [fair |-> f, tier |-> ftier[b], from |-> today]
<1>1. FeaturedTypeOK /\ FeaturedTypeOK' /\ f \in Fairs /\ ftier[b] \in Tiers
  BY DEF CapsInv, PaidInv, FeaturedTypeOK, Aimed, BoostList
<1>2. l \in Listings
  BY <1>1 DEF Listings, FeaturedTypeOK
<1>3. /\ listings' \in [Listings -> Nat] /\ listings'[l] = listings[l] + 1
      /\ \A k \in Listings : k # l => listings'[k] = listings[k]
  BY <1>1, <1>2 DEF BoostList, FeaturedTypeOK
<1>4. /\ fpc[b] = "listing" /\ fpc' = [fpc EXCEPT ![b] = "idle"]
      /\ UNCHANGED <<today, rushed>>
  BY DEF BoostList, BoostEnds, BoostTo
<1>5. /\ l.from = today /\ l.fair = f /\ l.tier = ftier[b]
      /\ TierDays[ftier[b]] \in Nat \ {0} /\ today \in Nat
  BY <1>1, FeaturedConstants DEF FeaturedTypeOK
<1> HIDE DEF f, l
<1>6. \A K \in SUBSET Listings :
        /\ SumFunctionOnSet(listings, K) \in Nat
        /\ SumFunctionOnSet(listings', K)
             = SumFunctionOnSet(listings, K) + IF l \in K THEN 1 ELSE 0
  BY <1>1, <1>2, <1>3, RowAdded DEF FeaturedTypeOK
<1>7. \A g : /\ ActiveRows(g)' = ActiveRows(g) /\ CityRows(g)' = CityRows(g)
             /\ SocietyRows(g)' = SocietyRows(g)
  BY <1>4 DEF ActiveRows, CityRows, SocietyRows, StartingToday
<1>8. NoneAhead'
  BY <1>1, <1>3, <1>4, <1>5 DEF CapsInv, NoneAhead
<1>9. ASSUME ~rushed' PROVE \A d \in Boosters : ~Working(d)'
  <2>1. \A d \in Boosters : Working(d) => d = b
    BY <1>4, <1>9 DEF CapsInv, Unrushed, Working
  <2> QED
    BY <1>1, <1>4, <2>1 DEF Working, FeaturedTypeOK
<1>10. Unrushed'
  BY <1>9 DEF Unrushed, Working
<1>11. ASSUME ~rushed' PROVE
         /\ \A g \in Fairs : ActiveFor(g)' <= 1
         /\ \A g \in Fairs : Society[g] # NoFair
              => CityToday(g)' <= 1 /\ SocietyToday(g)' <= SocietyCap
  <2>1. /\ ActiveFor(f) = 0 /\ ~Capped(f, ftier[b])
        /\ \A g \in Fairs : ActiveFor(g) <= 1
        /\ \A g \in Fairs : Society[g] # NoFair
              => CityToday(g) <= 1 /\ SocietyToday(g) <= SocietyCap
    BY <1>1, <1>4, <1>11 DEF CapsInv, CapsHold, Unrushed, Working, f
  <2>2. \A g : /\ ActiveFor(g) \in Nat /\ CityToday(g) \in Nat /\ SocietyToday(g) \in Nat
    BY <1>6, CountedRows
  <2>3. \A g : /\ ActiveFor(g)' = ActiveFor(g) + IF l \in ActiveRows(g) THEN 1 ELSE 0
               /\ CityToday(g)' = CityToday(g) + IF l \in CityRows(g) THEN 1 ELSE 0
               /\ SocietyToday(g)' = SocietyToday(g) + IF l \in SocietyRows(g) THEN 1 ELSE 0
    BY <1>6, <1>7, CountedRows
  <2>4. \A g \in Fairs : ActiveFor(g)' <= 1
    <3>1. \A g \in Fairs : l \in ActiveRows(g) => g = f
      BY <1>5 DEF ActiveRows
    <3> QED
      BY <2>1, <2>2, <2>3, <3>1
  <2>5. ASSUME NEW g \in Fairs, Society[g] # NoFair
        PROVE  CityToday(g)' <= 1
    <3>1. CASE l \in CityRows(g)
      <4>1. ftier[b] = "city" /\ City[f] = City[g]
        BY <1>5, <3>1 DEF CityRows
      <4>2. Society[f] # NoFair
        BY <1>1, <2>5, <4>1, FeaturedConstants
      <4>3. CityToday(f) = CityToday(g)
        BY <4>1 DEF CityToday
      <4>4. ~(CityToday(f) >= 1)
        BY <2>1, <4>1, <4>2 DEF Capped
      <4> QED
        BY <2>2, <2>3, <3>1, <4>3, <4>4
    <3>2. CASE l \notin CityRows(g)
      BY <2>1, <2>2, <2>3, <2>5, <3>2
    <3> QED
      BY <3>1, <3>2
  <2>6. ASSUME NEW g \in Fairs, Society[g] # NoFair
        PROVE  SocietyToday(g)' <= SocietyCap
    <3>a. SocietyCap \in Nat
      BY FeaturedConstants
    <3>1. CASE l \in SocietyRows(g)
      <4>1. ftier[b] # "city" /\ Society[f] = Society[g]
        BY <1>5, <3>1 DEF SocietyRows
      <4>2. SocietyToday(f) = SocietyToday(g)
        BY <4>1 DEF SocietyToday
      <4>3. ~(SocietyToday(f) >= SocietyCap)
        BY <2>1, <2>6, <4>1 DEF Capped
      <4> QED
        BY <2>2, <2>3, <3>a, <3>1, <4>2, <4>3
    <3>2. CASE l \notin SocietyRows(g)
      BY <2>1, <2>2, <2>3, <2>6, <3>2
    <3> QED
      BY <3>1, <3>2
  <2> QED
    BY <2>4, <2>5, <2>6
<1>12. CapsHold'
  BY <1>11 DEF CapsHold
<1> QED
  BY <1>8, <1>10, <1>12

(* A new day has no listings of its own, and no more active ones.          *)
LEMMA CapsNewDay ==
  ASSUME CapsInv, DayPasses
  PROVE  NoneAhead' /\ Unrushed' /\ CapsHold'
<1>1. /\ today' = today + 1 /\ today \in Nat /\ listings' = listings
      /\ listings \in [Listings -> Nat] /\ fpc' = fpc
      /\ rushed' = (rushed \/ \E b \in Boosters : Working(b))
  BY FeaturedConstants DEF CapsInv, PaidInv, FeaturedTypeOK, DayPasses, boosterVars
<1>2. \A l \in Listings : l.from \in Nat /\ TierDays[l.tier] \in Nat
  BY FeaturedConstants DEF Listings
<1>3. NoneAhead'
  BY <1>1, <1>2 DEF CapsInv, NoneAhead
<1>4. Unrushed'
  BY <1>1 DEF Unrushed, Working
<1>5. CapsHold'
  <2>1. SUFFICES ASSUME ~rushed' PROVE
          /\ \A g \in Fairs : ActiveFor(g)' <= 1
          /\ \A g \in Fairs : Society[g] # NoFair
               => CityToday(g)' <= 1 /\ SocietyToday(g)' <= SocietyCap
    BY DEF CapsHold
  <2>2. \A g \in Fairs : ActiveFor(g) <= 1
    BY <1>1, <2>1 DEF CapsInv, CapsHold
  <2>3. \A g : /\ ActiveFor(g) = SumFunctionOnSet(listings, ActiveRows(g))
               /\ ActiveRows(g) \in SUBSET Listings
               /\ ActiveFor(g)' = SumFunctionOnSet(listings, ActiveRows(g)')
               /\ CityToday(g)' = SumFunctionOnSet(listings, CityRows(g)')
               /\ SocietyToday(g)' = SumFunctionOnSet(listings, SocietyRows(g)')
    BY <1>1, CountedRows
  <2>4. ASSUME NEW g \in Fairs PROVE ActiveFor(g)' <= 1
    <3>1. ActiveRows(g)' \in SUBSET ActiveRows(g)
      BY <1>1, <1>2 DEF ActiveRows
    <3>2. IsFiniteSet(ActiveRows(g)) /\ \A l \in ActiveRows(g) : listings[l] \in Nat
      BY <1>1, ListingsFinite, FS_Subset DEF ActiveRows
    <3>3. SumFunctionOnSet(listings, ActiveRows(g)') <= SumFunctionOnSet(listings, ActiveRows(g))
      BY <3>1, <3>2, SumSubset
    <3>4. ActiveFor(g) <= 1 /\ ActiveFor(g)' <= ActiveFor(g)
      BY <2>2, <2>3, <3>3
    <3>5. ActiveFor(g) \in Nat /\ ActiveFor(g)' \in Nat
      <4>1. IsFiniteSet(ActiveRows(g)') /\ \A l \in ActiveRows(g)' : listings[l] \in Nat
        BY <3>1, <3>2, FS_Subset
      <4> QED
        BY <2>3, <3>2, <4>1, SumOfNaturals
    <3> QED
      BY <3>4, <3>5
  <2>5. ASSUME NEW K, K \subseteq {l \in Listings : l.from = today'}
        PROVE  SumFunctionOnSet(listings, K) = 0
    <3>1. IsFiniteSet(K)
      BY <2>5, ListingsFinite, FS_Subset
    <3>2. \A l \in K : listings[l] = 0
      BY <1>1, <1>2, <2>5 DEF CapsInv, NoneAhead
    <3> QED
      BY <3>1, <3>2, SumZero
  <2>6. \A g : CityToday(g)' = 0 /\ SocietyToday(g)' = 0
    <3>1. \A g : /\ CityRows(g)' \subseteq {l \in Listings : l.from = today'}
                 /\ SocietyRows(g)' \subseteq {l \in Listings : l.from = today'}
      BY DEF CityRows, SocietyRows, StartingToday
    <3> QED
      BY <2>3, <2>5, <3>1
  <2>7. SocietyCap \in Nat
    BY FeaturedConstants
  <2> QED
    BY <2>4, <2>6, <2>7
<1> QED
  BY <1>3, <1>4, <1>5

LEMMA CapsStep == CapsInv /\ [FeaturedNext]_<<wallets, featuredVars>> => CapsInv'
<1> SUFFICES ASSUME CapsInv, [FeaturedNext]_<<wallets, featuredVars>> PROVE CapsInv'
  OBVIOUS
<1>a. PaidInv'
  BY PaidStep DEF CapsInv
<1>b. FeaturedTypeOK /\ NoneAhead /\ Unrushed /\ CapsHold
  BY DEF CapsInv, PaidInv
<1>c. SUFFICES NoneAhead' /\ Unrushed' /\ CapsHold'
  BY <1>a DEF CapsInv
<1>1. CASE DayPasses
  BY <1>1, CapsNewDay
<1>2. ASSUME NEW u \in Users, FillPurse(u) PROVE NoneAhead' /\ Unrushed' /\ CapsHold'
  <2>1. UNCHANGED <<listings, today, rushed, fpc, ffair, ftier>>
    BY <1>2 DEF FillPurse, featuredVars, boosterVars
  <2>2. \A b \in Boosters : fpc[b] \in {"idle", "capping", "paying", "listing"}
    BY <1>b DEF FeaturedTypeOK
  <2> QED
    BY <1>b, <2>1, <2>2, CapsSame
<1>3. ASSUME NEW b \in Boosters, BoostCap(b) PROVE NoneAhead' /\ Unrushed' /\ CapsHold'
  <2>1. /\ UNCHANGED <<listings, today, rushed>>
        /\ \A d \in Boosters : d # b =>
             fpc'[d] = fpc[d] /\ ffair'[d] = ffair[d] /\ ftier'[d] = ftier[d]
        /\ fpc[b] = "capping"
        /\ fpc'[b] # "idle" =>
             ~Capped(ffair[b], ftier[b]) /\ ffair'[b] = ffair[b] /\ ftier'[b] = ftier[b]
    BY <1>3, <1>b DEF BoostCap, BoostEnds, BoostTo, FeaturedTypeOK
  <2>2. \A d \in Boosters : fpc[d] \in {"idle", "capping", "paying", "listing"}
    BY <1>b DEF FeaturedTypeOK
  <2> QED
    BY <1>b, <2>1, <2>2, CapsSame
<1>4. ASSUME NEW b \in Boosters, BoostPay(b) PROVE NoneAhead' /\ Unrushed' /\ CapsHold'
  <2>1. /\ UNCHANGED <<listings, today, rushed>>
        /\ \A d \in Boosters : d # b =>
             fpc'[d] = fpc[d] /\ ffair'[d] = ffair[d] /\ ftier'[d] = ftier[d]
        /\ fpc[b] = "paying"
        /\ fpc'[b] # "idle" => ffair'[b] = ffair[b] /\ ftier'[b] = ftier[b]
    BY <1>4, <1>b DEF BoostPay, BoostEnds, BoostTo, FeaturedTypeOK
  <2>2. \A d \in Boosters : fpc[d] \in {"idle", "capping", "paying", "listing"}
    BY <1>b DEF FeaturedTypeOK
  <2> QED
    BY <1>b, <2>1, <2>2, CapsSame
<1>5. ASSUME NEW b \in Boosters, BoostList(b) PROVE NoneAhead' /\ Unrushed' /\ CapsHold'
  BY <1>5, <1>a, CapsListed
<1>6. ASSUME NEW b \in Boosters, BoostFails(b) PROVE NoneAhead' /\ Unrushed' /\ CapsHold'
  <2>1. /\ UNCHANGED <<listings, today, rushed>> /\ fpc'[b] = "idle"
        /\ \A d \in Boosters : d # b =>
             fpc'[d] = fpc[d] /\ ffair'[d] = ffair[d] /\ ftier'[d] = ftier[d]
    BY <1>6, <1>b DEF BoostFails, BoostEnds, BoostTo, FeaturedTypeOK
  <2>2. \A d \in Boosters : fpc[d] \in {"idle", "capping", "paying", "listing"}
    BY <1>b DEF FeaturedTypeOK
  <2> QED
    BY <1>b, <2>1, <2>2, CapsSame
<1>7. ASSUME NEW b \in Boosters, NEW f \in Fairs, NEW t \in Tiers, BoostRead(b, f, t)
      PROVE  NoneAhead' /\ Unrushed' /\ CapsHold'
  <2>1. /\ UNCHANGED <<listings, today>> /\ ActiveFor(f) = 0
        /\ fpc' = [fpc EXCEPT ![b] = "capping"] /\ ffair' = [ffair EXCEPT ![b] = f]
        /\ rushed' = (rushed \/ \E d \in Boosters : Working(d))
    BY <1>7 DEF BoostRead, BoostTo
  <2>2. NoneAhead'
    BY <1>b, <2>1 DEF NoneAhead
  <2>3. \A g : /\ ActiveFor(g)' = ActiveFor(g) /\ CityToday(g)' = CityToday(g)
               /\ SocietyToday(g)' = SocietyToday(g)
    BY <2>1 DEF ActiveFor, CityToday, SocietyToday, StartingToday, RowsAmong
  <2>4. CapsHold'
    BY <1>b, <2>1, <2>3 DEF CapsHold
  <2>5. Unrushed'
    <3>1. SUFFICES ASSUME ~rushed'
                   PROVE  /\ \A c, d \in Boosters : Working(c)' /\ Working(d)' => c = d
                          /\ \A d \in Boosters : Working(d)' => ActiveFor(ffair[d])' = 0
                          /\ \A d \in Boosters : fpc'[d] \notin {"paying", "listing"}
      BY DEF Unrushed
    <3>2. \A d \in Boosters : fpc[d] = "idle"
      BY <2>1, <3>1 DEF Working
    <3>3. \A d \in Boosters : fpc'[d] # "idle" => d = b /\ fpc'[d] = "capping"
      BY <1>b, <2>1, <3>2 DEF FeaturedTypeOK
    <3>4. ffair'[b] = f
      BY <1>b, <2>1 DEF FeaturedTypeOK
    <3>5. ActiveFor(ffair[b])' = 0
      BY <2>1, <3>4 DEF ActiveFor, RowsAmong
    <3> QED
      BY <3>3, <3>5 DEF Working
  <2> QED
    BY <2>2, <2>4, <2>5
<1>8. CASE UNCHANGED <<wallets, featuredVars>>
  <2>1. UNCHANGED <<listings, today, rushed, fpc, ffair, ftier>>
    BY <1>8 DEF featuredVars, boosterVars
  <2>2. \A b \in Boosters : fpc[b] \in {"idle", "capping", "paying", "listing"}
    BY <1>b DEF FeaturedTypeOK
  <2> QED
    BY <1>b, <2>1, <2>2, CapsSame
<1> QED
  BY <1>1, <1>2, <1>3, <1>4, <1>5, <1>6, <1>7, <1>8 DEF FeaturedNext

(* One active listing per event and the caps per city, society and day     *)
(* hold of calls that overlap neither each other nor midnight.             *)
THEOREM CapsAreKept == FeaturedSpec => []CapsHold
<1>1. CapsInv => CapsHold
  BY DEF CapsInv
<1> QED
  BY <1>1, CapsInit, CapsStep, PTL DEF FeaturedSpec

-----------------------------------------------------------------------------
(* All services beside one another.                                        *)

LEMMA ListingTyping ==
  ListingTypeOK /\ [ListingNext]_listingVars => ListingTypeOK'
<1> SUFFICES ASSUME ListingTypeOK, [ListingNext]_listingVars PROVE ListingTypeOK'
  OBVIOUS
<1> USE ListingConstants
<1>a. /\ status \in {"none", "draft", "pending_verification", "live", "gone"}
      /\ version \in 1..MaxVersions /\ bookedRows \in 0..MaxListed
      /\ booked \in 0..bookedRows /\ others \in 0..MaxOthers
      /\ opc \in [Organisers -> {"idle", "removing", "dropping"}]
      /\ toDrop \in [Organisers -> SUBSET Keys]
      /\ entry \in [Keys -> Results \cup {Empty}]
      /\ load \in [Processes -> [Keys -> Results \cup {NoLoad, Begun}]]
      /\ tainted \subseteq Keys
  BY DEF ListingTypeOK
<1>b. Shown \in Results
  BY <1>a DEF Shown, Results
<1>c. ASSUME NEW o \in Organisers, NEW from, NEW keys \in SUBSET Keys, Commit(o, from, keys)
      PROVE  /\ opc' \in [Organisers -> {"idle", "removing", "dropping"}]
             /\ toDrop' \in [Organisers -> SUBSET Keys]
  BY <1>a, <1>c DEF Commit
<1>1. CASE Create \/ BookingInserted \/ BookingEnded \/ OthersChange
  <2>1. /\ status' \in {status, "draft"} /\ UNCHANGED <<version, opc, toDrop, entry, load, tainted>>
        /\ \/ UNCHANGED <<bookedRows, booked>>
           \/ bookedRows < MaxListed /\ bookedRows' = bookedRows + 1 /\ booked' = booked + 1
           \/ booked > 0 /\ booked' = booked - 1 /\ bookedRows' = bookedRows
        /\ others' = others \/ (others < MaxOthers /\ others' = others + 1)
    BY <1>1 DEF Create, BookingInserted, BookingEnded, OthersChange, bookingVars, cacheVars
  <2>2. bookedRows' \in 0..MaxListed /\ booked' \in 0..bookedRows' /\ others' \in 0..MaxOthers
    BY <1>a, <2>1
  <2> QED
    BY <1>a, <2>1, <2>2 DEF ListingTypeOK
<1>2. ASSUME NEW o \in Organisers, Update(o) PROVE ListingTypeOK'
  <2>1. Commit(o, "idle", IF status = "live" THEN Keys ELSE {})
    BY <1>2 DEF Update
  <2>2. version' \in 1..MaxVersions
    BY <1>a, <1>2 DEF Update
  <2> QED
    BY <1>a, <1>2, <1>c, <2>1, <2>2 DEF Update, bookingVars, cacheVars, ListingTypeOK
<1>3. ASSUME NEW o \in Organisers, Submit(o) PROVE ListingTypeOK'
  <2>1. Commit(o, "idle", IF autoApprove THEN Keys ELSE {})
    BY <1>3 DEF Submit
  <2> QED
    BY <1>a, <1>3, <1>c, <2>1 DEF Submit, bookingVars, ListingTypeOK
<1>4. ASSUME NEW o \in Organisers, RemoveRead(o) PROVE ListingTypeOK'
  BY <1>a, <1>4 DEF RemoveRead, eventVars, bookingVars, cacheVars, ListingTypeOK
<1>5. ASSUME NEW o \in Organisers, RemoveCommit(o) PROVE ListingTypeOK'
  <2>1. Commit(o, "removing", Keys) \/ Commit(o, "removing", {})
    BY <1>5 DEF RemoveCommit
  <2> QED
    BY <1>a, <1>5, <1>c, <2>1 DEF RemoveCommit, bookingVars, cacheVars, ListingTypeOK
<1>6. ASSUME NEW o \in Organisers, DropFails(o) PROVE ListingTypeOK'
  BY <1>a, <1>6 DEF DropFails, eventVars, bookingVars, ListingTypeOK
<1>7. ASSUME NEW o \in Organisers, NEW k \in Keys, DropKey(o, k) PROVE ListingTypeOK'
  BY <1>a, <1>7 DEF DropKey, eventVars, bookingVars, ListingTypeOK
<1>8. ASSUME NEW p \in Processes, NEW k \in Keys, LoadBegin(p, k) \/ LoadRead(p, k)
      PROVE  ListingTypeOK'
  <2>1. PICK x \in {Begun, Shown} : load' = [load EXCEPT ![p][k] = x]
    BY <1>8 DEF LoadBegin, LoadRead
  <2>2. load' \in [Processes -> [Keys -> Results \cup {NoLoad, Begun}]]
    BY <1>a, <1>b, <2>1
  <2> QED
    BY <1>a, <1>8, <2>2 DEF LoadBegin, LoadRead, eventVars, bookingVars, ListingTypeOK
<1>9. ASSUME NEW p \in Processes, NEW k \in Keys, LoadStore(p, k) PROVE ListingTypeOK'
  <2>1. load[p][k] \in Results
    BY <1>a, <1>9, NothingTyped DEF LoadStore, HasRead
  <2>2. entry' \in [Keys -> Results \cup {Empty}]
    BY <1>a, <1>9, <2>1 DEF LoadStore
  <2>3. load' \in [Processes -> [Keys -> Results \cup {NoLoad, Begun}]]
    BY <1>a, <1>9 DEF LoadStore
  <2> QED
    BY <1>a, <1>9, <2>2, <2>3 DEF LoadStore, eventVars, bookingVars, ListingTypeOK
<1>10. ASSUME NEW k \in Keys, Expire(k) PROVE ListingTypeOK'
  BY <1>a, <1>10 DEF Expire, eventVars, bookingVars, ListingTypeOK
<1>11. CASE UNCHANGED listingVars
  BY <1>a, <1>11 DEF listingVars, eventVars, bookingVars, cacheVars, ListingTypeOK
<1> QED
  BY <1>1, <1>2, <1>3, <1>4, <1>5, <1>6, <1>7, <1>8, <1>9, <1>10, <1>11 DEF ListingNext

LEMMA ApplicationTyping ==
  ApplicationTypeOK /\ StandingInv /\ [ApplicationNext]_applicationVars => ApplicationTypeOK'
<1> SUFFICES ASSUME ApplicationTypeOK, StandingInv, [ApplicationNext]_applicationVars
             PROVE  ApplicationTypeOK'
  OBVIOUS
<1> USE ApplicationConstants DEF ApplicationTypeOK, DeciderTo, Statuses, Decidable
<1>1. CASE EventCloses \/ EventGoes
  BY <1>1 DEF EventCloses, EventGoes
<1>2. ASSUME NEW v \in Vendors, SubmitRead(v) \/ SubmitInsert(v) PROVE ApplicationTypeOK'
  BY <1>2 DEF SubmitRead, SubmitInsert
<1>3. ASSUME NEW v \in Vendors, SubmitTell(v) PROVE ApplicationTypeOK'
  BY <1>3 DEF SubmitTell
<1>4. ASSUME NEW d \in Deciders, NEW choice \in Decidable, DecideRead(d, choice)
      PROVE  ApplicationTypeOK'
  <2>1. clashed' \in BOOLEAN
    BY <1>4 DEF DecideRead
  <2> QED
    BY <1>4, <2>1 DEF DecideRead
<1>5. ASSUME NEW d \in Deciders, DecideWrite(d) PROVE ApplicationTypeOK'
  <2>1. dchoice[d] \in Decidable
    BY <1>5 DEF DecideWrite, StandingInv, DeciderTypes
  <2>2. decisions' \in 0..MaxDecisions
    BY <1>5 DEF DecideWrite
  <2> QED
    BY <1>5, <2>1, <2>2 DEF DecideWrite
<1>6. ASSUME NEW d \in Deciders, DecideTell(d) PROVE ApplicationTypeOK'
  <2>1. dchoice[d] \in Decidable
    BY <1>6 DEF DecideTell, StandingInv, DeciderTypes
  <2> QED
    BY <1>6, <2>1 DEF DecideTell
<1>7. CASE UNCHANGED applicationVars
  BY <1>7 DEF applicationVars
<1> QED
  BY <1>1, <1>2, <1>3, <1>4, <1>5, <1>6, <1>7 DEF ApplicationNext

-----------------------------------------------------------------------------
(* The subscriptions' invariants do not speak of the wallets, so another   *)
(* service may move those; nor do the featured listings'.                  *)
PlusInv == MonthsInv /\ PlanInv

LEMMA PlusInvInit == PlusInit => PlusInv
  BY MonthsInit, PlanInit DEF PlusInv

LEMMA PlusInvStep ==
  PlusInv /\ ([PlusNext]_<<wallets, plusVars>> \/ UNCHANGED plusVars) => PlusInv'
<1> SUFFICES ASSUME PlusInv, UNCHANGED plusVars PROVE PlusInv'
  BY MonthsStep, PlanStep DEF PlusInv
<1>1. UNCHANGED <<month, sub, cpc, cuser, crow, batch, seen, bpc, charged, excused, crossed>>
  BY DEF plusVars, clerkVars, billerVars, plusHistory
<1>2. PlusBase'
  BY <1>1 DEF PlusInv, PlanInv, PlusBase, PlusTypeOK, AtWork
<1>3. \A u \in Users : Inserting(u)' = Inserting(u)
  BY <1>1 DEF Inserting
<1>4. MonthsInv'
  BY <1>1, <1>2, <1>3, MonthsQuiet DEF PlusInv
<1>5. PlanInv'
  BY <1>1, <1>2 DEF PlusInv, PlanInv, OneCall, OnePlanEach
<1> QED
  BY <1>4, <1>5 DEF PlusInv

LEMMA CapsInvStep ==
  CapsInv /\ ([FeaturedNext]_<<wallets, featuredVars>> \/ UNCHANGED featuredVars) => CapsInv'
<1> SUFFICES ASSUME CapsInv, UNCHANGED featuredVars PROVE CapsInv'
  BY CapsStep
<1>1. UNCHANGED <<today, listings, fpc, ffair, ftier, bought, lost, rushed, boostFaults>>
  BY DEF featuredVars, boosterVars
<1>2. FeaturedTypeOK' /\ Aimed' /\ NoneAhead'
  BY <1>1 DEF CapsInv, PaidInv, FeaturedTypeOK, Aimed, NoneAhead
<1>3. \A f \in Fairs : /\ ActiveFor(f)' = ActiveFor(f)
                       /\ CityToday(f)' = CityToday(f) /\ SocietyToday(f)' = SocietyToday(f)
  BY <1>1 DEF ActiveFor, CityToday, SocietyToday, StartingToday, RowsAmong
<1>4. ListedIffPaid'
  BY <1>1 DEF CapsInv, PaidInv, ListedIffPaid, RowsAmong
<1>5. CapsHold'
  BY <1>1, <1>3 DEF CapsInv, CapsHold
<1>6. \A b \in Boosters : fpc[b] # "idle" => ffair[b] \in Fairs
  BY DEF CapsInv, PaidInv, Aimed
<1>7. ~rushed =>
        /\ \A b, d \in Boosters : Working(b)' /\ Working(d)' => b = d
        /\ \A b \in Boosters : Working(b)' => ActiveFor(ffair[b])' = 0
  BY <1>1, <1>3, <1>6 DEF CapsInv, Unrushed, Working
<1>8. \A f \in Fairs, t \in Tiers : Capped(f, t)' <=> Capped(f, t)
  BY <1>3 DEF Capped
<1>9. Unrushed'
  BY <1>1, <1>6, <1>7, <1>8 DEF Unrushed, CapsInv, PaidInv, FeaturedTypeOK
<1> QED
  BY <1>2, <1>4, <1>5, <1>9 DEF CapsInv, PaidInv

EachInv ==
  /\ PlusInv /\ CapsInv
  /\ ListingTypeOK /\ FreshInv
  /\ SocialInv /\ CardsInv
  /\ RatingInv
  /\ ApplicationTypeOK /\ StandingInv
  /\ AuditInv
  /\ ReplyInv

allVars == <<running, wallets, plusVars, featuredVars, listingVars, cardsVars,
             reviewVars, applicationVars, verificationVars, marketplaceVars>>

(* To each service every step is one of its own, or none.                  *)
LEMMA EachApart ==
  [Next]_allVars =>
    /\ [PlusNext]_<<wallets, plusVars>> \/ UNCHANGED plusVars
    /\ [FeaturedNext]_<<wallets, featuredVars>> \/ UNCHANGED featuredVars
    /\ [ListingNext]_listingVars
    /\ [CardsNext]_<<socialVars, viewerVars>>
    /\ [ReviewNext]_reviewVars
    /\ [ApplicationNext]_applicationVars
    /\ [VerificationNext]_verificationVars
    /\ [MarketplaceNext]_marketplaceVars
  BY DEF Next, allVars, cardsVars

LEMMA EachInit == Init => EachInv
<1> SUFFICES ASSUME Init PROVE EachInv
  OBVIOUS
<1>1. /\ PlusInit /\ FeaturedInit /\ ListingInit /\ CardsInit /\ ReviewInit /\ ApplicationInit
      /\ VerificationInit /\ MarketplaceInit
  BY DEF Init
<1>2. ListingTypeOK
  BY <1>1, ListingConstants DEF ListingInit, ListingTypeOK
<1>3. ApplicationTypeOK
  <2>1. 0 \in 0..MaxDecisions
    BY ApplicationConstants
  <2> QED
    BY <1>1, <2>1 DEF ApplicationInit, ApplicationTypeOK
<1> QED
  BY <1>1, <1>2, <1>3, PlusInvInit, CapsInit, FreshInit, CardsInvInit, RatingInit, StandingInit,
     AuditInit, ReplyInit DEF EachInv

LEMMA EachStep == EachInv /\ [Next]_allVars => EachInv'
<1> SUFFICES ASSUME EachInv, [Next]_allVars PROVE EachInv'
  OBVIOUS
<1>1. PlusInv' /\ CapsInv'
  BY EachApart, PlusInvStep, CapsInvStep DEF EachInv
<1>2. ListingTypeOK' /\ FreshInv' /\ SocialInv' /\ CardsInv'
  BY EachApart, ListingTyping, FreshStep, CardsInvStep DEF EachInv
<1>3. RatingInv' /\ ApplicationTypeOK' /\ StandingInv' /\ AuditInv' /\ ReplyInv'
  BY EachApart, RatingStep, ApplicationTyping, StandingStep, AuditStep, ReplyStep DEF EachInv
<1> QED
  BY <1>1, <1>2, <1>3 DEF EachInv

LEMMA EachInvariant == Spec => []EachInv
  BY EachInit, EachStep, PTL DEF Spec, allVars

(* The types of all services' rows and handlers, whichever of them runs.   *)
THEOREM RowsTyped == Spec => []TypesOK
<1>1. EachInv => TypesOK
  BY DEF EachInv, PlusInv, MonthsInv, PlusBase, CapsInv, PaidInv, SocialInv, CardsInv, RatingInv,
         AuditInv, ReplyInv, TypesOK
<1> QED
  BY <1>1, EachInvariant, PTL

(* What each service keeps by itself it keeps beside the others, with      *)
(* which the wallets are shared, and of which the like buttons are         *)
(* clients: the ten invariants of the services hold of the whole.          *)
THEOREM ServicesAreSafe ==
  Spec => [](/\ PlusAccounted /\ ListedIffPaid /\ CapsHold /\ EditsAreListed /\ BookedEventStays
             /\ CountersMatch /\ ButtonsShowStored /\ RatingMatches /\ StatusIsAudited
             /\ ReplyShown)
<1> DEFINE Safe ==
      /\ PlusAccounted /\ ListedIffPaid /\ CapsHold /\ EditsAreListed /\ BookedEventStays
      /\ CountersMatch /\ ButtonsShowStored /\ RatingMatches /\ StatusIsAudited
      /\ ReplyShown
<1>1. EachInv => Safe
  <2> SUFFICES ASSUME EachInv PROVE Safe
    OBVIOUS
  <2>1. PlusAccounted
    BY MonthsInvImplies DEF EachInv, PlusInv, PlanInv, PlusAccounted
  <2>2. ListedIffPaid /\ CapsHold
    BY DEF EachInv, CapsInv, PaidInv
  <2>3. EditsAreListed /\ BookedEventStays
    BY DEF EachInv, FreshInv, Fresh, Dropping, EditsAreListed
  <2>4. CountersMatch /\ ButtonsShowStored
    BY CardsShown DEF EachInv, SocialInv
  <2>5. RatingMatches /\ StatusIsAudited /\ ReplyShown
    BY DEF EachInv, RatingInv, AuditInv, ReplyInv
  <2> QED
    BY <2>1, <2>2, <2>3, <2>4, <2>5
<1> QED
  BY <1>1, EachInvariant, PTL

(* Nor does another service's step touch what is settled: a cancelled      *)
(* subscription, a rejected application.                                   *)
THEOREM SettledBeside == Spec => CancelledIsFinal /\ DecisionStands
<1>1. EachInv /\ [Next]_allVars
        => [\A s \in Subs : sub[s].status = "cancelled" /\ ~Held(s)
                            => sub'[s] = sub[s] /\ ~Held(s)']_<<wallets, plusVars>>
  <2> SUFFICES ASSUME EachInv, [Next]_allVars, NEW s \in Subs, Settled(s)
               PROVE  sub'[s] = sub[s] /\ ~Held(s)'
    BY DEF Settled
  <2>1. CASE [PlusNext]_<<wallets, plusVars>>
    BY <2>1, SettledKept DEF EachInv, PlusInv, PlanInv
  <2>2. CASE UNCHANGED plusVars
    <3>1. UNCHANGED <<sub, batch>>
      BY <2>2 DEF plusVars, billerVars
    <3> QED
      BY <3>1 DEF Settled, Held
  <2> QED
    BY <2>1, <2>2, EachApart
<1>2. EachInv /\ [Next]_allVars
        => [/\ application = "rejected" /\ ~clashed => application' \in {"rejected", "gone"}
            /\ toldLast' # toldLast /\ ~clashed /\ application # "gone" => toldLast' = application
           ]_applicationVars
  BY EachApart, StandingStands DEF Stands, EachInv
<1> QED
  BY <1>1, <1>2, EachInit, EachStep, PTL DEF Spec, allVars, CancelledIsFinal, DecisionStands
=============================================================================
