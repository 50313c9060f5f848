---------------------------- MODULE Marketplace -----------------------------
(***************************************************************************)
(* One product of a stall owner and the enquiries about it: the services   *)
(* ProductsService and EnquiriesService.  Each handler reads the row, and  *)
(* writes by id without looking again.  The owner may use two devices.     *)
(***************************************************************************)
EXTENDS Integers, FiniteSets

CONSTANTS
  Enquiries,        \* ids an enquiry can get
  Buyers,           \* handlers of EnquiriesService.create
  Sellers,          \* handlers of reply, markRead, update and remove
  NoEnquiry,
  MaxEdits          \* bound, see the README

ASSUME MarketplaceConstants == NoEnquiry \notin Enquiries /\ MaxEdits \in Nat

VARIABLES
  product,          \* "none", "active", "inactive" or "gone"
  enquiry,          \* each row's status, "none" while there is no row
  replied,          \* enquiries with an ownerReply
  epc, benq,        \* each buyer: step, enquiry
  vpc, venq, vread, \* each seller: step, enquiry, status read
  edits,
  beside            \* history: enquiries two of the owner's handlers had at once

sellerVars      == <<vpc, venq, vread>>
marketplaceVars == <<product, enquiry, replied, epc, benq, sellerVars, edits, beside>>

-----------------------------------------------------------------------------
MarketplaceInit ==
  /\ product = "none" /\ replied = {} /\ beside = {} /\ edits = 0
  /\ enquiry = [e \in Enquiries |-> "none"]
  /\ epc = [b \in Buyers |-> "idle"] /\ benq = [b \in Buyers |-> NoEnquiry]
  /\ vpc = [s \in Sellers |-> "idle"]
  /\ venq = [s \in Sellers |-> NoEnquiry]
  /\ vread = [s \in Sellers |-> "none"]

ProductExists == product \in {"active", "inactive"}

SellerTo(s, from, to, e, read) ==
  /\ vpc[s] = from
  /\ vpc' = [vpc EXCEPT ![s] = to]
  /\ venq' = [venq EXCEPT ![s] = e]
  /\ vread' = [vread EXCEPT ![s] = read]

SellerEnds(s, from) == SellerTo(s, from, "idle", NoEnquiry, "none")

-----------------------------------------------------------------------------
ProductCreate ==
  /\ product = "none"
  /\ product' = "active"
  /\ UNCHANGED <<enquiry, replied, epc, benq, sellerVars, edits, beside>>

(* update may show or hide the product; its texts are left out.            *)
ProductUpdate ==
  /\ ProductExists /\ edits < MaxEdits
  /\ product' \in {"active", "inactive"} /\ edits' = edits + 1
  /\ UNCHANGED <<enquiry, replied, epc, benq, sellerVars, beside>>

(* remove: the enquiries go with their product.                            *)
ProductRemove ==
  /\ ProductExists
  /\ product' = "gone"
  /\ enquiry' = [e \in Enquiries |-> "none"] /\ replied' = {}
  /\ UNCHANGED <<epc, benq, sellerVars, edits, beside>>

EnquireRead(b, e) ==
  /\ product = "active" /\ epc[b] = "idle"
  /\ enquiry[e] = "none" /\ \A c \in Buyers : benq[c] # e
  /\ epc' = [epc EXCEPT ![b] = "inserting"] /\ benq' = [benq EXCEPT ![b] = e]
  /\ UNCHANGED <<product, enquiry, replied, sellerVars, edits, beside>>

(* Of a product hidden meanwhile, too; of a removed one the key is gone.   *)
EnquireInsert(b) ==
  /\ epc[b] = "inserting"
  /\ enquiry' = IF ProductExists THEN [enquiry EXCEPT ![benq[b]] = "new"] ELSE enquiry
  /\ epc' = [epc EXCEPT ![b] = "idle"] /\ benq' = [benq EXCEPT ![b] = NoEnquiry]
  /\ UNCHANGED <<product, replied, sellerVars, edits, beside>>

-----------------------------------------------------------------------------
(* The enquiry is read, and seen to be the owner's.                        *)
SellerRead(s, task, e) ==
  /\ enquiry[e] # "none"
  /\ SellerTo(s, "idle", task, e, enquiry[e])
  /\ beside' = IF \E r \in Sellers : venq[r] = e THEN beside \cup {e} ELSE beside
  /\ UNCHANGED <<product, enquiry, replied, epc, benq, edits>>

ReplyWrite(s) ==
  LET e == venq[s] IN
  /\ vpc[s] = "replying"
  /\ IF enquiry[e] = "none" THEN UNCHANGED <<enquiry, replied>>
     ELSE enquiry' = [enquiry EXCEPT ![e] = "replied"] /\ replied' = replied \cup {e}
  /\ SellerEnds(s, "replying")
  /\ UNCHANGED <<product, epc, benq, edits, beside>>

(* Mutant: what is marked read is read, replied to or not.                 *)
MarkReadAny(s) ==
  LET e == venq[s] IN
  /\ vpc[s] = "marking"
  /\ enquiry' = IF enquiry[e] = "none" THEN enquiry ELSE [enquiry EXCEPT ![e] = "read"]
  /\ SellerEnds(s, "marking")
  /\ UNCHANGED <<product, replied, epc, benq, edits, beside>>

(* markRead writes "read" over "new", and otherwise the status it read.    *)
MarkReadWrite(s) ==
  LET e == venq[s] IN
  /\ vpc[s] = "marking"
  /\ enquiry' = IF enquiry[e] = "none" THEN enquiry
                ELSE [enquiry EXCEPT ![e] = IF vread[s] = "new" THEN "read" ELSE vread[s]]
  /\ SellerEnds(s, "marking")
  /\ UNCHANGED <<product, replied, epc, benq, edits, beside>>

MarketplaceNext ==
  \/ ProductCreate \/ ProductUpdate \/ ProductRemove
  \/ \E b \in Buyers : EnquireInsert(b) \/ \E e \in Enquiries : EnquireRead(b, e)
  \/ \E s \in Sellers :
       \/ ReplyWrite(s) \/ MarkReadWrite(s)
       \/ \E e \in Enquiries, task \in {"replying", "marking"} : SellerRead(s, task, e)

MarketplaceSpec == MarketplaceInit /\ [][MarketplaceNext]_marketplaceVars

-----------------------------------------------------------------------------
MarketplaceTypeOK ==
  /\ product \in {"none", "active", "inactive", "gone"}
  /\ enquiry \in [Enquiries -> {"none", "new", "read", "replied"}]
  /\ replied \subseteq Enquiries /\ beside \subseteq Enquiries /\ edits \in 0..MaxEdits
  /\ epc \in [Buyers -> {"idle", "inserting"}]
  /\ benq \in [Buyers -> Enquiries \cup {NoEnquiry}]
  /\ vpc \in [Sellers -> {"idle", "replying", "marking"}]
  /\ venq \in [Sellers -> Enquiries \cup {NoEnquiry}]
  /\ vread \in [Sellers -> {"none", "new", "read", "replied"}]

(* An enquiry answered is shown as answered, and one shown as answered has *)
(* an answer, unless the owner marks it read on one device while replying  *)
(* on another; and none outlives its product.                              *)
ReplyShown ==
  \A e \in Enquiries :
    /\ enquiry[e] = "replied" => e \in replied
    /\ e \in replied \ beside => enquiry[e] = "replied"
    /\ enquiry[e] # "none" => ProductExists
=============================================================================
