---------------------------- MODULE Verification ----------------------------
(***************************************************************************)
(* KYC of one business profile: KycService.submit inserts a request and    *)
(* sets the profile pending in two statements; AdminService.approveKyc and *)
(* rejectKyc read the status, then write it and an audit row in one        *)
(* transaction, whose row lock orders them from the write to the commit.   *)
(***************************************************************************)
EXTENDS Integers, Sequences

CONSTANTS
  Applicants,     \* handlers of submit
  Admins,         \* handlers of approveKyc and rejectKyc
  MaxSubmissions, MaxAudits, MaxKycFaults   \* bounds, see the README

ASSUME VerificationConstants == {MaxSubmissions, MaxAudits, MaxKycFaults} \subseteq Nat

VARIABLES
  kycStatus, verified,   \* columns of business_profiles
  submissions,           \* verification_requests rows; their status is never written again
  auditLog,              \* outcomes in admin_audit_log, oldest first
  kpc,                   \* each submitter's step
  mpc, mchoice,          \* each admin: step, outcome
  kycTold,               \* kyc_approved and kyc_rejected notices, oldest first
  asCreated,             \* history: the status is the one the profile was created with
  kycFaults

verificationVars ==
  <<kycStatus, verified, submissions, auditLog, kpc, mpc, mchoice, kycTold, asCreated, kycFaults>>

-----------------------------------------------------------------------------
Outcomes == {"approved", "rejected"}

(* onboard and a production create() leave the columns' defaults; outside  *)
(* production, create() and the seed make the profile approved.            *)
VerificationInit ==
  /\ kycStatus \in {"pending", "approved"} /\ verified = (kycStatus = "approved")
  /\ asCreated = TRUE
  /\ submissions = 0 /\ auditLog = <<>> /\ kycTold = <<>>
  /\ kpc = [o \in Applicants |-> "idle"]
  /\ mpc = [m \in Admins |-> "idle"]
  /\ mchoice = [m \in Admins |-> "none"]
  /\ kycFaults = 0

AdminTo(m, from, to, choice) ==
  /\ mpc[m] = from
  /\ mpc' = [mpc EXCEPT ![m] = to]
  /\ mchoice' = [mchoice EXCEPT ![m] = choice]

-----------------------------------------------------------------------------
(* The documents are on disk; request and document rows in one insert.     *)
KycInsert(o) ==
  /\ kpc[o] = "idle" /\ submissions < MaxSubmissions
  /\ submissions' = submissions + 1
  /\ kpc' = [kpc EXCEPT ![o] = "resetting"]
  /\ UNCHANGED <<kycStatus, verified, auditLog, mpc, mchoice, kycTold, asCreated, kycFaults>>

(* Whatever has been decided meanwhile.                                    *)
KycReset(o) ==
  /\ kpc[o] = "resetting"
  /\ kycStatus' = "pending" /\ verified' = FALSE /\ asCreated' = FALSE
  /\ kpc' = [kpc EXCEPT ![o] = "idle"]
  /\ UNCHANGED <<submissions, auditLog, mpc, mchoice, kycTold, kycFaults>>

(* The profile is read with no lock: refused if it is so decided already.  *)
AdminRead(m, outcome) ==
  /\ kycStatus # outcome /\ Len(auditLog) < MaxAudits
  /\ AdminTo(m, "idle", "writing", outcome)
  /\ UNCHANGED <<kycStatus, verified, submissions, auditLog, kpc, kycTold, asCreated, kycFaults>>

(* Mutant: the audit row is written after the transaction.                 *)
AdminCommitThenAudit(m) ==
  /\ Len(auditLog) < MaxAudits
  /\ \/ /\ AdminTo(m, "writing", "telling", mchoice[m])
        /\ kycStatus' = mchoice[m] /\ verified' = (mchoice[m] = "approved")
        /\ auditLog' = auditLog /\ asCreated' = FALSE
     \/ /\ AdminTo(m, "telling", "idle", "none")
        /\ auditLog' = Append(auditLog, mchoice[m])
        /\ UNCHANGED <<kycStatus, verified, asCreated>>
  /\ UNCHANGED <<submissions, kpc, kycTold, kycFaults>>

(* Status and audit row, whatever the status is by now.                    *)
AdminCommit(m) ==
  /\ Len(auditLog) < MaxAudits
  /\ AdminTo(m, "writing", "telling", mchoice[m])
  /\ kycStatus' = mchoice[m] /\ verified' = (mchoice[m] = "approved")
  /\ auditLog' = Append(auditLog, mchoice[m]) /\ asCreated' = FALSE
  /\ UNCHANGED <<submissions, kpc, kycTold, kycFaults>>

(* The owner's notice is not awaited; those of two admins may cross.       *)
AdminTell(m) ==
  /\ kycTold' = Append(kycTold, mchoice[m])
  /\ AdminTo(m, "telling", "idle", "none")
  /\ UNCHANGED <<kycStatus, verified, submissions, auditLog, kpc, asCreated, kycFaults>>

(* A handler dies, or its next statement fails.                            *)
KycFails ==
  /\ kycFaults < MaxKycFaults /\ kycFaults' = kycFaults + 1
  /\ \/ \E o \in Applicants : kpc[o] # "idle" /\ kpc' = [kpc EXCEPT ![o] = "idle"]
                           /\ UNCHANGED <<mpc, mchoice>>
     \/ \E m \in Admins : mpc[m] # "idle" /\ AdminTo(m, mpc[m], "idle", "none") /\ kpc' = kpc
  /\ UNCHANGED <<kycStatus, verified, submissions, auditLog, kycTold, asCreated>>

VerificationNext ==
  \/ KycFails
  \/ \E o \in Applicants : KycInsert(o) \/ KycReset(o)
  \/ \E m \in Admins :
       \/ AdminCommit(m) \/ AdminTell(m)
       \/ \E outcome \in Outcomes : AdminRead(m, outcome)

VerificationSpec == VerificationInit /\ [][VerificationNext]_verificationVars

-----------------------------------------------------------------------------
VerificationTypeOK ==
  /\ kycStatus \in Outcomes \cup {"pending"} /\ verified \in BOOLEAN
  /\ submissions \in 0..MaxSubmissions
  /\ auditLog \in Seq(Outcomes) /\ kycTold \in Seq(Outcomes)
  /\ kpc \in [Applicants -> {"idle", "resetting"}]
  /\ mpc \in [Admins -> {"idle", "writing", "telling"}]
  /\ mchoice \in [Admins -> Outcomes \cup {"none"}]
  /\ asCreated \in BOOLEAN /\ kycFaults \in 0..MaxKycFaults

(* A decided profile bears the outcome the audit log names last, and only  *)
(* an approved one is verified, however submissions, decisions of two      *)
(* admins and failures interleave.  The exception is a profile created     *)
(* approved, until its first submission or decision: none has decided it.  *)
StatusIsAudited ==
  /\ verified = (kycStatus = "approved")
  /\ asCreated => auditLog = <<>> /\ kycStatus # "rejected"
  /\ kycStatus # "pending" /\ ~asCreated
       => auditLog # <<>> /\ auditLog[Len(auditLog)] = kycStatus
=============================================================================
