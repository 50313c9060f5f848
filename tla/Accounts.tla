------------------------------ MODULE Accounts ------------------------------
(***************************************************************************)
(* One-time codes by SMS, onboarding and business profiles.  A code lives  *)
(* in Redis, is stored before its message is sent, and is compared, then   *)
(* deleted, then signed in with, in calls that may each fail; onboard()    *)
(* decides on a row it read before its transaction, and create() looks for *)
(* an earlier profile of the type that no constraint of the schema forbids.*)
(***************************************************************************)
EXTENDS Integers, FiniteSets

CONSTANTS
  Members,       \* users
  Callers,       \* request handlers
  NoMember,
  MaxCodes,      \* codes made per member (bound)
  OtpLimit,      \* OTP_REQUEST_LIMIT
  MaxAsked,      \* requests counted in one window, the refused ones too (bound)
  MaxProfiles    \* profiles of one type per member

Codes == 1..MaxCodes
NoCode == 0
Types == {"organiser", "vendor"}

ASSUME AccountConstants ==
  /\ NoMember \notin Members
  /\ {MaxCodes, OtpLimit, MaxAsked, MaxProfiles} \subseteq Nat

VARIABLES
  role, onboarded,    \* users.primaryRole, users.onboardedAt
  profiles,           \* business_profiles: how many, by owner and type
  code, rate,         \* otp:hash:* and otp:rate:* in Redis
  lastCode,           \* the code stored last for each member
  codeUses,           \* history: sign-ins with each code
  gone,               \* history: codes past their time to live, or deleted by
                      \* a sign-in that failed afterwards
  apc, amember, acode, arole, \* each handler: step, member, code or role it was given
  crossed             \* history: members two of whose requests overlapped

otpVars     == <<code, rate, lastCode, codeUses, gone>>
profileVars == <<role, onboarded, profiles>>
callerVars  == <<apc, amember, acode, arole, crossed>>
accountVars == <<otpVars, profileVars, callerVars>>

-----------------------------------------------------------------------------
AccountInit ==
  /\ role = [m \in Members |-> "user"]
  /\ onboarded = [m \in Members |-> FALSE]
  /\ profiles = [m \in Members |-> [t \in Types |-> 0]]
  /\ code = [m \in Members |-> NoCode] /\ lastCode = [m \in Members |-> NoCode]
  /\ rate = [m \in Members |-> 0]
  /\ codeUses = [m \in Members |-> [c \in Codes |-> 0]]
  /\ gone = [m \in Members |-> {}]
  /\ apc = [h \in Callers |-> "idle"]
  /\ amember = [h \in Callers |-> NoMember]
  /\ acode = [h \in Callers |-> NoCode] /\ arole = [h \in Callers |-> "user"]
  /\ crossed = {}

Concurrent(m) == \E h \in Callers : amember[h] = m

Enter(h, m, step, c, t) ==
  /\ apc[h] = "idle"
  /\ apc' = [apc EXCEPT ![h] = step]
  /\ amember' = [amember EXCEPT ![h] = m]
  /\ acode' = [acode EXCEPT ![h] = c]
  /\ arole' = [arole EXCEPT ![h] = t]
  /\ crossed' = IF Concurrent(m) THEN crossed \cup {m} ELSE crossed

Leave(h) ==
  /\ apc' = [apc EXCEPT ![h] = "idle"]
  /\ amember' = [amember EXCEPT ![h] = NoMember]
  /\ acode' = [acode EXCEPT ![h] = NoCode]
  /\ arole' = [arole EXCEPT ![h] = "user"]
  /\ crossed' = crossed

-----------------------------------------------------------------------------
(* requestOtp counts the request, with a TTL, before it compares: one over *)
(* the limit is refused and has counted.                                   *)
RequestOtp(h, m) ==
  /\ rate[m] < MaxAsked
  /\ rate' = [rate EXCEPT ![m] = @ + 1]
  /\ \/ rate[m] < OtpLimit /\ Enter(h, m, "counted", NoCode, "user")
     \/ rate[m] >= OtpLimit /\ UNCHANGED callerVars
  /\ UNCHANGED <<code, lastCode, codeUses, gone, profileVars>>

Goes(h, step) ==
  /\ apc' = [apc EXCEPT ![h] = step]
  /\ UNCHANGED <<amember, acode, arole, crossed>>

(* The SET: the new code replaces the one before.                          *)
StoreOtp(h) ==
  LET m == amember[h] IN
  /\ apc[h] = "counted" /\ lastCode[m] < MaxCodes
  /\ lastCode' = [lastCode EXCEPT ![m] = @ + 1]
  /\ code' = [code EXCEPT ![m] = lastCode[m] + 1]
  /\ Goes(h, "stored")
  /\ UNCHANGED <<rate, codeUses, gone, profileVars>>

(* sms.sendOtp; when it throws (CallerFails) the code stays stored.        *)
SendOtp(h) ==
  /\ apc[h] = "stored"
  /\ Leave(h)
  /\ UNCHANGED <<otpVars, profileVars>>

(* verifyOtp: the stored hash matches (nothing happens when it does not).  *)
VerifyOtp(h, m, c) ==
  /\ c # NoCode /\ code[m] = c
  /\ Enter(h, m, "verified", c, "user")
  /\ UNCHANGED <<otpVars, profileVars>>

(* Mutant: the code stays in Redis until its TTL.                          *)
ConsumeNothing(h) ==
  /\ apc[h] = "verified"
  /\ Goes(h, "consumed")
  /\ UNCHANGED <<otpVars, profileVars>>

(* Whatever code is stored by now is deleted ...                           *)
ConsumeOtp(h) ==
  /\ apc[h] = "verified"
  /\ code' = [code EXCEPT ![amember[h]] = NoCode]
  /\ Goes(h, "consumed")
  /\ UNCHANGED <<rate, lastCode, codeUses, gone, profileVars>>

(* ... then the counter of requests ...                                    *)
ClearRate(h) ==
  /\ apc[h] = "consumed"
  /\ rate' = [rate EXCEPT ![amember[h]] = 0]
  /\ Goes(h, "cleared")
  /\ UNCHANGED <<code, lastCode, codeUses, gone, profileVars>>

(* ... and the user's row is upserted and tokens are issued.               *)
OtpSignIn(h) ==
  /\ apc[h] = "cleared"
  /\ codeUses' = [codeUses EXCEPT ![amember[h]][acode[h]] = @ + 1]
  /\ Leave(h)
  /\ UNCHANGED <<code, rate, lastCode, gone, profileVars>>

OtpExpires(m) ==
  /\ code[m] # NoCode
  /\ gone' = [gone EXCEPT ![m] = @ \cup {code[m]}]
  /\ code' = [code EXCEPT ![m] = NoCode]
  /\ UNCHANGED <<rate, lastCode, codeUses, profileVars, callerVars>>

(* The TTL of the counter of requests.                                     *)
WindowPasses(m) ==
  /\ rate[m] > 0
  /\ rate' = [rate EXCEPT ![m] = 0]
  /\ UNCHANGED <<code, lastCode, codeUses, gone, profileVars, callerVars>>

-----------------------------------------------------------------------------
(* onboard: a member already onboarded gets the same answer again.         *)
OnboardRead(h, m, choice) ==
  /\ ~onboarded[m]
  /\ Enter(h, m, "onboarding", NoCode, choice)
  /\ UNCHANGED <<otpVars, profileVars>>

(* Mutant: a random username that is taken is no reason to fail.           *)
OnboardSansProfile(h) ==
  LET m == amember[h] IN
  /\ apc[h] = "onboarding"
  /\ role' = [role EXCEPT ![m] = arole[h]]
  /\ onboarded' = [onboarded EXCEPT ![m] = TRUE]
  /\ UNCHANGED profiles
  /\ Leave(h)
  /\ UNCHANGED otpVars

(* One transaction: the user row and the profile, or neither.              *)
OnboardCommit(h) ==
  LET m == amember[h]  t == arole[h] IN
  /\ apc[h] = "onboarding"
  /\ role' = [role EXCEPT ![m] = t]
  /\ onboarded' = [onboarded EXCEPT ![m] = TRUE]
  /\ IF t = "user" THEN profiles' = profiles
     ELSE profiles[m][t] < MaxProfiles /\ profiles' = [profiles EXCEPT ![m][t] = @ + 1]
  /\ Leave(h)
  /\ UNCHANGED otpVars

(* create: "one profile of each type per user", by a plain read.           *)
ProfileRead(h, m, t) ==
  /\ profiles[m][t] = 0
  /\ Enter(h, m, "creating", NoCode, t)
  /\ UNCHANGED <<otpVars, profileVars>>

ProfileInsert(h) ==
  LET m == amember[h]  t == arole[h] IN
  /\ apc[h] = "creating" /\ profiles[m][t] < MaxProfiles
  /\ profiles' = [profiles EXCEPT ![m][t] = @ + 1]
  /\ Goes(h, "created")
  /\ UNCHANGED <<otpVars, role, onboarded>>

RoleWrite(h) ==
  /\ apc[h] = "created"
  /\ role' = [role EXCEPT ![amember[h]] = arole[h]]
  /\ Leave(h)
  /\ UNCHANGED <<otpVars, onboarded, profiles>>

SigningIn(h) == apc[h] \in {"consumed", "cleared"}

(* A username that is taken, a message that is not sent, a database or     *)
(* Redis call that fails, or the process dies: what was done stays.        *)
CallerFails(h) ==
  /\ apc[h] # "idle"
  /\ gone' = IF SigningIn(h) THEN [gone EXCEPT ![amember[h]] = @ \cup {acode[h]}] ELSE gone
  /\ Leave(h)
  /\ UNCHANGED <<code, rate, lastCode, codeUses, profileVars>>

AccountNext ==
  \/ \E m \in Members : OtpExpires(m) \/ WindowPasses(m)
  \/ \E h \in Callers :
       \/ StoreOtp(h) \/ SendOtp(h)
       \/ ConsumeOtp(h) \/ ClearRate(h) \/ OtpSignIn(h)
       \/ OnboardCommit(h) \/ ProfileInsert(h) \/ RoleWrite(h)
       \/ CallerFails(h)
       \/ \E m \in Members :
            \/ RequestOtp(h, m)
            \/ \E c \in Codes : VerifyOtp(h, m, c)
            \/ \E choice \in Types \cup {"user"} : OnboardRead(h, m, choice)
            \/ \E t \in Types : ProfileRead(h, m, t)

AccountSpec == AccountInit /\ [][AccountNext]_accountVars

-----------------------------------------------------------------------------
AccountSteps ==
  {"idle", "counted", "stored", "verified", "consumed", "cleared",
   "onboarding", "creating", "created"}

AccountTypeOK ==
  /\ role \in [Members -> Types \cup {"user"}] /\ onboarded \in [Members -> BOOLEAN]
  /\ profiles \in [Members -> [Types -> Nat]]
  /\ code \in [Members -> Codes \cup {NoCode}] /\ lastCode \in [Members -> Codes \cup {NoCode}]
  /\ rate \in [Members -> Nat] /\ codeUses \in [Members -> [Codes -> Nat]]
  /\ gone \in [Members -> SUBSET Codes]
  /\ apc \in [Callers -> AccountSteps]
  /\ amember \in [Callers -> Members \cup {NoMember}]
  /\ acode \in [Callers -> Codes \cup {NoCode}] /\ arole \in [Callers -> Types \cup {"user"}]
  /\ crossed \subseteq Members

(* A code that has signed in is stored no more, whatever requests overlap  *)
(* or fail: a second sign-in with it needs a handler that had compared it  *)
(* before.  When no two requests of the member overlap, a code signs in    *)
(* once, and the code stored last (sent or not) is the one that will be    *)
(* accepted until it is used, expires, or is deleted by a sign-in that     *)
(* then fails.                                                             *)
CodeUsedOnce ==
  \A m \in Members :
    /\ \A c \in Codes : codeUses[m][c] > 0 => code[m] # c
    /\ m \notin crossed =>
         /\ \A c \in Codes : codeUses[m][c] <= 1
         /\ LET c == lastCode[m] IN
            c # NoCode /\ codeUses[m][c] = 0 /\ c \notin gone[m]
              => code[m] = c \/ \E h \in Callers : amember[h] = m /\ SigningIn(h)

(* A member whose role is organiser or vendor has a profile of that type,  *)
(* whatever overlaps or fails: profile and role are two writes in create().*)
(* And they have one only, "one profile of each type per user", if their   *)
(* requests did not overlap: but onboarding after create() adds a second.  *)
ProfilesMatchRole ==
  \A m \in Members, t \in Types :
    /\ role[m] = t => profiles[m][t] >= 1
    /\ m \notin crossed
         => profiles[m][t] <= 1 \/ (onboarded[m] /\ profiles[m][t] <= 2)
=============================================================================
