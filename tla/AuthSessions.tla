---------------------------- MODULE AuthSessions ----------------------------
(***************************************************************************)
(* AuthService: sign-in, refresh-token rotation, logout, password reset    *)
(* and account deletion over the users and user_sessions tables.  No two   *)
(* statements of a handler share a transaction (the deletion's excepted),  *)
(* so each await where another request may change what was read is an      *)
(* action boundary.  Tokens are random: the n-th one minted is n.          *)
(***************************************************************************)
EXTENDS Integers, FiniteSets

CONSTANTS
  Users,
  Requests,      \* request handlers
  NoUser,
  MaxTokens, MaxPasswords, MaxLapses, MaxDeaths   \* bounds, see the README

Tokens == 1..MaxTokens
NoToken == 0

ASSUME SessionConstants ==
  /\ NoUser \notin Users
  /\ {MaxTokens, MaxPasswords, MaxLapses, MaxDeaths} \subseteq Nat

VARIABLES
  active,      \* users.deletedAt is null
  password,    \* users.passwordHash, as the number of times it was set
  resetLink,   \* password_reset:* keys in Redis, by user
  minted,      \* how many refresh tokens have been issued
  session,     \* user_sessions: "none", "live" (revokedAt null) or "revoked"
  owner,       \* user_sessions.userId
  lapsed,      \* sessions whose expiresAt is past
  spc, suser, stoken, \* each handler: step, user, token presented or issued
  sgen,        \* ... and the password its credentials go back to
  since,       \* history: the password each session goes back to
  rotations,   \* history: sessions issued in exchange for a token
  overlapped,  \* history: tokens two handlers refreshed at the same time
  disturbed,   \* history: users with a handler under way, or one that died,
               \* when their sessions were revoked
  deaths

userVars    == <<active, password, resetLink>>
sessionVars == <<minted, session, owner, lapsed, since, rotations>>
requestVars == <<spc, suser, stoken, sgen>>
historyVars == <<overlapped, disturbed, deaths>>
authVars    == <<userVars, sessionVars, requestVars, historyVars>>

-----------------------------------------------------------------------------
AuthInit ==
  /\ active = [u \in Users |-> TRUE]
  /\ password = [u \in Users |-> 0]
  /\ resetLink = [u \in Users |-> FALSE]
  /\ minted = 0
  /\ session = [t \in Tokens |-> "none"]
  /\ owner = [t \in Tokens |-> NoUser]
  /\ lapsed = {}
  /\ since = [t \in Tokens |-> 0]
  /\ rotations = [t \in Tokens |-> 0]
  /\ spc = [r \in Requests |-> "idle"]
  /\ suser = [r \in Requests |-> NoUser]
  /\ stoken = [r \in Requests |-> NoToken]
  /\ sgen = [r \in Requests |-> 0]
  /\ overlapped = {} /\ disturbed = {} /\ deaths = 0

(* Steps at which a handler will still issue a session.                    *)
Issuing == {"signin", "checked", "rotated"}
Refreshing(t) == {r \in Requests : stoken[r] = t /\ spc[r] \in Issuing}
UnderWay(u) == {r \in Requests : suser[r] = u /\ spc[r] \in Issuing}

Begin(r, step, u, t, gen) ==
  /\ spc[r] = "idle"
  /\ spc' = [spc EXCEPT ![r] = step]
  /\ suser' = [suser EXCEPT ![r] = u]
  /\ stoken' = [stoken EXCEPT ![r] = t]
  /\ sgen' = [sgen EXCEPT ![r] = gen]

Goto(r, from, to) ==
  /\ spc[r] = from
  /\ spc' = [spc EXCEPT ![r] = to]

(* updateMany where userId and revokedAt is null.                          *)
RevokeAll(u) ==
  /\ session' = [t \in Tokens |-> IF owner[t] = u THEN "revoked" ELSE session[t]]
  /\ disturbed' = IF UnderWay(u) = {} THEN disturbed ELSE disturbed \cup {u}

-----------------------------------------------------------------------------
(* emailSignin, verifyOtp, upsertGoogleUser: the user row is read and the  *)
(* credentials compared; the session is inserted later (Issue).            *)
SigninRead(r, u) ==
  /\ active[u]
  /\ Begin(r, "signin", u, NoToken, password[u])
  /\ UNCHANGED <<userVars, sessionVars, historyVars>>

(* refresh: the session row of the token presented, whatever its age.      *)
RefreshRead(r, t) ==
  /\ session[t] # "none"
  /\ Begin(r, CASE session[t] = "revoked" -> "reuse"
                [] session[t] = "live" /\ t \in lapsed -> "refused"
                [] OTHER -> "checked",
           owner[t], t, since[t])
  /\ overlapped' = IF Refreshing(t) = {} THEN overlapped ELSE overlapped \cup {t}
  /\ UNCHANGED <<userVars, sessionVars, disturbed, deaths>>

(* A revoked token: every session of its user is revoked, and a 401.       *)
ReuseRevoke(r) ==
  /\ Goto(r, "reuse", "refused")
  /\ RevokeAll(suser[r])
  /\ UNCHANGED <<userVars, minted, owner, lapsed, since, rotations, suser, stoken, sgen,
                 overlapped, deaths>>

(* Mutant: the old session is left as it is.                               *)
RotateNothing(r) ==
  /\ Goto(r, "checked", IF active[suser[r]] THEN "rotated" ELSE "refused")
  /\ UNCHANGED <<userVars, sessionVars, suser, stoken, sgen, historyVars>>

(* The user is read; the old session is revoked, without looking at it     *)
(* again ...                                                               *)
Rotate(r) ==
  /\ spc[r] = "checked"
  /\ IF active[suser[r]]
     THEN Goto(r, "checked", "rotated") /\ session' = [session EXCEPT ![stoken[r]] = "revoked"]
     ELSE Goto(r, "checked", "refused") /\ session' = session
  /\ UNCHANGED <<userVars, minted, owner, lapsed, since, rotations, suser, stoken, sgen,
                 historyVars>>

(* ... and issueTokens inserts the new one; so it does for a sign-in.      *)
Issue(r) ==
  LET new == minted + 1  old == stoken[r] IN
  /\ new \in Tokens
  /\ spc[r] \in {"signin", "rotated"}
  /\ spc' = [spc EXCEPT ![r] = "answered"]
  /\ minted' = new
  /\ session' = [session EXCEPT ![new] = "live"]
  /\ owner' = [owner EXCEPT ![new] = suser[r]]
  /\ since' = [since EXCEPT ![new] = sgen[r]]
  /\ rotations' = IF old = NoToken THEN rotations ELSE [rotations EXCEPT ![old] = @ + 1]
  /\ stoken' = [stoken EXCEPT ![r] = new]
  /\ UNCHANGED <<userVars, lapsed, suser, sgen, historyVars>>

(* logout: one updateMany; an unknown or revoked token is no error.        *)
Logout(t) ==
  /\ session[t] # "none"
  /\ session' = [session EXCEPT ![t] = "revoked"]
  /\ UNCHANGED <<userVars, minted, owner, lapsed, since, rotations, requestVars, historyVars>>

-----------------------------------------------------------------------------
(* Password reset: the link, then the key's read, then key and hash, then  *)
(* the sessions.  A new password is one never used before.                 *)
RequestReset(u) ==
  /\ active[u] /\ password[u] < MaxPasswords
  /\ resetLink' = [resetLink EXCEPT ![u] = TRUE]
  /\ UNCHANGED <<active, password, sessionVars, requestVars, historyVars>>

ResetRead(r, u) ==
  /\ resetLink[u] /\ password[u] < MaxPasswords
  /\ Begin(r, "resetting", u, NoToken, 0)
  /\ UNCHANGED <<userVars, sessionVars, historyVars>>

ResetWrite(r) ==
  /\ Goto(r, "resetting", "revoking")
  /\ password[suser[r]] < MaxPasswords
  /\ resetLink' = [resetLink EXCEPT ![suser[r]] = FALSE]
  /\ password' = [password EXCEPT ![suser[r]] = @ + 1]
  /\ UNCHANGED <<active, sessionVars, suser, stoken, sgen, historyVars>>

(* Mutant: a new password leaves the sessions alone.                       *)
ResetRevokeNone(r) ==
  /\ Goto(r, "revoking", "refused")
  /\ UNCHANGED <<userVars, sessionVars, suser, stoken, sgen, historyVars>>

ResetRevoke(r) ==
  /\ Goto(r, "revoking", "refused")
  /\ RevokeAll(suser[r])
  /\ UNCHANGED <<userVars, minted, owner, lapsed, since, rotations, suser, stoken, sgen,
                 overlapped, deaths>>

(* softDeleteUser: one transaction; the deletion is a new credential epoch *)
(* for nobody can sign in to the account again.                            *)
SoftDelete(u) ==
  /\ active[u]
  /\ active' = [active EXCEPT ![u] = FALSE]
  /\ RevokeAll(u)
  /\ UNCHANGED <<password, resetLink, minted, owner, lapsed, since, rotations, requestVars,
                 overlapped, deaths>>

(* Thirty days pass for a session.                                         *)
Lapse(t) ==
  /\ session[t] = "live" /\ t \notin lapsed /\ Cardinality(lapsed) < MaxLapses
  /\ lapsed' = lapsed \cup {t}
  /\ UNCHANGED <<userVars, minted, session, owner, since, rotations, requestVars, historyVars>>

(* The process dies, or a statement fails, part of the way.                *)
RequestDies(r) ==
  /\ spc[r] \notin {"idle", "answered", "refused"} /\ deaths < MaxDeaths
  /\ deaths' = deaths + 1
  /\ spc' = [spc EXCEPT ![r] = "refused"]
  /\ disturbed' = IF spc[r] = "revoking" THEN disturbed \cup {suser[r]} ELSE disturbed
  /\ UNCHANGED <<userVars, sessionVars, suser, stoken, sgen, overlapped>>

(* The answer has left the server.                                         *)
Respond(r) ==
  /\ spc[r] \in {"answered", "refused"}
  /\ spc' = [spc EXCEPT ![r] = "idle"]
  /\ suser' = [suser EXCEPT ![r] = NoUser]
  /\ stoken' = [stoken EXCEPT ![r] = NoToken]
  /\ sgen' = [sgen EXCEPT ![r] = 0]
  /\ UNCHANGED <<userVars, sessionVars, historyVars>>

GoesOn(r) ==
  \/ ReuseRevoke(r) \/ Rotate(r) \/ Issue(r) \/ ResetWrite(r) \/ ResetRevoke(r)

AuthNext ==
  \/ \E r \in Requests :
       \/ GoesOn(r) \/ RequestDies(r) \/ Respond(r)
       \/ \E u \in Users : SigninRead(r, u) \/ ResetRead(r, u)
       \/ \E t \in Tokens : RefreshRead(r, t)
  \/ \E u \in Users : RequestReset(u) \/ SoftDelete(u)
  \/ \E t \in Tokens : Logout(t) \/ Lapse(t)

AuthSpec == AuthInit /\ [][AuthNext]_authVars

-----------------------------------------------------------------------------
RequestSteps == Issuing \cup {"idle", "reuse", "resetting", "revoking", "answered", "refused"}

AuthTypeOK ==
  /\ active \in [Users -> BOOLEAN] /\ resetLink \in [Users -> BOOLEAN]
  /\ password \in [Users -> Nat]
  /\ minted \in 0..MaxTokens
  /\ session \in [Tokens -> {"none", "live", "revoked"}]
  /\ owner \in [Tokens -> Users \cup {NoUser}]
  /\ lapsed \subseteq Tokens
  /\ since \in [Tokens -> Nat] /\ rotations \in [Tokens -> Nat]
  /\ spc \in [Requests -> RequestSteps]
  /\ suser \in [Requests -> Users \cup {NoUser}]
  /\ stoken \in [Requests -> Tokens \cup {NoToken}]
  /\ sgen \in [Requests -> Nat]
  /\ overlapped \subseteq Tokens /\ disturbed \subseteq Users /\ deaths \in Nat

Revoking(u) == \E r \in Requests : suser[r] = u /\ spc[r] = "revoking"

(* After a reset or a deletion no session obtained before it is live, by   *)
(* whatever chain of refreshes, unless a handler of the user was under way *)
(* at the revocation or died before it.                                    *)
RevocationHolds ==
  \A t \in Tokens :
    LET u == owner[t] IN
    session[t] = "live" /\ u \notin disturbed /\ ~Revoking(u)
      => active[u] /\ since[t] = password[u]

(* Rotation: refreshes of a token that do not overlap yield one successor  *)
(* in all, however often and however late the token is presented.          *)
RotatedOnce ==
  \A t \in Tokens : t \notin overlapped => rotations[t] <= 1
=============================================================================
