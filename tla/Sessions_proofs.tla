-------------------------- MODULE Sessions_proofs --------------------------
(***************************************************************************)
(* For any users, handlers, tabs and bounds: what the run of MCSessions    *)
(* checks of the server's sessions, of the browser and of the accounts.    *)
(*                                                                         *)
(* The server's invariant has three parts.  Minting: a token has a row     *)
(* from the time it is minted on, and its row an owner.  Rotation:         *)
(* handlers that refresh a token nobody else refreshes.  Credentials: what *)
(* a handler on its way to issue a session goes back to.  The browser is a *)
(* client of that server (WebIsClient); its invariant, Calm, follows the   *)
(* one request in the air until a second one overlaps it or an answer is   *)
(* lost.  The accounts': the one handler of a member whose requests do not *)
(* overlap finds what it read as it was.                                   *)
(***************************************************************************)
EXTENDS MCSessions, TLAPS


(* Rows are those of tokens minted; a handler has the user, and the row    *)
(* read, that its step goes on with.                                       *)
Minting ==
  /\ AuthTypeOK
  /\ \A t \in Tokens : t > minted => session[t] = "none"
  /\ \A t \in Tokens :
       /\ session[t] # "none" => owner[t] \in Users
       /\ session[t] = "none" => owner[t] = NoUser
  /\ \A r \in Requests :
       /\ spc[r] \in Issuing \cup {"reuse", "resetting", "revoking"} => suser[r] \in Users
       /\ spc[r] \in {"reuse", "checked", "rotated"} =>
            stoken[r] \in Tokens /\ session[stoken[r]] # "none"
       /\ spc[r] = "signin" => stoken[r] = NoToken

(* A token not refreshed by two at once has one handler refreshing it and  *)
(* no successor, or none any more and at most one.                         *)
Rotation ==
  \A t \in Tokens : t \notin overlapped =>
    /\ \A r, q \in Refreshing(t) : r = q
    /\ rotations[t] <= 1
    /\ rotations[t] = 1 => session[t] = "revoked" /\ Refreshing(t) = {}
    /\ \A r \in Refreshing(t) : spc[r] = "rotated" => session[t] = "revoked"

Settled(u) == u \notin disturbed /\ ~Revoking(u)

(* A live session, or a handler about to issue one, goes back to the       *)
(* password that is valid now, of a user who is still there.               *)
Credentials ==
  /\ \A t \in Tokens :
       session[t] = "live" /\ Settled(owner[t])
         => active[owner[t]] /\ since[t] = password[owner[t]]
  /\ \A r \in Requests :
       spc[r] \in Issuing /\ Settled(suser[r])
         => active[suser[r]] /\ sgen[r] = password[suser[r]]

AuthInv == Minting /\ Rotation /\ Credentials

-----------------------------------------------------------------------------
LEMMA MintingInit == AuthInit => Minting
  BY SessionConstants, SMT
    DEF AuthInit, Minting, AuthTypeOK, Tokens, NoToken, Issuing, RequestSteps

LEMMA MintingStep == Minting /\ [AuthNext]_authVars => Minting'
<1> USE SessionConstants DEF Tokens, NoToken, Issuing, RequestSteps, userVars
<1> SUFFICES ASSUME Minting, [AuthNext]_authVars PROVE Minting'
  OBVIOUS
<1>1. ASSUME NEW r \in Requests, ReuseRevoke(r) PROVE Minting'
  <2>1. /\ suser[r] \in Users /\ spc[r] = "reuse"
        /\ UNCHANGED <<minted, owner, lapsed, since, rotations, suser, stoken, sgen, active,
                       password, resetLink, overlapped, deaths>>
    BY <1>1 DEF Minting, ReuseRevoke, Goto
  <2>2. \A t \in Tokens :
          session'[t] = IF owner[t] = suser[r] THEN "revoked" ELSE session[t]
    BY <1>1 DEF ReuseRevoke, RevokeAll
  <2>3. \A q \in Requests : spc'[q] = IF q = r THEN "refused" ELSE spc[q]
    BY <1>1 DEF Minting, AuthTypeOK, ReuseRevoke, Goto
  <2>4. AuthTypeOK'
    BY <1>1, <2>1 DEF Minting, AuthTypeOK, ReuseRevoke, Goto, RevokeAll
  <2> QED
    BY <2>1, <2>2, <2>3, <2>4 DEF Minting
<1>2. ASSUME NEW r \in Requests, Rotate(r) PROVE Minting'
  <2>1. stoken[r] \in Tokens /\ session[stoken[r]] # "none" /\ suser[r] \in Users
    BY <1>2 DEF Minting, Rotate
  <2>2. /\ spc' \in {[spc EXCEPT ![r] = "rotated"], [spc EXCEPT ![r] = "refused"]}
        /\ session' \in {[session EXCEPT ![stoken[r]] = "revoked"], session}
        /\ spc[r] = "checked"
        /\ UNCHANGED <<minted, owner, lapsed, since, rotations, suser, stoken, sgen, active,
                       password, resetLink, overlapped, disturbed, deaths>>
    BY <1>2 DEF Rotate, Goto, historyVars
  <2>3. AuthTypeOK'
    BY <2>1, <2>2 DEF Minting, AuthTypeOK
  <2>4. \A t \in Tokens :
          /\ session'[t] = "none" <=> session[t] = "none"
          /\ owner'[t] = owner[t] /\ minted' = minted
    BY <2>1, <2>2 DEF Minting, AuthTypeOK
  <2>5. \A q \in Requests :
          /\ suser'[q] = suser[q] /\ stoken'[q] = stoken[q]
          /\ spc'[q] = spc[q] \/ (q = r /\ spc'[q] \in {"rotated", "refused"})
    BY <2>2 DEF Minting, AuthTypeOK
  <2>6. \A t \in Tokens :
          /\ t > minted' => session'[t] = "none"
          /\ session'[t] # "none" => owner'[t] \in Users
          /\ session'[t] = "none" => owner'[t] = NoUser
    BY <2>4 DEF Minting
  <2>7. \A q \in Requests :
          /\ spc'[q] \in Issuing \cup {"reuse", "resetting", "revoking"} => suser'[q] \in Users
          /\ spc'[q] \in {"reuse", "checked", "rotated"} =>
               stoken'[q] \in Tokens /\ session'[stoken'[q]] # "none"
          /\ spc'[q] = "signin" => stoken'[q] = NoToken
    BY <2>1, <2>4, <2>5 DEF Minting
  <2> QED
    BY <2>3, <2>6, <2>7 DEF Minting
<1>3. ASSUME NEW r \in Requests, Issue(r) PROVE Minting'
  <2> DEFINE new == minted + 1
  <2>1. new \in Tokens /\ suser[r] \in Users /\ session[new] = "none"
    BY <1>3 DEF Minting, AuthTypeOK, Issue
  <2>2. AuthTypeOK'
    <3>1. minted' \in 0..MaxTokens
      BY <1>3, <2>1 DEF Minting, AuthTypeOK, Issue
    <3>2. rotations' \in [Tokens -> Nat]
      BY <1>3 DEF Minting, AuthTypeOK, Issue
    <3>3. /\ session' \in [Tokens -> {"none", "live", "revoked"}]
          /\ owner' \in [Tokens -> Users \cup {NoUser}] /\ since' \in [Tokens -> Nat]
      BY <1>3, <2>1 DEF Minting, AuthTypeOK, Issue
    <3>4. spc' \in [Requests -> RequestSteps] /\ stoken' \in [Requests -> Tokens \cup {NoToken}]
      BY <1>3, <2>1 DEF Minting, AuthTypeOK, Issue
    <3> QED
      BY <1>3, <3>1, <3>2, <3>3, <3>4 DEF Minting, AuthTypeOK, Issue, historyVars
  <2>3. \A t \in Tokens :
          session'[t] = (IF t = new THEN "live" ELSE session[t])
            /\ owner'[t] = (IF t = new THEN suser[r] ELSE owner[t])
    BY <1>3, <2>1 DEF Minting, AuthTypeOK, Issue
  <2>4. \A q \in Requests :
          spc'[q] = (IF q = r THEN "answered" ELSE spc[q]) /\ suser'[q] = suser[q]
            /\ (q # r => stoken'[q] = stoken[q])
    BY <1>3 DEF Minting, AuthTypeOK, Issue
  <2>5. minted' = minted + 1
    BY <1>3 DEF Issue
  <2>6. \A t \in Tokens :
          /\ t > minted' => session'[t] = "none"
          /\ session'[t] # "none" => owner'[t] \in Users
          /\ session'[t] = "none" => owner'[t] = NoUser
    <3> SUFFICES ASSUME NEW t \in Tokens
                 PROVE  /\ t > minted' => session'[t] = "none"
                        /\ session'[t] # "none" => owner'[t] \in Users
                        /\ session'[t] = "none" => owner'[t] = NoUser
      OBVIOUS
    <3>1. CASE t = new
      BY <2>1, <2>3, <2>5, <3>1 DEF Minting, AuthTypeOK
    <3>2. CASE t # new
      BY <2>1, <2>3, <2>5, <3>2 DEF Minting, AuthTypeOK
    <3> QED
      BY <3>1, <3>2
  <2>7. \A q \in Requests :
          /\ spc'[q] \in Issuing \cup {"reuse", "resetting", "revoking"} => suser'[q] \in Users
          /\ spc'[q] \in {"reuse", "checked", "rotated"} =>
               stoken'[q] \in Tokens /\ session'[stoken'[q]] # "none"
          /\ spc'[q] = "signin" => stoken'[q] = NoToken
    BY <2>3, <2>4 DEF Minting
  <2> QED
    BY <2>2, <2>6, <2>7 DEF Minting
<1>4. ASSUME NEW r \in Requests, ResetWrite(r) PROVE Minting'
  BY <1>4 DEF Minting, AuthTypeOK, ResetWrite, Goto, sessionVars, historyVars
<1>5. ASSUME NEW r \in Requests, ResetRevoke(r) PROVE Minting'
  BY <1>5 DEF Minting, AuthTypeOK, ResetRevoke, Goto, RevokeAll, UnderWay, userVars
<1>6. ASSUME NEW r \in Requests, RequestDies(r) PROVE Minting'
  BY <1>6 DEF Minting, AuthTypeOK, RequestDies, userVars, sessionVars
<1>7. ASSUME NEW r \in Requests, Respond(r) PROVE Minting'
  BY <1>7 DEF Minting, AuthTypeOK, Respond, userVars, sessionVars, historyVars
<1>8. ASSUME NEW r \in Requests, NEW u \in Users, SigninRead(r, u) PROVE Minting'
  BY <1>8 DEF Minting, AuthTypeOK, SigninRead, Begin, userVars, sessionVars, historyVars
<1>9. ASSUME NEW r \in Requests, NEW u \in Users, ResetRead(r, u) PROVE Minting'
  BY <1>9 DEF Minting, AuthTypeOK, ResetRead, Begin, userVars, sessionVars, historyVars
<1>10. ASSUME NEW r \in Requests, NEW t \in Tokens, RefreshRead(r, t) PROVE Minting'
  BY <1>10 DEF Minting, AuthTypeOK, RefreshRead, Begin, Refreshing, userVars, sessionVars
<1>11. ASSUME NEW u \in Users, RequestReset(u) PROVE Minting'
  BY <1>11 DEF Minting, AuthTypeOK, RequestReset, sessionVars, requestVars, historyVars
<1>12. ASSUME NEW u \in Users, SoftDelete(u) PROVE Minting'
  BY <1>12 DEF Minting, AuthTypeOK, SoftDelete, RevokeAll, UnderWay, requestVars
<1>13. ASSUME NEW t \in Tokens, Logout(t) PROVE Minting'
  BY <1>13 DEF Minting, AuthTypeOK, Logout, userVars, requestVars, historyVars
<1>14. ASSUME NEW t \in Tokens, Lapse(t) PROVE Minting'
  BY <1>14 DEF Minting, AuthTypeOK, Lapse, userVars, requestVars, historyVars
<1>15. CASE UNCHANGED authVars
  BY <1>15 DEF Minting, AuthTypeOK, authVars, userVars, sessionVars, requestVars, historyVars
<1>. QED
  BY <1>1, <1>2, <1>3, <1>4, <1>5, <1>6, <1>7, <1>8, <1>9, <1>10, <1>11, <1>12, <1>13,
     <1>14, <1>15 DEF AuthNext, GoesOn

-----------------------------------------------------------------------------
LEMMA RotationInit == AuthInit => Rotation
  BY DEF AuthInit, Rotation, Refreshing, Issuing

(* A step after which nobody refreshes a token that did not before.        *)
LEMMA RotationKept ==
  ASSUME Rotation, overlapped \subseteq overlapped',
         \A t \in Tokens :
           /\ rotations'[t] = rotations[t]
           /\ session[t] = "revoked" => session'[t] = "revoked"
           /\ \A r \in Refreshing(t)' : r \in Refreshing(t) /\ spc'[r] = spc[r]
  PROVE  Rotation'
  <1> SUFFICES ASSUME NEW t \in Tokens, t \notin overlapped'
               PROVE  /\ \A r, q \in Refreshing(t)' : r = q
                      /\ rotations'[t] <= 1
                      /\ rotations'[t] = 1 => session'[t] = "revoked" /\ Refreshing(t)' = {}
                      /\ \A r \in Refreshing(t)' : spc'[r] = "rotated" => session'[t] = "revoked"
    BY DEF Rotation
  <1>1. t \notin overlapped
    OBVIOUS
  <1> QED
    BY <1>1 DEF Rotation

LEMMA RotationStep == Minting /\ Rotation /\ [AuthNext]_authVars => Rotation'
<1> USE SessionConstants DEF Tokens, NoToken
<1> SUFFICES ASSUME Minting, Rotation, [AuthNext]_authVars PROVE Rotation'
  OBVIOUS
<1>1. ASSUME NEW r \in Requests, ReuseRevoke(r) PROVE Rotation'
  BY <1>1, RotationKept
     DEF Minting, AuthTypeOK, ReuseRevoke, Goto, RevokeAll, Refreshing, Issuing, RequestSteps
<1>2. ASSUME NEW r \in Requests, Rotate(r) PROVE Rotation'
  <2>1. /\ stoken[r] \in Tokens /\ spc[r] = "checked" /\ r \in Refreshing(stoken[r])
        /\ UNCHANGED <<rotations, stoken, overlapped>>
    BY <1>2 DEF Minting, Rotate, Refreshing, Issuing, historyVars
  <2>2. CASE active[suser[r]]
    <3>1. /\ spc' = [spc EXCEPT ![r] = "rotated"]
          /\ session' = [session EXCEPT ![stoken[r]] = "revoked"]
      BY <1>2, <2>2 DEF Rotate, Goto
    <3>2. \A t \in Tokens : Refreshing(t)' = Refreshing(t)
      BY <2>1, <3>1 DEF Minting, AuthTypeOK, Refreshing, Issuing
    <3>3. \A q \in Requests : spc'[q] = IF q = r THEN "rotated" ELSE spc[q]
      BY <3>1 DEF Minting, AuthTypeOK
    <3>4. \A t \in Tokens : session'[t] = IF t = stoken[r] THEN "revoked" ELSE session[t]
      BY <3>1 DEF Minting, AuthTypeOK
    <3> QED
      BY <2>1, <3>2, <3>3, <3>4 DEF Rotation, Refreshing
  <2>3. CASE ~active[suser[r]]
    <3>1. spc' = [spc EXCEPT ![r] = "refused"] /\ session' = session
      BY <1>2, <2>3 DEF Rotate, Goto
    <3> QED
      BY <2>1, <3>1, RotationKept DEF Minting, AuthTypeOK, Refreshing, Issuing
  <2> QED
    BY <2>2, <2>3
<1>3. ASSUME NEW r \in Requests, Issue(r) PROVE Rotation'
  <2> DEFINE new == minted + 1
             old == stoken[r]
  <2>1. /\ new \in Tokens /\ session[new] = "none" /\ overlapped' = overlapped
        /\ spc[r] \in {"signin", "rotated"}
        /\ spc[r] = "signin" => old = NoToken
        /\ spc[r] = "rotated" => old \in Tokens /\ session[old] # "none"
    BY <1>3 DEF Minting, AuthTypeOK, Issue, historyVars
  <2>2. \A q \in Requests :
          /\ spc'[q] = (IF q = r THEN "answered" ELSE spc[q])
          /\ stoken'[q] = (IF q = r THEN new ELSE stoken[q])
    BY <1>3 DEF Minting, AuthTypeOK, Issue
  <2>3. \A t \in Tokens : session'[t] = IF t = new THEN "live" ELSE session[t]
    BY <1>3 DEF Minting, AuthTypeOK, Issue
  <2>4. \A t \in Tokens : Refreshing(t)' = Refreshing(t) \ {r}
    BY <2>2 DEF Refreshing, Issuing
  <2>5. \A t \in Tokens : rotations'[t] = IF t = old THEN rotations[t] + 1 ELSE rotations[t]
    BY <1>3, <2>1 DEF Minting, AuthTypeOK, Issue
  <2>6. SUFFICES ASSUME NEW t \in Tokens, t \notin overlapped
                 PROVE  /\ \A q, p \in Refreshing(t)' : q = p
                        /\ rotations'[t] <= 1
                        /\ rotations'[t] = 1 => session'[t] = "revoked" /\ Refreshing(t)' = {}
                        /\ \A q \in Refreshing(t)' :
                             spc'[q] = "rotated" => session'[t] = "revoked"
    BY <2>1 DEF Rotation
  <2>7. /\ \A q, p \in Refreshing(t) : q = p
        /\ rotations[t] \in Nat /\ rotations[t] <= 1
        /\ rotations[t] = 1 => session[t] = "revoked" /\ Refreshing(t) = {}
        /\ \A q \in Refreshing(t) : spc[q] = "rotated" => session[t] = "revoked"
    BY <2>6 DEF Rotation, Minting, AuthTypeOK
  <2>8. CASE t = old
    <3>1. r \in Refreshing(t) /\ spc[r] = "rotated" /\ session[t] = "revoked"
      BY <2>1, <2>7, <2>8 DEF Refreshing, Issuing
    <3>2. Refreshing(t)' = {} /\ session'[t] = "revoked" /\ rotations'[t] = 1
      BY <2>1, <2>3, <2>4, <2>5, <2>7, <2>8, <3>1
    <3> QED
      BY <3>2
  <2>9. CASE t # old
    <3>1. t = new => rotations[t] # 1 /\ \A q \in Refreshing(t) : spc[q] # "rotated"
      BY <2>1, <2>7
    <3> QED
      BY <2>2, <2>3, <2>4, <2>5, <2>7, <2>9, <3>1 DEF Refreshing
  <2> QED
    BY <2>8, <2>9
<1>4. ASSUME NEW r \in Requests, ResetWrite(r) PROVE Rotation'
  BY <1>4, RotationKept
     DEF Minting, AuthTypeOK, ResetWrite, Goto, sessionVars, historyVars, Refreshing, Issuing
<1>5. ASSUME NEW r \in Requests, ResetRevoke(r) PROVE Rotation'
  BY <1>5, RotationKept
     DEF Minting, AuthTypeOK, ResetRevoke, Goto, RevokeAll, Refreshing, Issuing
<1>6. ASSUME NEW r \in Requests, RequestDies(r) PROVE Rotation'
  BY <1>6, RotationKept
     DEF Minting, AuthTypeOK, RequestDies, sessionVars, Refreshing, Issuing
<1>7. ASSUME NEW r \in Requests, Respond(r) PROVE Rotation'
  BY <1>7, RotationKept
     DEF Minting, AuthTypeOK, Respond, sessionVars, historyVars, Refreshing, Issuing
<1>8. ASSUME NEW r \in Requests, NEW u \in Users, SigninRead(r, u) PROVE Rotation'
  BY <1>8, RotationKept
     DEF Minting, AuthTypeOK, SigninRead, Begin, sessionVars, historyVars, Refreshing, Issuing
<1>9. ASSUME NEW r \in Requests, NEW u \in Users, ResetRead(r, u) PROVE Rotation'
  BY <1>9, RotationKept
     DEF Minting, AuthTypeOK, ResetRead, Begin, sessionVars, historyVars, Refreshing, Issuing
<1>10. ASSUME NEW r \in Requests, NEW t \in Tokens, RefreshRead(r, t) PROVE Rotation'
  <2>1. /\ UNCHANGED <<session, rotations>>
        /\ overlapped' = IF Refreshing(t) = {} THEN overlapped ELSE overlapped \cup {t}
        /\ spc[r] = "idle"
    BY <1>10 DEF RefreshRead, Begin, sessionVars
  <2>2. \A q \in Requests :
          /\ q # r => spc'[q] = spc[q] /\ stoken'[q] = stoken[q]
          /\ q = r => stoken'[q] = t /\ spc'[q] # "rotated" /\ spc'[q] # "signin"
          /\ q = r /\ spc'[q] = "checked" => session[t] = "live"
    BY <1>10 DEF Minting, AuthTypeOK, RefreshRead, Begin
  <2>3. \A p \in Tokens : Refreshing(p)' \subseteq Refreshing(p) \cup {r}
    BY <2>2 DEF Refreshing
  <2>4. \A p \in Tokens : r \in Refreshing(p)' => p = t /\ session[t] = "live"
    BY <2>2 DEF Refreshing, Issuing
  <2>5. \A p \in Tokens : r \notin Refreshing(p)
    BY <2>1 DEF Refreshing, Issuing
  <2>6. SUFFICES ASSUME NEW p \in Tokens, p \notin overlapped'
                 PROVE  /\ \A q, s \in Refreshing(p)' : q = s
                        /\ rotations'[p] <= 1
                        /\ rotations'[p] = 1 => session'[p] = "revoked" /\ Refreshing(p)' = {}
                        /\ \A q \in Refreshing(p)' :
                             spc'[q] = "rotated" => session'[p] = "revoked"
    BY DEF Rotation
  <2>7. /\ \A q, s \in Refreshing(p) : q = s
        /\ rotations[p] <= 1
        /\ rotations[p] = 1 => session[p] = "revoked" /\ Refreshing(p) = {}
        /\ \A q \in Refreshing(p) : spc[q] = "rotated" => session[p] = "revoked"
    BY <2>1, <2>6 DEF Rotation
  <2>8. CASE r \in Refreshing(p)'
    <3>1. p = t /\ session[p] = "live" /\ Refreshing(p) = {}
      BY <2>1, <2>4, <2>6, <2>8
    <3>2. Refreshing(p)' = {r}
      BY <2>3, <2>8, <3>1
    <3> QED
      BY <2>1, <2>2, <2>7, <3>1, <3>2
  <2>9. CASE r \notin Refreshing(p)'
    <3>1. Refreshing(p)' \subseteq Refreshing(p)
      BY <2>3, <2>9
    <3> QED
      BY <2>1, <2>2, <2>5, <2>7, <3>1 DEF Refreshing
  <2> QED
    BY <2>8, <2>9
<1>11. ASSUME NEW u \in Users, RequestReset(u) PROVE Rotation'
  BY <1>11, RotationKept DEF RequestReset, sessionVars, requestVars, historyVars, Refreshing
<1>12. ASSUME NEW u \in Users, SoftDelete(u) PROVE Rotation'
  BY <1>12, RotationKept DEF SoftDelete, RevokeAll, requestVars, Refreshing
<1>13. ASSUME NEW t \in Tokens, Logout(t) PROVE Rotation'
  BY <1>13, RotationKept
     DEF Minting, AuthTypeOK, Logout, requestVars, historyVars, Refreshing
<1>14. ASSUME NEW t \in Tokens, Lapse(t) PROVE Rotation'
  BY <1>14, RotationKept DEF Lapse, requestVars, historyVars, Refreshing
<1>15. CASE UNCHANGED authVars
  BY <1>15, RotationKept DEF authVars, sessionVars, requestVars, historyVars, Refreshing
<1>. QED
  BY <1>1, <1>2, <1>3, <1>4, <1>5, <1>6, <1>7, <1>8, <1>9, <1>10, <1>11, <1>12, <1>13,
     <1>14, <1>15 DEF AuthNext, GoesOn

-----------------------------------------------------------------------------
LEMMA CredentialsInit == AuthInit => Credentials
  BY DEF AuthInit, Credentials, Issuing

(* A step that issues nothing, begins nothing and settles nobody.          *)
LEMMA CredentialsKept ==
  ASSUME Credentials, UNCHANGED <<active, password>>,
         \A u : Settled(u)' => Settled(u),
         \A t \in Tokens :
           session'[t] = "live" =>
             session[t] = "live" /\ owner'[t] = owner[t] /\ since'[t] = since[t],
         \A r \in Requests :
           spc'[r] \in Issuing =>
             spc[r] \in Issuing /\ suser'[r] = suser[r] /\ sgen'[r] = sgen[r]
  PROVE  Credentials'
  <1>1. ASSUME NEW t \in Tokens, session'[t] = "live", Settled(owner[t])'
        PROVE  active'[owner'[t]] /\ since'[t] = password'[owner'[t]]
    <2>1. session[t] = "live" /\ owner'[t] = owner[t] /\ since'[t] = since[t]
      BY <1>1
    <2>2. Settled(owner[t])
      BY <1>1, <2>1
    <2> QED
      BY <2>1, <2>2 DEF Credentials
  <1>2. ASSUME NEW r \in Requests, spc'[r] \in Issuing, Settled(suser[r])'
        PROVE  active'[suser'[r]] /\ sgen'[r] = password'[suser'[r]]
    <2>1. spc[r] \in Issuing /\ suser'[r] = suser[r] /\ sgen'[r] = sgen[r]
      BY <1>2
    <2>2. Settled(suser[r])
      BY <1>2, <2>1
    <2> QED
      BY <2>1, <2>2 DEF Credentials
  <1> QED
    BY <1>1, <1>2 DEF Credentials, Issuing

(* Nobody's revocation ends, or is disturbed no more, in a step like this. *)
LEMMA SettledKept ==
  ASSUME disturbed \subseteq disturbed',
         \A r \in Requests :
           spc[r] = "revoking" => (spc'[r] = "revoking" /\ suser'[r] = suser[r])
                                    \/ suser[r] \in disturbed'
  PROVE  \A u : Settled(u)' => Settled(u)
  BY DEF Settled, Revoking

LEMMA CredentialsStep == Minting /\ Credentials /\ [AuthNext]_authVars => Credentials'
<1> USE DEF Issuing
<1> SUFFICES ASSUME Minting, Credentials, [AuthNext]_authVars PROVE Credentials'
  OBVIOUS
<1>1. ASSUME NEW r \in Requests, ReuseRevoke(r) PROVE Credentials'
  <2>1. \A u : Settled(u)' => Settled(u)
    BY <1>1, SettledKept DEF Minting, AuthTypeOK, ReuseRevoke, Goto, RevokeAll, RequestSteps
  <2> QED
    BY <1>1, <2>1, CredentialsKept
       DEF Minting, AuthTypeOK, ReuseRevoke, Goto, RevokeAll, userVars, RequestSteps
<1>2. ASSUME NEW r \in Requests, Rotate(r) PROVE Credentials'
  <2>1. \A u : Settled(u)' => Settled(u)
    BY <1>2, SettledKept DEF Minting, AuthTypeOK, Rotate, Goto, historyVars, RequestSteps
  <2>2. \A t \in Tokens : session'[t] = "live" => session[t] = "live"
    BY <1>2 DEF Minting, AuthTypeOK, Rotate
  <2> QED
    BY <1>2, <2>1, <2>2, CredentialsKept
       DEF Minting, AuthTypeOK, Rotate, Goto, userVars, RequestSteps
<1>3. ASSUME NEW r \in Requests, Issue(r) PROVE Credentials'
  <2> DEFINE new == minted + 1
  <2>1. \A u : Settled(u)' => Settled(u)
    BY <1>3, SettledKept DEF Minting, AuthTypeOK, Issue, historyVars, RequestSteps
  <2>2. new \in Tokens /\ spc[r] \in Issuing /\ UNCHANGED <<active, password, suser, sgen>>
    BY <1>3 DEF Issue, userVars
  <2>3. \A t \in Tokens :
          /\ session'[t] = (IF t = new THEN "live" ELSE session[t])
          /\ owner'[t] = (IF t = new THEN suser[r] ELSE owner[t])
          /\ since'[t] = (IF t = new THEN sgen[r] ELSE since[t])
    BY <1>3 DEF Minting, AuthTypeOK, Issue
  <2>4. \A q \in Requests : spc'[q] = IF q = r THEN "answered" ELSE spc[q]
    BY <1>3 DEF Minting, AuthTypeOK, Issue
  <2>5. ASSUME NEW t \in Tokens, session'[t] = "live", Settled(owner[t])'
        PROVE  active'[owner'[t]] /\ since'[t] = password'[owner'[t]]
    <3>1. CASE t = new
      BY <2>1, <2>2, <2>3, <2>5, <3>1 DEF Credentials
    <3>2. CASE t # new
      BY <2>1, <2>2, <2>3, <2>5, <3>2 DEF Credentials
    <3> QED
      BY <3>1, <3>2
  <2>6. ASSUME NEW q \in Requests, spc'[q] \in Issuing, Settled(suser[q])'
        PROVE  active'[suser'[q]] /\ sgen'[q] = password'[suser'[q]]
    BY <2>1, <2>2, <2>4, <2>6 DEF Credentials
  <2> QED
    BY <2>5, <2>6 DEF Credentials
<1>4. ASSUME NEW r \in Requests, ResetWrite(r) PROVE Credentials'
  <2>1. /\ suser[r] \in Users /\ Revoking(suser[r])'
        /\ \A u \in Users : u # suser[r] => password'[u] = password[u]
        /\ UNCHANGED <<active, session, owner, since, suser, sgen>>
        /\ \A q \in Requests : spc'[q] \in Issuing => spc[q] \in Issuing
    BY <1>4 DEF Minting, AuthTypeOK, ResetWrite, Goto, Revoking, sessionVars, RequestSteps
  <2>2. \A u : Settled(u)' => Settled(u) /\ u # suser[r]
    <3>1. \A u : Settled(u)' => Settled(u)
      BY <1>4, SettledKept DEF Minting, AuthTypeOK, ResetWrite, Goto, historyVars, RequestSteps
    <3> QED
      BY <2>1, <3>1 DEF Settled
  <2>3. ASSUME NEW t \in Tokens, session'[t] = "live", Settled(owner[t])'
        PROVE  active'[owner'[t]] /\ since'[t] = password'[owner'[t]]
    BY <2>1, <2>2, <2>3 DEF Credentials, Minting
  <2>4. ASSUME NEW q \in Requests, spc'[q] \in Issuing, Settled(suser[q])'
        PROVE  active'[suser'[q]] /\ sgen'[q] = password'[suser'[q]]
    BY <2>1, <2>2, <2>4 DEF Credentials, Minting
  <2> QED
    BY <2>3, <2>4 DEF Credentials
<1>5. ASSUME NEW r \in Requests, ResetRevoke(r) PROVE Credentials'
  <2> DEFINE u == suser[r]
  <2>1. /\ u \in Users
        /\ UNCHANGED <<active, password, owner, since, suser, sgen>>
        /\ \A t \in Tokens :
             session'[t] = IF owner[t] = u THEN "revoked" ELSE session[t]
        /\ disturbed' = IF UnderWay(u) = {} THEN disturbed ELSE disturbed \cup {u}
        /\ \A q \in Requests : spc'[q] = IF q = r THEN "refused" ELSE spc[q]
    BY <1>5 DEF Minting, AuthTypeOK, ResetRevoke, Goto, RevokeAll, userVars
  <2>2. \A w : w # u /\ Settled(w)' => Settled(w)
    BY <2>1 DEF Settled, Revoking
  <2>3. ASSUME NEW t \in Tokens, session'[t] = "live", Settled(owner[t])'
        PROVE  active'[owner'[t]] /\ since'[t] = password'[owner'[t]]
    BY <2>1, <2>2, <2>3 DEF Credentials
  <2>4. ASSUME NEW q \in Requests, spc'[q] \in Issuing, Settled(suser[q])'
        PROVE  active'[suser'[q]] /\ sgen'[q] = password'[suser'[q]]
    <3>1. suser[q] # u
      BY <2>1, <2>4 DEF Settled, UnderWay
    <3> QED
      BY <2>1, <2>2, <2>4, <3>1 DEF Credentials
  <2> QED
    BY <2>3, <2>4 DEF Credentials
<1>6. ASSUME NEW r \in Requests, RequestDies(r) PROVE Credentials'
  <2>1. \A u : Settled(u)' => Settled(u)
    BY <1>6, SettledKept DEF Minting, AuthTypeOK, RequestDies, RequestSteps
  <2> QED
    BY <1>6, <2>1, CredentialsKept
       DEF Minting, AuthTypeOK, RequestDies, userVars, sessionVars, RequestSteps
<1>7. ASSUME NEW r \in Requests, Respond(r) PROVE Credentials'
  <2>1. \A u : Settled(u)' => Settled(u)
    BY <1>7, SettledKept DEF Minting, AuthTypeOK, Respond, historyVars, RequestSteps
  <2> QED
    BY <1>7, <2>1, CredentialsKept
       DEF Minting, AuthTypeOK, Respond, userVars, sessionVars, RequestSteps
<1>8. ASSUME NEW r \in Requests, NEW u \in Users, SigninRead(r, u) PROVE Credentials'
  <2>1. \A w : Settled(w)' => Settled(w)
    BY <1>8, SettledKept
       DEF Minting, AuthTypeOK, SigninRead, Begin, historyVars, RequestSteps
  <2>2. /\ UNCHANGED <<active, password, session, owner, since>> /\ active[u]
        /\ \A q \in Requests :
             IF q = r THEN suser'[q] = u /\ sgen'[q] = password[u]
             ELSE spc'[q] = spc[q] /\ suser'[q] = suser[q] /\ sgen'[q] = sgen[q]
    BY <1>8 DEF Minting, AuthTypeOK, SigninRead, Begin, userVars, sessionVars
  <2> QED
    BY <2>1, <2>2 DEF Credentials
<1>9. ASSUME NEW r \in Requests, NEW u \in Users, ResetRead(r, u) PROVE Credentials'
  <2>1. \A w : Settled(w)' => Settled(w)
    BY <1>9, SettledKept
       DEF Minting, AuthTypeOK, ResetRead, Begin, historyVars, RequestSteps
  <2> QED
    BY <1>9, <2>1, CredentialsKept
       DEF Minting, AuthTypeOK, ResetRead, Begin, userVars, sessionVars, RequestSteps
<1>10. ASSUME NEW r \in Requests, NEW t \in Tokens, RefreshRead(r, t) PROVE Credentials'
  <2>1. \A w : Settled(w)' => Settled(w)
    BY <1>10, SettledKept DEF Minting, AuthTypeOK, RefreshRead, Begin, RequestSteps
  <2>2. /\ UNCHANGED <<active, password, session, owner, since>>
        /\ \A q \in Requests :
             IF q = r
             THEN /\ suser'[q] = owner[t] /\ sgen'[q] = since[t]
                  /\ spc'[q] \in Issuing => session[t] = "live"
             ELSE spc'[q] = spc[q] /\ suser'[q] = suser[q] /\ sgen'[q] = sgen[q]
    BY <1>10 DEF Minting, AuthTypeOK, RefreshRead, Begin, userVars, sessionVars
  <2> QED
    BY <2>1, <2>2 DEF Credentials
<1>11. ASSUME NEW u \in Users, RequestReset(u) PROVE Credentials'
  <2>1. \A w : Settled(w)' => Settled(w)
    BY <1>11, SettledKept DEF RequestReset, requestVars, historyVars
  <2> QED
    BY <1>11, <2>1, CredentialsKept DEF RequestReset, requestVars, sessionVars
<1>12. ASSUME NEW u \in Users, SoftDelete(u) PROVE Credentials'
  <2>1. /\ UNCHANGED <<password, owner, since, spc, suser, sgen>>
        /\ \A w \in Users : w # u => active'[w] = active[w]
        /\ \A t \in Tokens :
             session'[t] = IF owner[t] = u THEN "revoked" ELSE session[t]
        /\ disturbed' = IF UnderWay(u) = {} THEN disturbed ELSE disturbed \cup {u}
    BY <1>12 DEF Minting, AuthTypeOK, SoftDelete, RevokeAll, requestVars
  <2>2. \A w : Settled(w)' => Settled(w)
    BY <2>1 DEF Settled, Revoking
  <2>3. ASSUME NEW t \in Tokens, session'[t] = "live", Settled(owner[t])'
        PROVE  active'[owner'[t]] /\ since'[t] = password'[owner'[t]]
    BY <2>1, <2>2, <2>3 DEF Credentials, Minting
  <2>4. ASSUME NEW q \in Requests, spc'[q] \in Issuing, Settled(suser[q])'
        PROVE  active'[suser'[q]] /\ sgen'[q] = password'[suser'[q]]
    <3>1. suser[q] # u /\ suser[q] \in Users
      BY <2>1, <2>4 DEF Settled, UnderWay, Minting
    <3> QED
      BY <2>1, <2>2, <2>4, <3>1 DEF Credentials
  <2> QED
    BY <2>3, <2>4 DEF Credentials
<1>13. ASSUME NEW t \in Tokens, Logout(t) PROVE Credentials'
  <2>1. \A w : Settled(w)' => Settled(w)
    BY <1>13, SettledKept DEF Logout, requestVars, historyVars
  <2>2. \A p \in Tokens : session'[p] = "live" => session[p] = "live"
    BY <1>13 DEF Minting, AuthTypeOK, Logout
  <2> QED
    BY <1>13, <2>1, <2>2, CredentialsKept DEF Logout, userVars, requestVars
<1>14. ASSUME NEW t \in Tokens, Lapse(t) PROVE Credentials'
  <2>1. \A w : Settled(w)' => Settled(w)
    BY <1>14, SettledKept DEF Lapse, requestVars, historyVars
  <2> QED
    BY <1>14, <2>1, CredentialsKept DEF Lapse, userVars, requestVars
<1>15. CASE UNCHANGED authVars
  <2>1. \A w : Settled(w)' => Settled(w)
    BY <1>15, SettledKept DEF authVars, requestVars, historyVars
  <2> QED
    BY <1>15, <2>1, CredentialsKept
       DEF authVars, userVars, sessionVars, requestVars, historyVars
<1>. QED
  BY <1>1, <1>2, <1>3, <1>4, <1>5, <1>6, <1>7, <1>8, <1>9, <1>10, <1>11, <1>12, <1>13,
     <1>14, <1>15 DEF AuthNext, GoesOn

-----------------------------------------------------------------------------
(* The three parts hold together, of any users, handlers and bounds.       *)
THEOREM AuthInvariant == AuthSpec => []AuthInv
<1>1. AuthInit => AuthInv
  BY MintingInit, RotationInit, CredentialsInit DEF AuthInv
<1>2. AuthInv /\ [AuthNext]_authVars => AuthInv'
  BY MintingStep, RotationStep, CredentialsStep DEF AuthInv
<1> QED
  BY <1>1, <1>2, PTL DEF AuthSpec

(* Every handler's step and every row is as AuthTypeOK says.               *)
THEOREM SessionsTyped == AuthSpec => []AuthTypeOK
<1>1. AuthInv => AuthTypeOK
  BY DEF AuthInv, Minting
<1> QED
  BY <1>1, AuthInvariant, PTL

(* However many handlers refresh however many tokens: rotate() gives a     *)
(* token one successor unless two refreshes of it overlap.                 *)
THEOREM RotatesOnce == AuthSpec => []RotatedOnce
<1>1. AuthInv => RotatedOnce
  BY DEF AuthInv, Rotation, RotatedOnce
<1> QED
  BY <1>1, AuthInvariant, PTL

(* No session outlives the reset of its password or the deletion of its    *)
(* user, but for handlers under way at that time or dead before it.        *)
THEOREM RevocationsHold == AuthSpec => []RevocationHolds
<1>1. AuthInv => RevocationHolds
  BY DEF AuthInv, Credentials, Settled, RevocationHolds
<1> QED
  BY <1>1, AuthInvariant, PTL

-----------------------------------------------------------------------------

(* ... and what a handler answers with is a token.                         *)
Answers == \A r \in Requests : spc[r] = "answered" => stoken[r] \in Tokens

LEMMA AnswersStep == Minting /\ Answers /\ [AuthNext]_authVars => Answers'
<1> USE DEF Answers, Issuing, RequestSteps
<1> SUFFICES ASSUME Minting, Answers, [AuthNext]_authVars PROVE Answers'
  OBVIOUS
<1>1. ASSUME NEW r \in Requests, ReuseRevoke(r) PROVE Answers'
  BY <1>1 DEF Minting, AuthTypeOK, ReuseRevoke, Goto
<1>2. ASSUME NEW r \in Requests, Rotate(r) PROVE Answers'
  BY <1>2 DEF Minting, AuthTypeOK, Rotate, Goto
<1>3. ASSUME NEW r \in Requests, Issue(r) PROVE Answers'
  BY <1>3 DEF Minting, AuthTypeOK, Issue
<1>4. ASSUME NEW r \in Requests, ResetWrite(r) PROVE Answers'
  BY <1>4 DEF Minting, AuthTypeOK, ResetWrite, Goto
<1>5. ASSUME NEW r \in Requests, ResetRevoke(r) PROVE Answers'
  BY <1>5 DEF Minting, AuthTypeOK, ResetRevoke, Goto
<1>6. ASSUME NEW r \in Requests, RequestDies(r) PROVE Answers'
  BY <1>6 DEF Minting, AuthTypeOK, RequestDies
<1>7. ASSUME NEW r \in Requests, Respond(r) PROVE Answers'
  BY <1>7 DEF Minting, AuthTypeOK, Respond
<1>8. ASSUME NEW r \in Requests, NEW u \in Users, SigninRead(r, u) PROVE Answers'
  BY <1>8 DEF Minting, AuthTypeOK, SigninRead, Begin
<1>9. ASSUME NEW r \in Requests, NEW u \in Users, ResetRead(r, u) PROVE Answers'
  BY <1>9 DEF Minting, AuthTypeOK, ResetRead, Begin
<1>10. ASSUME NEW r \in Requests, NEW t \in Tokens, RefreshRead(r, t) PROVE Answers'
  BY <1>10 DEF Minting, AuthTypeOK, RefreshRead, Begin
<1>11. ASSUME NEW u \in Users, RequestReset(u) \/ SoftDelete(u) PROVE Answers'
  BY <1>11 DEF RequestReset, SoftDelete, requestVars
<1>12. ASSUME NEW t \in Tokens, Logout(t) \/ Lapse(t) PROVE Answers'
  BY <1>12 DEF Logout, Lapse, requestVars
<1>13. CASE UNCHANGED authVars
  BY <1>13 DEF authVars, requestVars
<1>. QED
  BY <1>1, <1>2, <1>3, <1>4, <1>5, <1>6, <1>7, <1>8, <1>9, <1>10, <1>11, <1>12, <1>13
     DEF AuthNext, GoesOn

(* Whatever a tab does, it does by requests the server knows.              *)
LEMMA WebIsClient == WebTypeOK /\ WebNext => [AuthNext]_authVars
<1> USE WebConstants
<1> SUFFICES ASSUME WebTypeOK, WebNext PROVE [AuthNext]_authVars
  OBVIOUS
<1>0. /\ store # NoToken => store \in Tokens
      /\ \A b \in Tabs : (flight[b] # NoRequest => flight[b] \in Requests)
                      /\ (direct[b] # NoRequest => direct[b] \in Requests)
  BY DEF WebTypeOK
<1>1. ASSUME NEW r \in Requests, ServerStep(r) PROVE AuthNext
  BY <1>1 DEF ServerStep, AuthNext
<1>2. ASSUME NEW b \in Tabs, NEW l \in Lanes, CallSucceeds(b, l) \/ CallUnauthorized(b, l)
      PROVE  [AuthNext]_authVars
  BY <1>0, <1>2 DEF CallSucceeds, CallUnauthorized, AuthNext
<1>3. ASSUME NEW b \in Tabs, FlightSucceeds(b) \/ FlightRefused(b) PROVE [AuthNext]_authVars
  BY <1>0, <1>3 DEF FlightSucceeds, FlightRefused, AuthNext
<1>4. ASSUME NEW b \in Tabs, DirectSucceeds(b) \/ DirectFails(b) PROVE [AuthNext]_authVars
  BY <1>0, <1>4 DEF DirectSucceeds, DirectFails, AuthNext
<1>5. ASSUME NEW b \in Tabs, FlightLost(b) PROVE [AuthNext]_authVars
  BY <1>0, <1>5 DEF FlightLost, AuthNext
<1>6. ASSUME NEW b \in Tabs, SignIn(b) \/ RefreshNow(b) \/ LogoutCall(b)
      PROVE  [AuthNext]_authVars
  BY <1>0, <1>6 DEF SignIn, RefreshNow, LogoutCall, AuthNext
<1>7. ASSUME NEW b \in Tabs,
             \/ LogoutClears(b) \/ Mount(b) \/ HydrateFails(b) \/ Close(b)
             \/ \E k \in Calls : Call(b, k)
      PROVE  UNCHANGED authVars
  BY <1>7 DEF LogoutClears, Mount, Call, HydrateFails, Close
<1>8. ASSUME NEW t \in Tokens, GoStale(t) PROVE UNCHANGED authVars
  BY <1>8 DEF GoStale
<1> QED
  BY <1>1, <1>2, <1>3, <1>4, <1>5, <1>6, <1>7, <1>8 DEF WebNext, TabStep

LEMMA WebTypedInit == WebInit => WebTypeOK
  BY SessionConstants, WebConstants DEF WebInit, WebTypeOK, Lanes, Idle, NoToken

LEMMA EndedTyped ==
  ASSUME WebTypeOK, NEW b \in Tabs, NEW lanes
  PROVE  Ended(b, lanes) \in [Tabs -> [Lanes -> Tokens \cup {NoToken, Idle}]]
  BY DEF WebTypeOK, Ended

LEMMA SettleTyped ==
  ASSUME WebTypeOK, NEW b \in Tabs,
         NEW answer \in {"closed", "loading", "anonymous", "authenticated"},
         Settle(b, answer)
  PROVE  /\ page' \in [Tabs -> {"closed", "loading", "anonymous", "authenticated"}]
         /\ call' \in [Tabs -> [Lanes -> Tokens \cup {NoToken, Idle}]]
  BY DEF WebTypeOK, Settle, Lanes

LEMMA WebTypedStep == Answers /\ WebTypeOK /\ WebNext => WebTypeOK'
<1> USE SessionConstants, WebConstants
<1> SUFFICES ASSUME Answers, WebTypeOK, WebNext PROVE WebTypeOK'
  OBVIOUS
<1> USE DEF pageVars, storeVars, clientHistory
<1>1. ASSUME NEW r \in Requests, ServerStep(r) PROVE WebTypeOK'
  BY <1>1 DEF ServerStep, WebTypeOK, webVars
<1>2. ASSUME NEW b \in Tabs, NEW l \in Lanes, CallSucceeds(b, l) PROVE WebTypeOK'
  BY <1>2, EndedTyped DEF CallSucceeds, WebTypeOK
<1>3. ASSUME NEW b \in Tabs, NEW l \in Lanes, CallUnauthorized(b, l) PROVE WebTypeOK'
  <2>1. call' \in {call, Ended(b, {l})}
    BY <1>3 DEF CallUnauthorized
  <2>2. call' \in [Tabs -> [Lanes -> Tokens \cup {NoToken, Idle}]]
    BY <2>1, EndedTyped DEF WebTypeOK
  <2>3. page' \in [Tabs -> {"closed", "loading", "anonymous", "authenticated"}]
    BY <1>3 DEF CallUnauthorized, WebTypeOK
  <2>4. flight' \in [Tabs -> Requests \cup {NoRequest}]
    BY <1>3 DEF CallUnauthorized, WebTypeOK
  <2>5. waiting' \in [Tabs -> SUBSET Lanes]
    BY <1>3 DEF CallUnauthorized, WebTypeOK
  <2> QED
    BY <1>3, <2>2, <2>3, <2>4, <2>5 DEF CallUnauthorized, WebTypeOK
<1>4. ASSUME NEW b \in Tabs, FlightSucceeds(b) PROVE WebTypeOK'
  BY <1>4, EndedTyped DEF FlightSucceeds, WebTypeOK, Answers
<1>5. ASSUME NEW b \in Tabs, FlightRefused(b) PROVE WebTypeOK'
  BY <1>5, EndedTyped DEF FlightRefused, WebTypeOK
<1>6. ASSUME NEW b \in Tabs, FlightLost(b) PROVE WebTypeOK'
  <2>1. call' \in [Tabs -> [Lanes -> Tokens \cup {NoToken, Idle}]]
    BY <1>6, EndedTyped DEF FlightLost
  <2>2. page' \in [Tabs -> {"closed", "loading", "anonymous", "authenticated"}]
    BY <1>6 DEF FlightLost, WebTypeOK
  <2>3. direct' \in [Tabs -> Requests \cup {NoRequest}]
    BY <1>6 DEF FlightLost, WebTypeOK
  <2>4. /\ flight' \in [Tabs -> Requests \cup {NoRequest}]
        /\ waiting' \in [Tabs -> SUBSET Lanes] /\ losses' \in Nat
        /\ UNCHANGED <<store, stale, forms, leaving>>
    BY <1>6 DEF FlightLost, WebTypeOK
  <2> QED
    BY <2>1, <2>2, <2>3, <2>4 DEF WebTypeOK
<1>7. ASSUME NEW b \in Tabs, DirectSucceeds(b) PROVE WebTypeOK'
  BY <1>7, SettleTyped DEF DirectSucceeds, WebTypeOK, Answers
<1>8. ASSUME NEW b \in Tabs, DirectFails(b) PROVE WebTypeOK'
  BY <1>8, SettleTyped DEF DirectFails, WebTypeOK
<1>9. ASSUME NEW b \in Tabs, LogoutClears(b) \/ LogoutCall(b) PROVE WebTypeOK'
  BY <1>9 DEF LogoutClears, LogoutCall, WebTypeOK
<1>10. ASSUME NEW b \in Tabs, Mount(b) PROVE WebTypeOK'
  <2>1. CASE store = NoToken
    BY <1>10, <2>1, SettleTyped DEF Mount, WebTypeOK
  <2>2. CASE store # NoToken
    <3>1. call' = [call EXCEPT ![b] = [call[b] EXCEPT !["hydrate"] = store]]
      BY <1>10, <2>2 DEF Mount
    <3>2. call[b] \in [Lanes -> Tokens \cup {NoToken, Idle}] /\ store \in Tokens \cup {NoToken}
      BY DEF WebTypeOK
    <3>3. [call[b] EXCEPT !["hydrate"] = store] \in [Lanes -> Tokens \cup {NoToken, Idle}]
      BY <3>2
    <3>4. call' \in [Tabs -> [Lanes -> Tokens \cup {NoToken, Idle}]]
      BY <3>1, <3>3 DEF WebTypeOK
    <3>5. page' \in [Tabs -> {"closed", "loading", "anonymous", "authenticated"}]
      BY <1>10, <2>2 DEF Mount, WebTypeOK
    <3> QED
      BY <1>10, <2>2, <3>4, <3>5 DEF Mount, WebTypeOK, storeVars, clientHistory
  <2> QED
    BY <2>1, <2>2
<1>11. ASSUME NEW b \in Tabs, NEW k \in Calls, Call(b, k) PROVE WebTypeOK'
  BY <1>11 DEF Call, WebTypeOK, Lanes
<1>12. ASSUME NEW b \in Tabs, HydrateFails(b) PROVE WebTypeOK'
  BY <1>12, SettleTyped DEF HydrateFails, WebTypeOK
<1>13. ASSUME NEW b \in Tabs, SignIn(b) \/ RefreshNow(b) PROVE WebTypeOK'
  BY <1>13 DEF SignIn, RefreshNow, WebTypeOK
<1>14. ASSUME NEW b \in Tabs, Close(b) PROVE WebTypeOK'
  BY <1>14, EndedTyped DEF Close, WebTypeOK
<1>15. ASSUME NEW t \in Tokens, GoStale(t) PROVE WebTypeOK'
  BY <1>15 DEF GoStale, WebTypeOK
<1> QED
  BY <1>1, <1>2, <1>3, <1>4, <1>5, <1>6, <1>7, <1>8, <1>9, <1>10, <1>11, <1>12, <1>13,
     <1>14, <1>15 DEF WebNext, TabStep

-----------------------------------------------------------------------------
(* As no account is deleted and no session is thirty days old: what the    *)
(* browser alone can do to the server.                                     *)
Serving == (\A u \in Users : active[u]) /\ lapsed = {}

Quiet == ~raced /\ losses = 0

(* The token stored, if any, can be refreshed.                             *)
Good == store # NoToken => session[store] = "live"

(* Nothing of the browser is in the air, logout's call perhaps excepted.   *)
Nobody ==
  /\ \A b \in Tabs : flight[b] = NoRequest /\ direct[b] = NoRequest
  /\ \A r \in Requests : spc[r] = "idle"
  /\ leaving = {} => Good

(* Request r of tab b is the only one in the air, and will be answered.    *)
Alone(b, r) ==
  /\ \/ flight[b] = r /\ direct[b] = NoRequest
     \/ direct[b] = r /\ flight[b] = NoRequest
  /\ \A c \in Tabs : c # b => flight[c] = NoRequest /\ direct[c] = NoRequest
  /\ \A q \in Requests : q # r => spc[q] = "idle"
  /\ leaving = {}
  /\ spc[r] \in {"signin", "checked", "rotated", "answered"}
  /\ spc[r] \in {"signin", "checked"} => Good
  /\ spc[r] = "checked" => stoken[r] = store
  /\ spc[r] = "answered" => stoken[r] \in Tokens /\ session[stoken[r]] = "live"

(* While requests have neither overlapped nor lost a reply.                *)
Calm ==
  Quiet =>
    /\ ~refused
    /\ Nobody \/ \E b \in Tabs, r \in Requests : Alone(b, r)
    /\ loggedOut =>
         /\ store = NoToken
         /\ \A b \in Tabs : flight[b] = NoRequest /\ (direct[b] # NoRequest => b \in forms)

LEMMA ServingStep == Serving /\ WebNext => Serving'
<1> USE DEF Serving, userVars, sessionVars, authVars
<1> SUFFICES ASSUME Serving, WebNext PROVE UNCHANGED <<active, lapsed>>
  OBVIOUS
<1>1. ASSUME NEW r \in Requests, GoesOn(r) PROVE UNCHANGED <<active, lapsed>>
  BY <1>1 DEF GoesOn, ReuseRevoke, Rotate, Issue, ResetWrite, ResetRevoke
<1>2. ASSUME NEW r, Respond(r) PROVE UNCHANGED <<active, lapsed>>
  BY <1>2 DEF Respond
<1>3. ASSUME NEW r, NEW t, RefreshRead(r, t) PROVE UNCHANGED <<active, lapsed>>
  BY <1>3 DEF RefreshRead
<1>4. ASSUME NEW r, NEW u, SigninRead(r, u) PROVE UNCHANGED <<active, lapsed>>
  BY <1>4 DEF SigninRead
<1>5. ASSUME NEW t, Logout(t) PROVE UNCHANGED <<active, lapsed>>
  BY <1>5 DEF Logout
<1>6. ASSUME NEW r \in Requests, ServerStep(r) PROVE UNCHANGED <<active, lapsed>>
  BY <1>1, <1>2, <1>6 DEF ServerStep
<1>7. ASSUME NEW b \in Tabs, TabStep(b) PROVE UNCHANGED <<active, lapsed>>
  BY <1>2, <1>3, <1>7
     DEF TabStep, CallSucceeds, CallUnauthorized, FlightSucceeds, FlightRefused,
         DirectSucceeds, DirectFails, LogoutClears
<1>8. ASSUME NEW b \in Tabs,
             \/ Mount(b) \/ FlightLost(b) \/ HydrateFails(b) \/ \E k \in Calls : Call(b, k)
             \/ SignIn(b) \/ RefreshNow(b) \/ LogoutCall(b) \/ Close(b)
      PROVE  UNCHANGED <<active, lapsed>>
  BY <1>3, <1>4, <1>5, <1>8
     DEF Mount, Call, FlightLost, HydrateFails, SignIn, RefreshNow, LogoutCall, Close
<1>9. ASSUME NEW t, GoStale(t) PROVE UNCHANGED <<active, lapsed>>
  BY <1>9 DEF GoStale
<1> QED
  BY <1>6, <1>7, <1>8, <1>9 DEF WebNext

(* A step that changes nothing of this.                                    *)
LEMMA CalmKept ==
  ASSUME Calm, UNCHANGED <<store, session, spc, stoken, flight, direct, forms, leaving,
                           losses, raced, loggedOut, refused>>
  PROVE  Calm'
  BY DEF Calm, Quiet, Nobody, Alone, Good

(* A request begins while nothing else is in the air.                      *)
LEMMA CalmBegins ==
  ASSUME Minting, Calm, Quiet, ~Busy,
         NEW b \in Tabs, NEW r \in Requests, WebTypeOK,
         \/ flight' = [flight EXCEPT ![b] = r] /\ direct' = direct
         \/ direct' = [direct EXCEPT ![b] = r] /\ flight' = flight,
         spc[r] = "idle", spc'[r] \in {"signin", "checked"},
         \A q \in Requests : q # r => spc'[q] = spc[q],
         spc'[r] = "checked" => stoken'[r] = store,
         UNCHANGED <<store, session, leaving, refused, loggedOut>>,
         forms \subseteq forms',
         loggedOut => direct' # direct /\ b \in forms'
  PROVE  Calm'
<1> USE WebConstants
<1>1. /\ \A c \in Tabs : flight[c] = NoRequest /\ direct[c] = NoRequest
      /\ leaving = {}
  BY DEF Busy, InTheAir
<1>2. r # NoRequest
  OBVIOUS
<1>3. Nobody
  <2>1. \A c \in Tabs, q \in Requests : ~Alone(c, q)
    BY <1>1 DEF Alone
  <2> QED
    BY <2>1 DEF Calm
<1>4. \A c \in Tabs : /\ c # b => flight'[c] = NoRequest /\ direct'[c] = NoRequest
                      /\ c = b => \/ flight'[c] = r /\ direct'[c] = NoRequest
                                  \/ direct'[c] = r /\ flight'[c] = NoRequest
                      /\ flight' = flight => flight'[c] = NoRequest
                      /\ direct'[c] # NoRequest => c = b
  BY <1>1, <1>2 DEF WebTypeOK
<1>5. Alone(b, r)'
  BY <1>1, <1>3, <1>4 DEF Alone, Nobody, Good
<1>6. ~refused'
  BY DEF Calm
<1>7. loggedOut' => store' = NoToken /\ flight' = flight /\ b \in forms'
  BY DEF Calm
<1> QED
  BY <1>4, <1>5, <1>6, <1>7 DEF Calm

(* What the server does with the stored token is to find it live.          *)
LEMMA RefreshBegins ==
  ASSUME Minting, WebTypeOK, Serving, Calm, Quiet, ~Busy, store # NoToken,
         NEW r \in Requests, RefreshRead(r, store)
  PROVE  /\ spc[r] = "idle" /\ spc'[r] = "checked" /\ stoken'[r] = store
         /\ \A q \in Requests : q # r => spc'[q] = spc[q]
         /\ session' = session /\ ~loggedOut
<1>1. leaving = {} /\ Nobody
  BY WebConstants DEF Calm, Busy, InTheAir, Alone
<1>2. session[store] = "live"
  BY <1>1 DEF Nobody, Good
<1>3. ~loggedOut
  BY DEF Calm
<1> QED
  BY <1>2, <1>3 DEF RefreshRead, Begin, Serving, sessionVars, Minting, AuthTypeOK, WebTypeOK

(* A request of the browser ends with tokens.                              *)
LEMMA CalmSucceeds ==
  ASSUME Minting, WebTypeOK, Calm, Quiet, NEW b \in Tabs, NEW r \in Requests,
         spc[r] = "answered", Respond(r), store' = stoken[r],
         \/ flight[b] = r /\ flight' = [flight EXCEPT ![b] = NoRequest] /\ direct' = direct
            /\ loggedOut' = loggedOut
         \/ direct[b] = r /\ direct' = [direct EXCEPT ![b] = NoRequest] /\ flight' = flight
            /\ loggedOut' = (loggedOut /\ b \notin forms),
         UNCHANGED <<refused, leaving>>
  PROVE  Calm'
<1> USE WebConstants
<1>1. \A q \in Requests : spc'[q] = IF q = r THEN "idle" ELSE spc[q]
  BY DEF Respond, Minting, AuthTypeOK
<1>2. UNCHANGED session
  BY DEF Respond, sessionVars
<1>3. Alone(b, r)
  <2>1. flight[b] # NoRequest \/ direct[b] # NoRequest
    OBVIOUS
  <2>2. PICK c \in Tabs, q \in Requests : Alone(c, q)
    BY <2>1 DEF Calm, Nobody
  <2>3. c = b /\ q = r
    BY <2>1, <2>2 DEF Alone
  <2> QED
    BY <2>2, <2>3
<1>4. \A c \in Tabs : flight'[c] = NoRequest /\ direct'[c] = NoRequest
  BY <1>3 DEF Alone, WebTypeOK
<1>5. Nobody'
  <2>1. session'[store'] = "live"
    BY <1>2, <1>3 DEF Alone
  <2>2. \A q \in Requests : spc'[q] = "idle"
    BY <1>1, <1>3 DEF Alone
  <2> QED
    BY <1>4, <2>1, <2>2 DEF Nobody, Good
<1>6. ~refused' /\ ~loggedOut'
  <2>1. /\ ~refused
        /\ loggedOut => flight[b] = NoRequest /\ (direct[b] # NoRequest => b \in forms)
    BY DEF Calm
  <2>2. loggedOut => flight[b] # r /\ (direct[b] = r => b \in forms)
    BY <2>1
  <2>3. ~loggedOut'
    BY <2>2
  <2> QED
    BY <2>1, <2>3
<1> QED
  BY <1>5, <1>6 DEF Calm

LEMMA NeverRefused ==
  ASSUME Calm, Quiet, NEW r \in Requests PROVE spc[r] # "refused"
  BY DEF Calm, Nobody, Alone

LEMMA CalmServer ==
  ASSUME Minting, WebTypeOK, Serving, Calm, NEW r \in Requests, ServerStep(r)
  PROVE  Calm'
<1> USE WebConstants, SessionConstants
<1> SUFFICES ASSUME Quiet' PROVE Calm'
  BY DEF Calm
<1>0. Quiet /\ UNCHANGED webVars
  BY DEF Quiet, ServerStep, webVars, clientHistory
<1>1. UNCHANGED <<store, flight, direct, forms, leaving, refused, loggedOut>>
  BY <1>0 DEF webVars, pageVars, storeVars, clientHistory
<1>2. spc[r] # "idle"
  BY DEF ServerStep, GoesOn, ReuseRevoke, Rotate, Issue, ResetWrite, ResetRevoke, Goto, Respond
<1>3. PICK b \in Tabs : Alone(b, r)
  <2>1. PICK c \in Tabs, q \in Requests : Alone(c, q)
    BY <1>0, <1>2 DEF Calm, Nobody
  <2>2. q = r
    BY <1>2, <2>1 DEF Alone
  <2> QED
    BY <2>1, <2>2
<1>4. r \in InTheAir
  BY <1>3 DEF Alone, InTheAir
<1>5. Rotate(r) \/ Issue(r)
  BY <1>3, <1>4
     DEF ServerStep, GoesOn, ReuseRevoke, ResetWrite, ResetRevoke, Goto, Alone
<1>6. Alone(b, r)'
  <2>1. CASE Rotate(r)
    <3>1. suser[r] \in Users /\ spc[r] = "checked"
      BY <2>1 DEF Rotate, Minting, Issuing
    <3>2. \A q \in Requests : spc'[q] = IF q = r THEN "rotated" ELSE spc[q]
      BY <2>1, <3>1 DEF Rotate, Goto, Serving, Minting, AuthTypeOK
    <3> QED
      BY <1>1, <1>3, <3>2 DEF Alone
  <2>2. CASE Issue(r)
    <3>1. \A q \in Requests : spc'[q] = IF q = r THEN "answered" ELSE spc[q]
      BY <2>2 DEF Issue, Minting, AuthTypeOK
    <3>2. stoken'[r] \in Tokens /\ session'[stoken'[r]] = "live"
      BY <2>2 DEF Issue, Minting, AuthTypeOK
    <3> QED
      BY <1>1, <1>3, <3>1, <3>2 DEF Alone
  <2> QED
    BY <1>5, <2>1, <2>2
<1> QED
  BY <1>0, <1>1, <1>6 DEF Calm

LEMMA CalmStep ==
  Minting /\ WebTypeOK /\ Serving /\ Calm /\ [WebNext]_<<authVars, webVars>> => Calm'
<1> USE WebConstants, SessionConstants
<1> SUFFICES ASSUME Minting, WebTypeOK, Serving, Calm, [WebNext]_<<authVars, webVars>>
             PROVE  Calm'
  OBVIOUS
<1> USE DEF pageVars, storeVars, clientHistory, webVars,
            authVars, sessionVars, requestVars
<1>1. ASSUME NEW r \in Requests, ServerStep(r) PROVE Calm'
  BY <1>1, CalmServer
<1>2. ASSUME NEW b \in Tabs, NEW l \in Lanes, CallSucceeds(b, l) PROVE Calm'
  BY <1>2, CalmKept DEF CallSucceeds
<1>3. ASSUME NEW b \in Tabs, NEW l \in Lanes, CallUnauthorized(b, l) PROVE Calm'
  <2>1. CASE UNCHANGED <<authVars, flight, raced>>
    BY <1>3, <2>1, CalmKept DEF CallUnauthorized
  <2>2. ASSUME store # NoToken, flight[b] = NoRequest, NoteRaceBeside(b), NEW r \in Requests, RefreshRead(r, store),
               flight' = [flight EXCEPT ![b] = r],
               UNCHANGED <<direct, forms, leaving, storeVars, losses, loggedOut, refused>>
        PROVE  Calm'
    <3> SUFFICES ASSUME Quiet' PROVE Calm'
      BY DEF Calm
    <3>1. Quiet /\ ~Busy
      BY <2>2 DEF Quiet, NoteRaceBeside, Busy, InTheAir
    <3> QED
      BY <2>2, <3>1, RefreshBegins, CalmBegins
  <2> QED
    BY <1>3, <2>1, <2>2 DEF CallUnauthorized
<1>4. ASSUME NEW b \in Tabs, FlightSucceeds(b) PROVE Calm'
  <2>1. flight[b] \in Requests
    BY <1>4 DEF FlightSucceeds, WebTypeOK
  <2> SUFFICES ASSUME Quiet' PROVE Calm'
    BY DEF Calm
  <2>2. Quiet
    BY <1>4 DEF FlightSucceeds, Quiet
  <2> QED
    BY <1>4, <2>1, <2>2, CalmSucceeds DEF FlightSucceeds
<1>5. ASSUME NEW b \in Tabs, DirectSucceeds(b) PROVE Calm'
  <2>1. direct[b] \in Requests
    BY <1>5 DEF DirectSucceeds, WebTypeOK
  <2> SUFFICES ASSUME Quiet' PROVE Calm'
    BY DEF Calm
  <2>2. Quiet
    BY <1>5 DEF DirectSucceeds, Quiet
  <2> QED
    BY <1>5, <2>1, <2>2, CalmSucceeds DEF DirectSucceeds
<1>6. ASSUME NEW b \in Tabs, FlightRefused(b) \/ DirectFails(b) PROVE Calm'
  <2> SUFFICES ASSUME Quiet' PROVE FALSE
    BY DEF Calm
  <2>1. PICK r \in Requests : spc[r] = "refused" /\ losses' = losses
    BY <1>6 DEF FlightRefused, DirectFails, WebTypeOK, Quiet
  <2>2. Quiet
    BY <1>6, <2>1 DEF FlightRefused, DirectFails, Quiet
  <2> QED
    BY <2>1, <2>2, NeverRefused
<1>7. ASSUME NEW b \in Tabs, FlightLost(b) \/ HydrateFails(b) PROVE Calm'
  BY <1>7 DEF FlightLost, HydrateFails, Calm, Quiet, WebTypeOK
<1>8. ASSUME NEW b \in Tabs, SignIn(b) PROVE Calm'
  <2>1. PICK r \in Requests :
          SigninRead(r, Visitor) /\ direct' = [direct EXCEPT ![b] = r]
    BY <1>8 DEF SignIn
  <2> SUFFICES ASSUME Quiet' PROVE Calm'
    BY DEF Calm
  <2>2. Quiet /\ ~Busy
    BY <1>8 DEF SignIn, NoteRace, Quiet
  <2>3. /\ spc[r] = "idle" /\ spc'[r] = "signin" /\ session' = session
        /\ \A q \in Requests : q # r => spc'[q] = spc[q]
    BY <2>1 DEF SigninRead, Begin, Minting, AuthTypeOK
  <2>4. direct' # direct
    BY <1>8, <2>1 DEF SignIn, WebTypeOK
  <2> QED
    BY <1>8, <2>1, <2>2, <2>3, <2>4, CalmBegins DEF SignIn
<1>9. ASSUME NEW b \in Tabs, RefreshNow(b) PROVE Calm'
  <2>1. PICK r \in Requests :
          RefreshRead(r, store) /\ direct' = [direct EXCEPT ![b] = r]
    BY <1>9 DEF RefreshNow
  <2> SUFFICES ASSUME Quiet' PROVE Calm'
    BY DEF Calm
  <2>2. Quiet /\ ~Busy /\ store # NoToken
    BY <1>9 DEF RefreshNow, NoteRace, Quiet
  <2> QED
    BY <1>9, <2>1, <2>2, RefreshBegins, CalmBegins DEF RefreshNow
<1>10. ASSUME NEW b \in Tabs, LogoutCall(b) PROVE Calm'
  <2> SUFFICES ASSUME Quiet' PROVE Calm'
    BY DEF Calm
  <2>1. Quiet /\ ~Busy /\ losses' = losses
    <3>1. losses' \in {losses, losses + 1} /\ losses' = 0 /\ losses \in Nat
      BY <1>10 DEF LogoutCall, Quiet, WebTypeOK
    <3>2. losses' = losses
      BY <3>1
    <3> QED
      BY <1>10, <3>2 DEF LogoutCall, NoteRace, Quiet
  <2>2. Nobody
    BY <2>1 DEF Calm, Busy, InTheAir, Alone
  <2>3. UNCHANGED <<spc, stoken>> /\ leaving' # {}
    BY <1>10, <2>1 DEF LogoutCall, Logout, WebTypeOK
  <2>4. Nobody'
    BY <1>10, <2>2, <2>3 DEF Nobody, LogoutCall
  <2> QED
    BY <1>10, <2>1, <2>4 DEF Calm, LogoutCall
<1>11. ASSUME NEW b \in Tabs, LogoutClears(b) PROVE Calm'
  <2> SUFFICES ASSUME Quiet' PROVE Calm'
    BY DEF Calm
  <2>1. Quiet /\ leaving # {}
    BY <1>11 DEF LogoutClears, Quiet
  <2>2. Nobody
    BY <2>1 DEF Calm, Alone
  <2>3. Nobody' /\ ~refused' /\ store' = NoToken
        /\ \A c \in Tabs : flight'[c] = NoRequest /\ direct'[c] = NoRequest
    BY <1>11, <2>1, <2>2 DEF LogoutClears, Nobody, Good, Calm
  <2> QED
    BY <2>3 DEF Calm
<1>12. ASSUME NEW b \in Tabs, Mount(b) \/ \E k \in Calls : Call(b, k) PROVE Calm'
  BY <1>12, CalmKept DEF Mount, Call
<1>13. ASSUME NEW b \in Tabs, Close(b) PROVE Calm'
  <2> SUFFICES ASSUME Quiet' PROVE Calm'
    BY DEF Calm
  <2>1. /\ Quiet /\ flight[b] = NoRequest /\ direct[b] = NoRequest /\ b \notin leaving
        /\ losses' = losses
    BY <1>13 DEF Close, Quiet, WebTypeOK
  <2>2. flight' = flight /\ direct' = direct /\ leaving' = leaving
    BY <1>13, <2>1 DEF Close, WebTypeOK
  <2>3. UNCHANGED <<spc, stoken, session, store, loggedOut, refused>>
        /\ forms' = forms \ {b}
    BY <1>13 DEF Close
  <2>4. Nobody' = Nobody /\ \A c \in Tabs, r \in Requests : Alone(c, r)' = Alone(c, r)
    BY <2>2, <2>3 DEF Nobody, Alone, Good
  <2> QED
    BY <2>1, <2>2, <2>3, <2>4 DEF Calm
<1>14. ASSUME NEW t \in Tokens, GoStale(t) PROVE Calm'
  BY <1>14, CalmKept DEF GoStale
<1>15. CASE UNCHANGED <<authVars, webVars>>
  BY <1>15, CalmKept
<1> QED
  BY <1>1, <1>2, <1>3, <1>4, <1>5, <1>6, <1>7, <1>8, <1>9, <1>10, <1>11, <1>12, <1>13,
     <1>14, <1>15 DEF WebNext, TabStep

LEMMA CalmInit == AuthInit /\ WebInit => Serving /\ Calm
  BY DEF AuthInit, WebInit, Serving, Calm, Nobody, Good

WebInv == Minting /\ Answers /\ WebTypeOK /\ Serving /\ Calm

LEMMA WebStep == WebInv /\ [WebNext]_<<authVars, webVars>> => WebInv'
<1> SUFFICES ASSUME WebInv, [WebNext]_<<authVars, webVars>> PROVE WebInv'
  OBVIOUS
<1>1. [AuthNext]_authVars
  BY WebIsClient DEF WebInv
<1>2. WebTypeOK' /\ Serving'
  <2>1. CASE WebNext
    BY <2>1, WebTypedStep, ServingStep DEF WebInv
  <2>2. CASE UNCHANGED <<authVars, webVars>>
    BY <2>2 DEF WebInv, WebTypeOK, Serving, webVars, pageVars, storeVars, clientHistory,
                authVars, userVars, sessionVars
  <2> QED
    BY <2>1, <2>2
<1> QED
  BY <1>1, <1>2, MintingStep, AnswersStep, CalmStep DEF WebInv

LEMMA WebInvariant == WebSpec => []WebInv
<1>1. AuthInit /\ WebInit => WebInv
  BY MintingInit, WebTypedInit, CalmInit DEF WebInv, AuthInit, Answers
<1> QED
  BY <1>1, WebStep, PTL DEF WebSpec

(* The browser does nothing to the server that its requests could not:     *)
(* every step of its tabs is one of AuthSessions, or none.                 *)
THEOREM WebIsAuthClient == WebSpec => AuthSpec
<1>1. WebInv /\ [WebNext]_<<authVars, webVars>> => [AuthNext]_authVars
  BY WebIsClient DEF WebInv
<1> QED
  BY <1>1, WebInvariant, PTL DEF WebSpec, AuthSpec

(* Whatever the tabs do, a session ends by a refused refresh only after    *)
(* requests have overlapped or an answer was lost.                         *)
THEOREM RefusalsHaveReasons == WebSpec => []SignedOutForAReason
<1>1. WebInv => SignedOutForAReason
  BY DEF WebInv, Calm, Quiet, WebTypeOK, SignedOutForAReason
<1> QED
  BY <1>1, WebInvariant, PTL

(* After logout() no token is left until a form signs somebody in.         *)
THEOREM LogoutsStay == WebSpec => []LogoutStays
<1>1. WebInv => LogoutStays
  BY DEF WebInv, Calm, Quiet, LogoutStays
<1> QED
  BY <1>1, WebInvariant, PTL

-----------------------------------------------------------------------------
(* A handler has a member, and what its step goes on with; a code that is  *)
(* being signed in with is not the one stored.                             *)
Handler(h) ==
  /\ apc[h] = "idle" <=> amember[h] = NoMember
  /\ apc[h] = "verified" \/ SigningIn(h)
       => acode[h] \in Codes /\ acode[h] <= lastCode[amember[h]]
  /\ SigningIn(h) => code[amember[h]] # acode[h]
  /\ apc[h] \in {"creating", "created"} => arole[h] \in Types
  /\ apc[h] = "created" => profiles[amember[h]][arole[h]] >= 1

(* Codes are used after they are stored, and then stored no more, and a    *)
(* role comes after its profile.                                           *)
Account(m) ==
  /\ code[m] \in {NoCode, lastCode[m]}
  /\ \A c \in Codes : c > lastCode[m] => codeUses[m][c] = 0
  /\ \A c \in Codes : codeUses[m][c] > 0 => code[m] # c
  /\ \A t \in Types : role[m] = t => profiles[m][t] >= 1

(* A member's one handler finds what it read as it was.                    *)
AsRead(m, h) ==
  /\ apc[h] = "verified" \/ SigningIn(h)
       => acode[h] = lastCode[m] /\ codeUses[m][acode[h]] = 0
  /\ apc[h] = "creating" => profiles[m][arole[h]] = 0
  /\ apc[h] = "onboarding" => ~onboarded[m]

(* Of a member whose requests never overlapped.                            *)
OneByOne(m) ==
  /\ \A h, g \in Callers : amember[h] = m /\ amember[g] = m => h = g
  /\ \A h \in Callers : amember[h] = m => AsRead(m, h)

AccountInv ==
  /\ AccountTypeOK
  /\ \A h \in Callers : Handler(h)
  /\ \A m \in Members : Account(m)
  /\ \A m \in Members \ crossed : OneByOne(m)
  /\ CodeUsedOnce /\ ProfilesMatchRole

LEMMA EnterIs ==
  ASSUME AccountTypeOK, NEW h \in Callers, NEW m \in Members,
         NEW step \in {"counted", "verified", "onboarding", "creating"},
         NEW c \in Codes \cup {NoCode}, NEW t \in Types \cup {"user"},
         Enter(h, m, step, c, t), rate' \in [Members -> Nat],
         UNCHANGED <<code, lastCode, codeUses, gone, role, onboarded, profiles>>
  PROVE  /\ apc[h] = "idle" /\ AccountTypeOK'
         /\ \A g \in Callers :
              IF g = h
              THEN apc'[g] = step /\ amember'[g] = m /\ acode'[g] = c /\ arole'[g] = t
              ELSE UNCHANGED <<apc[g], amember[g], acode[g], arole[g]>>
         /\ crossed \subseteq crossed' /\ crossed' \subseteq crossed \cup {m}
         /\ m \notin crossed' => \A g \in Callers : amember[g] # m
<1>1. /\ apc' \in [Callers -> AccountSteps]
      /\ amember' \in [Callers -> Members \cup {NoMember}]
      /\ acode' \in [Callers -> Codes \cup {NoCode}]
      /\ arole' \in [Callers -> Types \cup {"user"}]
  BY DEF AccountTypeOK, AccountSteps, Enter
<1>2. /\ crossed \subseteq crossed' /\ crossed' \subseteq crossed \cup {m}
      /\ m \notin crossed' => \A g \in Callers : amember[g] # m
  BY DEF Enter, Concurrent
<1>3. \A g \in Callers :
        IF g = h
        THEN apc'[g] = step /\ amember'[g] = m /\ acode'[g] = c /\ arole'[g] = t
        ELSE UNCHANGED <<apc[g], amember[g], acode[g], arole[g]>>
  BY DEF AccountTypeOK, Enter
<1> QED
  BY <1>1, <1>2, <1>3 DEF AccountTypeOK, Enter

Left(h) ==
  /\ \A g \in Callers :
       IF g = h THEN apc'[g] = "idle" /\ amember'[g] = NoMember
       ELSE UNCHANGED <<apc[g], amember[g], acode[g], arole[g]>>
  /\ crossed' = crossed

LEMMA LeaveIs ==
  ASSUME AccountTypeOK, NEW h \in Callers, Leave(h)
  PROVE  /\ Left(h)
         /\ apc' \in [Callers -> AccountSteps]
         /\ amember' \in [Callers -> Members \cup {NoMember}]
         /\ acode' \in [Callers -> Codes \cup {NoCode}]
         /\ arole' \in [Callers -> Types \cup {"user"}] /\ crossed' \subseteq Members
  BY DEF AccountTypeOK, AccountSteps, Leave, Left

LEMMA GoesIs ==
  ASSUME AccountTypeOK, NEW h \in Callers, NEW step \in AccountSteps, Goes(h, step)
  PROVE  /\ apc' \in [Callers -> AccountSteps]
         /\ \A g \in Callers : apc'[g] = IF g = h THEN step ELSE apc[g]
         /\ UNCHANGED <<amember, acode, arole, crossed>>
  BY DEF AccountTypeOK, Goes

(* Codes, uses and who is signing in stay as they are.                     *)
LEMMA CodesKept ==
  ASSUME CodeUsedOnce, UNCHANGED <<code, lastCode, codeUses>>,
         crossed \subseteq crossed', \A m \in Members : gone[m] \subseteq gone'[m],
         \A h \in Callers : SigningIn(h) => SigningIn(h)' /\ amember'[h] = amember[h]
  PROVE  CodeUsedOnce'
  BY DEF CodeUsedOnce

(* A handler that enters disturbs nobody.                                  *)
LEMMA AccountEnters ==
  ASSUME AccountInv, NEW h \in Callers, NEW m \in Members,
         NEW step \in {"counted", "verified", "onboarding", "creating"},
         NEW c \in Codes \cup {NoCode}, NEW t \in Types \cup {"user"},
         Enter(h, m, step, c, t), rate' \in [Members -> Nat],
         UNCHANGED <<code, lastCode, codeUses, gone, role, onboarded, profiles>>,
         step = "verified" => c \in Codes /\ c = code[m] /\ c = lastCode[m],
         step = "creating" => t \in Types /\ profiles[m][t] = 0,
         step = "onboarding" => ~onboarded[m]
  PROVE  AccountInv'
<1> USE AccountConstants
<1>1. /\ apc[h] = "idle" /\ AccountTypeOK'
      /\ \A g \in Callers :
           IF g = h
           THEN apc'[g] = step /\ amember'[g] = m /\ acode'[g] = c /\ arole'[g] = t
           ELSE UNCHANGED <<apc[g], amember[g], acode[g], arole[g]>>
      /\ crossed \subseteq crossed' /\ crossed' \subseteq crossed \cup {m}
      /\ m \notin crossed' => \A g \in Callers : amember[g] # m
  BY EnterIs DEF AccountInv
<1>2. ASSUME NEW g \in Callers PROVE Handler(g)'
  <2>1. CASE g # h
    BY <1>1, <2>1 DEF AccountInv, Handler, SigningIn
  <2>2. CASE g = h
    <3>1. lastCode[m] \in Int
      BY DEF AccountInv, AccountTypeOK, Codes, NoCode
    <3> QED
      BY <1>1, <2>2, <3>1 DEF Handler, SigningIn
  <2> QED
    BY <2>1, <2>2
<1>3. ASSUME NEW n \in Members PROVE Account(n)'
  BY DEF AccountInv, Account
<1>4. ASSUME NEW n \in Members \ crossed' PROVE OneByOne(n)'
  <2>1. OneByOne(n)
    BY <1>1, <1>4 DEF AccountInv
  <2>2. ASSUME NEW f \in Callers, amember'[f] = n, NEW g \in Callers, amember'[g] = n
        PROVE  f = g
    BY <1>1, <2>1, <2>2 DEF OneByOne
  <2>3. ASSUME NEW g \in Callers, amember'[g] = n PROVE AsRead(n, g)'
    <3>1. CASE g # h
      <4>1. UNCHANGED <<apc[g], amember[g], acode[g], arole[g]>>
        BY <1>1, <3>1
      <4>2. AsRead(n, g)
        BY <2>1, <2>3, <4>1 DEF OneByOne
      <4> QED
        BY <4>1, <4>2 DEF AsRead, SigningIn
    <3>2. CASE g = h
      <4>1. /\ n = m /\ apc'[g] = step /\ acode'[g] = c /\ arole'[g] = t
        BY <1>1, <2>3, <3>2
      <4>2. step = "verified" => c = lastCode[m] /\ codeUses[m][c] = 0
        <5>1. Account(m) /\ codeUses[m] \in [Codes -> Nat]
          BY DEF AccountInv, AccountTypeOK
        <5>2. ASSUME c \in Codes, c = code[m] PROVE codeUses[m][c] = 0
          <6>1. codeUses[m][c] \in Nat /\ ~(codeUses[m][c] > 0)
            BY <5>1, <5>2 DEF Account
          <6> QED
            BY <6>1
        <5> QED
          BY <5>2
      <4> QED
        BY <4>1, <4>2 DEF AsRead, SigningIn
    <3> QED
      BY <3>1, <3>2
  <2> QED
    BY <2>2, <2>3 DEF OneByOne
<1>5. CodeUsedOnce'
  <2>1. \A g \in Callers : SigningIn(g) => SigningIn(g)' /\ amember'[g] = amember[g]
    BY <1>1 DEF SigningIn
  <2> QED
    BY <1>1, <2>1, CodesKept DEF AccountInv
<1>6. ProfilesMatchRole'
  BY <1>1 DEF AccountInv, ProfilesMatchRole
<1> QED
  BY <1>1, <1>2, <1>3, <1>4, <1>5, <1>6 DEF AccountInv

(* The two step facts shared by what ends with Leave.                      *)
LEMMA AccountLeaves ==
  ASSUME AccountTypeOK, NEW h \in Callers, Left(h), \A g \in Callers : Handler(g),
         UNCHANGED <<code, lastCode>>,
         \A n \in Members, t \in Types :
           profiles[n][t] \in Nat /\ profiles'[n][t] \in Nat /\ profiles[n][t] <= profiles'[n][t]
  PROVE  \A g \in Callers : Handler(g)'
<1> SUFFICES ASSUME NEW g \in Callers PROVE Handler(g)'
  OBVIOUS
<1>1. CASE g = h
  BY <1>1 DEF Left, Handler, SigningIn
<1>2. CASE g # h
  <2>1. UNCHANGED <<apc[g], amember[g], acode[g], arole[g]>> /\ Handler(g)
    BY <1>2 DEF Left
  <2>2. apc[g] # "idle" => amember[g] \in Members
    BY <2>1 DEF Handler, AccountTypeOK
  <2>3. apc'[g] = "created" => profiles'[amember'[g]][arole'[g]] >= 1
    BY <2>1, <2>2 DEF Handler
  <2> QED
    BY <2>1, <2>2, <2>3 DEF Handler, SigningIn
<1> QED
  BY <1>1, <1>2

LEMMA OneByOneLeaves ==
  ASSUME NEW h \in Callers, Left(h), NEW n \in Members, OneByOne(n),
         n # amember[h] =>
           UNCHANGED <<lastCode[n], codeUses[n], profiles[n], onboarded[n]>>
  PROVE  OneByOne(n)'
<1>1. ASSUME NEW f \in Callers, amember'[f] = n, NEW g \in Callers, amember'[g] = n
      PROVE  f = g
  BY <1>1, AccountConstants DEF OneByOne, Left
<1>2. ASSUME NEW g \in Callers, amember'[g] = n PROVE AsRead(n, g)'
  <2>1. g # h /\ UNCHANGED <<apc[g], amember[g], acode[g], arole[g]>>
    BY <1>2, AccountConstants DEF Left
  <2>2. n # amember[h] /\ AsRead(n, g)
    BY <1>2, <2>1 DEF OneByOne
  <2> QED
    BY <2>1, <2>2 DEF AsRead, SigningIn
<1> QED
  BY <1>1, <1>2 DEF OneByOne

(* A handler that goes on with a sign-in, or with a message to send.       *)
LEMMA OneByOneGoes ==
  ASSUME NEW h \in Callers, NEW n \in Members, OneByOne(n),
         UNCHANGED <<amember, acode, arole, onboarded, profiles>>,
         \A g \in Callers : g # h => apc'[g] = apc[g],
         apc'[h] \notin {"verified", "creating", "onboarding"},
         SigningIn(h)' => apc[h] = "verified" \/ SigningIn(h),
         codeUses' = codeUses,
         n # amember[h] => lastCode'[n] = lastCode[n],
         SigningIn(h)' => lastCode' = lastCode
  PROVE  OneByOne(n)'
<1>1. ASSUME NEW g \in Callers, amember[g] = n PROVE AsRead(n, g)'
  <2>1. AsRead(n, g) /\ (g # h => n # amember[h])
    BY <1>1 DEF OneByOne
  <2>2. CASE g = h
    BY <2>1, <2>2 DEF AsRead
  <2>3. CASE g # h
    BY <2>1, <2>3 DEF AsRead, SigningIn
  <2> QED
    BY <2>2, <2>3
<1> QED
  BY <1>1 DEF OneByOne

LEMMA AccountStart == AccountInit => AccountInv
  BY AccountConstants
     DEF AccountInit, AccountInv, Handler, Account, OneByOne, AccountTypeOK, CodeUsedOnce,
         ProfilesMatchRole, Codes, NoCode, Types, AccountSteps, SigningIn

LEMMA StoreOtpKeeps ==
  ASSUME AccountInv, NEW h \in Callers, StoreOtp(h)
  PROVE  AccountInv'
<1> USE AccountConstants
<1>0. AccountTypeOK /\ (\A g \in Callers : Handler(g)) /\ \A m \in Members : Account(m)
  BY DEF AccountInv
<1>1. PICK m \in Members : m = amember[h]
  BY <1>0 DEF StoreOtp, Handler, AccountTypeOK
<1>2. /\ lastCode[m] + 1 \in Codes /\ lastCode[m] \in Nat
      /\ \A n \in Members :
           /\ lastCode'[n] = (IF n = m THEN lastCode[m] + 1 ELSE lastCode[n])
           /\ code'[n] = (IF n = m THEN lastCode[m] + 1 ELSE code[n])
  BY <1>0, <1>1 DEF StoreOtp, AccountTypeOK, Codes, NoCode
<1>3. /\ apc[h] = "counted" /\ apc' \in [Callers -> AccountSteps]
      /\ \A g \in Callers : apc'[g] = IF g = h THEN "stored" ELSE apc[g]
      /\ UNCHANGED <<amember, acode, arole, crossed>>
      /\ UNCHANGED <<rate, codeUses, gone, role, onboarded, profiles>>
  BY <1>0, GoesIs DEF StoreOtp, AccountSteps, profileVars
<1>4. AccountTypeOK'
  <2>1. /\ code' \in [Members -> Codes \cup {NoCode}]
        /\ lastCode' \in [Members -> Codes \cup {NoCode}]
    BY <1>0, <1>1, <1>2 DEF StoreOtp, AccountTypeOK
  <2> QED
    BY <1>0, <1>3, <2>1 DEF AccountTypeOK
<1>5. ASSUME NEW g \in Callers PROVE Handler(g)'
  <2>1. CASE g = h
    BY <1>0, <1>3, <2>1 DEF Handler, SigningIn
  <2>2. CASE g # h
    <3>1. /\ Handler(g) /\ (apc[g] # "idle" => amember[g] \in Members)
          /\ acode[g] \in Int
      BY <1>0 DEF Handler, AccountTypeOK, Codes, NoCode
    <3>2. ASSUME apc[g] = "verified" \/ SigningIn(g) PROVE acode[g] <= lastCode'[amember[g]]
      <4>1. amember[g] \in Members /\ acode[g] <= lastCode[amember[g]]
        BY <3>1, <3>2 DEF Handler, SigningIn
      <4>2. /\ lastCode[amember[g]] \in Int /\ lastCode'[amember[g]] \in Int
            /\ lastCode[amember[g]] <= lastCode'[amember[g]]
        <5>1. lastCode[amember[g]] \in Int
          BY <1>0, <4>1 DEF AccountTypeOK, Codes, NoCode
        <5>2. CASE amember[g] = m
          BY <1>2, <5>1, <5>2
        <5>3. CASE amember[g] # m
          BY <1>2, <4>1, <5>1, <5>3
        <5> QED
          BY <5>2, <5>3
      <4> QED
        BY <3>1, <4>1, <4>2
    <3>3. ASSUME SigningIn(g) PROVE code'[amember[g]] # acode[g]
      <4>1. CASE amember[g] = m
        BY <1>2, <3>1, <3>3, <4>1 DEF Handler, SigningIn
      <4>2. CASE amember[g] # m
        BY <1>2, <3>1, <3>3, <4>2 DEF Handler, SigningIn
      <4> QED
        BY <4>1, <4>2
    <3> QED
      BY <1>3, <2>2, <3>1, <3>2, <3>3 DEF Handler, SigningIn
  <2> QED
    BY <2>1, <2>2
<1>6. ASSUME NEW n \in Members PROVE Account(n)'
  <2>1. CASE n = m
    <3>1. codeUses[m][lastCode[m] + 1] = 0
      BY <1>0, <1>2 DEF Account
    <3>2. \A c \in Codes : c > lastCode[m] + 1 => codeUses[m][c] = 0
      BY <1>0, <1>2 DEF Account, Codes
    <3> QED
      BY <1>0, <1>2, <1>3, <2>1, <3>1, <3>2 DEF Account
  <2>2. CASE n # m
    BY <1>0, <1>2, <1>3, <2>2 DEF Account
  <2> QED
    BY <2>1, <2>2
<1>7. ASSUME NEW n \in Members \ crossed' PROVE OneByOne(n)'
  BY <1>1, <1>2, <1>3, <1>7, OneByOneGoes DEF AccountInv, SigningIn
<1>8. CodeUsedOnce'
  <2> SUFFICES ASSUME NEW n \in Members
               PROVE  /\ \A c \in Codes : codeUses'[n][c] > 0 => code'[n] # c
                      /\ n \notin crossed =>
                           /\ \A c \in Codes : codeUses'[n][c] <= 1
                           /\ LET c == lastCode'[n] IN
                              c # NoCode /\ codeUses'[n][c] = 0 /\ c \notin gone'[n]
                                => code'[n] = c \/ \E g \in Callers : amember'[g] = n /\ SigningIn(g)'
    BY <1>3 DEF CodeUsedOnce
  <2>1. \A c \in Codes : codeUses'[n][c] > 0 => code'[n] # c
    BY <1>6 DEF Account
  <2>2. n = m => code'[n] = lastCode'[n]
    BY <1>2
  <2>3. \A g \in Callers : SigningIn(g) => SigningIn(g)'
    BY <1>3 DEF SigningIn
  <2> QED
    BY <1>2, <1>3, <2>1, <2>2, <2>3 DEF AccountInv, CodeUsedOnce
<1> QED
  BY <1>3, <1>4, <1>5, <1>6, <1>7, <1>8 DEF AccountInv, ProfilesMatchRole

LEMMA ConsumeOtpKeeps ==
  ASSUME AccountInv, NEW h \in Callers, ConsumeOtp(h)
  PROVE  AccountInv'
<1> USE AccountConstants
<1>0. AccountTypeOK /\ (\A g \in Callers : Handler(g)) /\ \A m \in Members : Account(m)
  BY DEF AccountInv
<1>1. PICK m \in Members : m = amember[h] /\ acode[h] \in Codes /\ acode[h] <= lastCode[m]
  BY <1>0 DEF ConsumeOtp, Handler, AccountTypeOK
<1>2. \A n \in Members : code'[n] = IF n = m THEN NoCode ELSE code[n]
  BY <1>0, <1>1 DEF ConsumeOtp, AccountTypeOK
<1>3. /\ apc[h] = "verified" /\ apc' \in [Callers -> AccountSteps]
      /\ \A g \in Callers : apc'[g] = IF g = h THEN "consumed" ELSE apc[g]
      /\ UNCHANGED <<amember, acode, arole, crossed>>
      /\ UNCHANGED <<rate, lastCode, codeUses, gone, role, onboarded, profiles>>
  BY <1>0, GoesIs DEF ConsumeOtp, AccountSteps, profileVars
<1>4. AccountTypeOK'
  <2>1. code' \in [Members -> Codes \cup {NoCode}]
    BY <1>0, <1>1 DEF ConsumeOtp, AccountTypeOK
  <2> QED
    BY <1>0, <1>3, <2>1 DEF AccountTypeOK
<1>5. ASSUME NEW g \in Callers PROVE Handler(g)'
  <2>1. /\ Handler(g) /\ (apc[g] # "idle" => amember[g] \in Members)
        /\ NoCode \notin Codes
    BY <1>0 DEF Handler, AccountTypeOK, Codes, NoCode
  <2>2. CASE g = h
    BY <1>1, <1>2, <1>3, <2>1, <2>2 DEF Handler, SigningIn
  <2>3. CASE g # h
    BY <1>2, <1>3, <2>1, <2>3 DEF Handler, SigningIn
  <2> QED
    BY <2>2, <2>3
<1>6. ASSUME NEW n \in Members PROVE Account(n)'
  BY <1>0, <1>2, <1>3 DEF Account, Codes, NoCode
<1>7. ASSUME NEW n \in Members \ crossed' PROVE OneByOne(n)'
  BY <1>3, <1>7, OneByOneGoes DEF AccountInv, SigningIn
<1>8. CodeUsedOnce'
  <2> SUFFICES ASSUME NEW n \in Members
               PROVE  /\ \A c \in Codes : codeUses[n][c] > 0 => code'[n] # c
                      /\ n \notin crossed =>
                           /\ \A c \in Codes : codeUses[n][c] <= 1
                           /\ LET c == lastCode[n] IN
                              c # NoCode /\ codeUses[n][c] = 0 /\ c \notin gone[n]
                                => code'[n] = c \/ \E g \in Callers : amember[g] = n /\ SigningIn(g)'
    BY <1>3 DEF CodeUsedOnce
  <2>1. \A c \in Codes : codeUses[n][c] > 0 => code'[n] # c
    BY <1>3, <1>6 DEF Account
  <2>2. n = m => \E g \in Callers : amember[g] = n /\ SigningIn(g)'
    BY <1>1, <1>3 DEF SigningIn
  <2>3. \A g \in Callers : SigningIn(g) => SigningIn(g)'
    BY <1>3 DEF SigningIn
  <2> QED
    BY <1>2, <2>1, <2>2, <2>3 DEF AccountInv, CodeUsedOnce
<1> QED
  BY <1>3, <1>4, <1>5, <1>6, <1>7, <1>8 DEF AccountInv, ProfilesMatchRole

LEMMA ClearRateKeeps ==
  ASSUME AccountInv, NEW h \in Callers, ClearRate(h)
  PROVE  AccountInv'
<1>0. AccountTypeOK /\ (\A g \in Callers : Handler(g)) /\ \A m \in Members : Account(m)
  BY DEF AccountInv
<1>1. /\ apc[h] = "consumed" /\ apc' \in [Callers -> AccountSteps]
      /\ \A g \in Callers : apc'[g] = IF g = h THEN "cleared" ELSE apc[g]
      /\ UNCHANGED <<amember, acode, arole, crossed>>
      /\ UNCHANGED <<code, lastCode, codeUses, gone, role, onboarded, profiles>>
  BY <1>0, GoesIs DEF ClearRate, AccountSteps, profileVars
<1>2. AccountTypeOK'
  BY <1>0, <1>1 DEF ClearRate, AccountTypeOK
<1>3. ASSUME NEW g \in Callers PROVE Handler(g)'
  BY <1>0, <1>1 DEF Handler, SigningIn
<1>4. ASSUME NEW n \in Members \ crossed' PROVE OneByOne(n)'
  BY <1>1, <1>4, OneByOneGoes DEF AccountInv, SigningIn
<1>5. CodeUsedOnce'
  BY <1>1, CodesKept DEF AccountInv, SigningIn
<1> QED
  BY <1>0, <1>1, <1>2, <1>3, <1>4, <1>5 DEF AccountInv, Account, ProfilesMatchRole

LEMMA OtpSignInKeeps ==
  ASSUME AccountInv, NEW h \in Callers, OtpSignIn(h)
  PROVE  AccountInv'
<1> USE AccountConstants
<1>0. AccountTypeOK /\ (\A g \in Callers : Handler(g)) /\ \A m \in Members : Account(m)
  BY DEF AccountInv
<1>1. PICK m \in Members : /\ m = amember[h] /\ acode[h] \in Codes
                           /\ acode[h] <= lastCode[m] /\ code[m] # acode[h]
  BY <1>0 DEF OtpSignIn, Handler, AccountTypeOK, SigningIn
<1>2. /\ \A n \in Members : n # m => codeUses'[n] = codeUses[n]
      /\ \A c \in Codes :
           codeUses'[m][c] = IF c = acode[h] THEN codeUses[m][c] + 1 ELSE codeUses[m][c]
  BY <1>0, <1>1 DEF OtpSignIn, AccountTypeOK
<1>3. /\ Leave(h) /\ apc[h] = "cleared"
      /\ UNCHANGED <<code, rate, lastCode, gone, role, onboarded, profiles>>
  BY DEF OtpSignIn, profileVars
<1>4. Left(h)
  BY <1>0, <1>3, LeaveIs
<1>5. AccountTypeOK'
  <2>1. codeUses' \in [Members -> [Codes -> Nat]]
    BY <1>0, <1>1 DEF OtpSignIn, AccountTypeOK
  <2> QED
    BY <1>0, <1>3, <2>1, LeaveIs DEF AccountTypeOK
<1>6. \A g \in Callers : Handler(g)'
  BY <1>0, <1>3, <1>4, AccountLeaves DEF AccountTypeOK
<1>7. ASSUME NEW n \in Members PROVE Account(n)'
  <2>1. \A c \in Codes : c > lastCode[n] => codeUses'[n][c] = codeUses[n][c]
    <3>1. n = m => \A c \in Codes : c > lastCode[n] => c # acode[h]
      <4>1. lastCode[m] \in Int /\ acode[h] \in Int
        BY <1>0 DEF AccountTypeOK, Codes, NoCode
      <4> QED
        BY <1>1, <4>1 DEF Codes
    <3> QED
      BY <1>2, <3>1
  <2>2. \A c \in Codes : codeUses'[n][c] > 0 => code[n] # c
    <3>1. \A c \in Codes : n # m \/ c # acode[h] => codeUses'[n][c] = codeUses[n][c]
      BY <1>2
    <3> QED
      BY <1>0, <1>1, <3>1 DEF Account
  <2> QED
    BY <1>0, <1>3, <2>1, <2>2 DEF Account
<1>8. ASSUME NEW n \in Members \ crossed' PROVE OneByOne(n)'
  <2>1. OneByOne(n)
    BY <1>4, <1>8 DEF AccountInv, Left
  <2> QED
    BY <1>1, <1>2, <1>3, <1>4, <2>1, OneByOneLeaves
<1>9. CodeUsedOnce'
  <2> SUFFICES ASSUME NEW n \in Members
               PROVE  /\ \A c \in Codes : codeUses'[n][c] > 0 => code[n] # c
                      /\ n \notin crossed =>
                           /\ \A c \in Codes : codeUses'[n][c] <= 1
                           /\ LET c == lastCode[n] IN
                              c # NoCode /\ codeUses'[n][c] = 0 /\ c \notin gone[n]
                                => code[n] = c \/ \E g \in Callers : amember'[g] = n /\ SigningIn(g)'
    BY <1>3, <1>4 DEF CodeUsedOnce, Left
  <2>1. \A c \in Codes : codeUses'[n][c] > 0 => code[n] # c
    BY <1>3, <1>7 DEF Account
  <2>2. CASE n = m
    <3>1. n \notin crossed => acode[h] = lastCode[m] /\ codeUses[m][acode[h]] = 0
      BY <1>1, <1>3, <2>2 DEF AccountInv, OneByOne, AsRead, SigningIn
    <3> QED
      BY <1>1, <1>2, <2>1, <2>2, <3>1 DEF AccountInv, CodeUsedOnce
  <2>3. CASE n # m
    <3>1. \A g \in Callers :
            amember[g] = n /\ SigningIn(g) => amember'[g] = n /\ SigningIn(g)'
      BY <1>1, <1>4, <2>3 DEF Left, SigningIn
    <3> QED
      BY <1>2, <2>1, <2>3, <3>1 DEF AccountInv, CodeUsedOnce
  <2> QED
    BY <2>2, <2>3
<1> QED
  BY <1>3, <1>4, <1>5, <1>6, <1>7, <1>8, <1>9 DEF AccountInv, ProfilesMatchRole, Left

LEMMA AccountStep == AccountInv /\ [AccountNext]_accountVars => AccountInv'
<1> USE AccountConstants
<1> SUFFICES ASSUME AccountInv, [AccountNext]_accountVars PROVE AccountInv'
  OBVIOUS
<1>0. AccountTypeOK /\ (\A h \in Callers : Handler(h)) /\ \A m \in Members : Account(m)
  BY DEF AccountInv
<1>1. ASSUME NEW h \in Callers, NEW m \in Members, RequestOtp(h, m) PROVE AccountInv'
  <2>1. /\ rate' \in [Members -> Nat]
        /\ UNCHANGED <<code, lastCode, codeUses, gone, role, onboarded, profiles>>
    BY <1>0, <1>1 DEF RequestOtp, AccountTypeOK, profileVars
  <2>2. CASE Enter(h, m, "counted", NoCode, "user")
    BY <2>1, <2>2, AccountEnters
  <2>3. CASE UNCHANGED callerVars
    BY <1>0, <2>1, <2>3
       DEF callerVars, AccountInv, AccountTypeOK, Handler, Account, OneByOne, AsRead,
           SigningIn, CodeUsedOnce, ProfilesMatchRole
  <2> QED
    BY <1>1, <2>2, <2>3 DEF RequestOtp
<1>2. ASSUME NEW m \in Members, OtpExpires(m) PROVE AccountInv'
  <2>1. /\ \A n \in Members :
             /\ gone'[n] = (IF n = m THEN gone[n] \cup {code[m]} ELSE gone[n])
             /\ code'[n] = (IF n = m THEN NoCode ELSE code[n])
        /\ code[m] # NoCode
        /\ UNCHANGED <<rate, codeUses, lastCode, role, onboarded, profiles, apc, amember, acode,
                       arole, crossed>>
    BY <1>0, <1>2 DEF OtpExpires, AccountTypeOK, profileVars, callerVars
  <2>2. AccountTypeOK'
    <3>1. gone' \in [Members -> SUBSET Codes] /\ code' \in [Members -> Codes \cup {NoCode}]
      BY <1>0, <1>2 DEF OtpExpires, AccountTypeOK
    <3> QED
      BY <1>0, <2>1, <3>1 DEF AccountTypeOK
  <2>3. ASSUME NEW g \in Callers PROVE Handler(g)'
    <3>1. /\ Handler(g) /\ (apc[g] # "idle" => amember[g] \in Members)
          /\ NoCode \notin Codes
      BY <1>0 DEF Handler, AccountTypeOK, Codes, NoCode
    <3> QED
      BY <2>1, <3>1 DEF Handler, SigningIn
  <2>4. ASSUME NEW n \in Members PROVE Account(n)'
    <3>1. NoCode \notin Codes
      BY DEF Codes, NoCode
    <3>2. Account(n) /\ code'[n] \in {code[n], NoCode}
      BY <1>0, <2>1
    <3> QED
      BY <2>1, <3>1, <3>2 DEF Account
  <2>5. ASSUME NEW n \in Members \ crossed' PROVE OneByOne(n)'
    BY <2>1, <2>5 DEF AccountInv, OneByOne, AsRead, SigningIn
  <2>6. CodeUsedOnce'
    <3>1. \A n \in Members : \A c \in Codes : codeUses'[n][c] > 0 => code'[n] # c
      BY <2>4 DEF Account
    <3>2. \A g \in Callers : SigningIn(g)' <=> SigningIn(g)
      BY <2>1 DEF SigningIn
    <3>3. ASSUME NEW n \in Members \ crossed,
                 lastCode[n] # NoCode, codeUses[n][lastCode[n]] = 0, lastCode[n] \notin gone'[n]
          PROVE  code'[n] = lastCode[n] \/ \E g \in Callers : amember[g] = n /\ SigningIn(g)
      <4>1. gone[n] \subseteq gone'[n] /\ (n = m => code[n] \in gone'[n])
        BY <2>1
      <4>2. code[n] = lastCode[n] \/ \E g \in Callers : amember[g] = n /\ SigningIn(g)
        BY <3>3, <4>1 DEF CodeUsedOnce, AccountInv
      <4> QED
        BY <2>1, <3>3, <4>1, <4>2
    <3> QED
      BY <2>1, <3>1, <3>2, <3>3 DEF CodeUsedOnce, AccountInv
  <2>7. ProfilesMatchRole'
    BY <2>1 DEF ProfilesMatchRole, AccountInv
  <2> QED
    BY <2>2, <2>3, <2>4, <2>5, <2>6, <2>7 DEF AccountInv
<1>3. ASSUME NEW m \in Members, WindowPasses(m) PROVE AccountInv'
  <2>1. AccountTypeOK'
    BY <1>0, <1>3 DEF WindowPasses, AccountTypeOK, profileVars, callerVars
  <2> QED
    BY <1>3, <2>1 DEF WindowPasses, AccountInv, Handler, Account, OneByOne, AsRead, SigningIn,
                      CodeUsedOnce, ProfilesMatchRole, profileVars, callerVars
<1>4. ASSUME NEW h \in Callers, NEW m \in Members, NEW c \in Codes, VerifyOtp(h, m, c)
      PROVE  AccountInv'
  <2>1. Enter(h, m, "verified", c, "user") /\ code[m] = c /\ c = lastCode[m]
    BY <1>0, <1>4 DEF VerifyOtp, Account
  <2>2. /\ UNCHANGED <<code, rate, lastCode, codeUses, gone, role, onboarded, profiles>>
        /\ rate' \in [Members -> Nat]
    BY <1>0, <1>4 DEF VerifyOtp, otpVars, profileVars, AccountTypeOK
  <2> QED
    BY <2>1, <2>2, AccountEnters
<1>5. ASSUME NEW h \in Callers, NEW m \in Members, NEW t \in Types \cup {"user"},
             OnboardRead(h, m, t)
      PROVE  AccountInv'
  <2>1. Enter(h, m, "onboarding", NoCode, t) /\ ~onboarded[m]
    BY <1>5 DEF OnboardRead
  <2>2. /\ UNCHANGED <<code, rate, lastCode, codeUses, gone, role, onboarded, profiles>>
        /\ rate' \in [Members -> Nat]
    BY <1>0, <1>5 DEF OnboardRead, otpVars, profileVars, AccountTypeOK
  <2> QED
    BY <2>1, <2>2, AccountEnters
<1>6. ASSUME NEW h \in Callers, NEW m \in Members, NEW t \in Types, ProfileRead(h, m, t)
      PROVE  AccountInv'
  <2>1. Enter(h, m, "creating", NoCode, t) /\ profiles[m][t] = 0
    BY <1>6 DEF ProfileRead
  <2>2. /\ UNCHANGED <<code, rate, lastCode, codeUses, gone, role, onboarded, profiles>>
        /\ rate' \in [Members -> Nat]
    BY <1>0, <1>6 DEF ProfileRead, otpVars, profileVars, AccountTypeOK
  <2> QED
    BY <2>1, <2>2, AccountEnters
<1>7. ASSUME NEW h \in Callers, StoreOtp(h) \/ ConsumeOtp(h) \/ ClearRate(h) \/ OtpSignIn(h)
      PROVE  AccountInv'
  BY <1>7, StoreOtpKeeps, ConsumeOtpKeeps, ClearRateKeeps, OtpSignInKeeps
<1>8. ASSUME NEW h \in Callers, OnboardCommit(h) PROVE AccountInv'
  <2>1. PICK m \in Members, t \in Types \cup {"user"} : m = amember[h] /\ t = arole[h]
    BY <1>0, <1>8 DEF OnboardCommit, Handler, AccountTypeOK
  <2>2. \A n \in Members :
          /\ role'[n] = (IF n = m THEN t ELSE role[n])
          /\ n # m => profiles'[n] = profiles[n] /\ onboarded'[n] = onboarded[n]
          /\ n = m => onboarded'[n]
    BY <1>0, <1>8, <2>1 DEF OnboardCommit, AccountTypeOK
  <2>3. \A s \in Types :
          profiles'[m][s] = IF s = t THEN profiles[m][s] + 1 ELSE profiles[m][s]
    BY <1>0, <1>8, <2>1 DEF OnboardCommit, AccountTypeOK, Types
  <2>4. /\ Leave(h) /\ apc[h] = "onboarding"
        /\ UNCHANGED <<code, rate, lastCode, codeUses, gone>>
    BY <1>8 DEF OnboardCommit, otpVars
  <2>5. Left(h)
    BY <1>0, <2>4, LeaveIs
  <2>6. AccountTypeOK'
    <3>1. role' \in [Members -> Types \cup {"user"}] /\ onboarded' \in [Members -> BOOLEAN]
      BY <1>0, <1>8, <2>1 DEF OnboardCommit, AccountTypeOK
    <3>2. CASE t = "user"
      <4>1. profiles' = profiles
        BY <1>8, <2>1, <3>2 DEF OnboardCommit
      <4> QED
        BY <1>0, <2>4, <3>1, <4>1, LeaveIs DEF AccountTypeOK
    <3>3. CASE t # "user"
      <4>1. profiles' = [profiles EXCEPT ![m][t] = profiles[m][t] + 1] /\ t \in Types
        BY <1>8, <2>1, <3>3 DEF OnboardCommit
      <4>2. profiles' \in [Members -> [Types -> Nat]]
        BY <1>0, <4>1 DEF AccountTypeOK
      <4> QED
        BY <1>0, <2>4, <3>1, <4>2, LeaveIs DEF AccountTypeOK
    <3> QED
      BY <3>2, <3>3
  <2>7. \A n \in Members, s \in Types :
          profiles[n][s] \in Nat /\ profiles'[n][s] \in Nat /\ profiles[n][s] <= profiles'[n][s]
    BY <1>0, <2>2, <2>3 DEF AccountTypeOK
  <2>8. \A g \in Callers : Handler(g)'
    BY <1>0, <2>4, <2>5, <2>7, AccountLeaves
  <2>9. ASSUME NEW n \in Members PROVE Account(n)'
    <3>1. \A s \in Types : role'[n] = s => profiles'[n][s] >= 1
      BY <1>0, <2>2, <2>3, <2>7 DEF Account
    <3> QED
      BY <1>0, <2>4, <3>1 DEF Account
  <2>10. ASSUME NEW n \in Members \ crossed' PROVE OneByOne(n)'
    <3>1. OneByOne(n)
      BY <2>5, <2>10 DEF AccountInv, Left
    <3> QED
      BY <2>1, <2>2, <2>4, <2>5, <3>1, OneByOneLeaves DEF OneByOne
  <2>11. CodeUsedOnce'
    BY <2>4, <2>5, CodesKept DEF AccountInv, Left, SigningIn
  <2>12. ProfilesMatchRole'
    <3> SUFFICES ASSUME NEW n \in Members, NEW s \in Types
                 PROVE  n \notin crossed =>
                          profiles'[n][s] <= 1 \/ (onboarded'[n] /\ profiles'[n][s] <= 2)
      BY <2>5, <2>9 DEF ProfilesMatchRole, Account, Left
    <3>1. CASE n = m
      <4>1. n \notin crossed => ~onboarded[m]
        BY <2>1, <2>4, <3>1 DEF AccountInv, OneByOne, AsRead
      <4>2. n \notin crossed => profiles[m][s] <= 1
        BY <3>1, <4>1 DEF AccountInv, ProfilesMatchRole
      <4> QED
        BY <2>2, <2>3, <2>7, <3>1, <4>2
    <3>2. CASE n # m
      BY <2>2, <3>2 DEF AccountInv, ProfilesMatchRole
    <3> QED
      BY <3>1, <3>2
  <2> QED
    BY <2>6, <2>8, <2>9, <2>10, <2>11, <2>12 DEF AccountInv
<1>9. ASSUME NEW h \in Callers, ProfileInsert(h) PROVE AccountInv'
  <2>1. PICK m \in Members, t \in Types : m = amember[h] /\ t = arole[h]
    BY <1>0, <1>9 DEF ProfileInsert, Handler, AccountTypeOK
  <2>2. /\ \A n \in Members : n # m => profiles'[n] = profiles[n]
        /\ \A s \in Types :
             profiles'[m][s] = IF s = t THEN profiles[m][s] + 1 ELSE profiles[m][s]
    BY <1>0, <1>9, <2>1 DEF ProfileInsert, AccountTypeOK
  <2>3. /\ \A g \in Callers : apc'[g] = IF g = h THEN "created" ELSE apc[g]
        /\ apc[h] = "creating" /\ apc' \in [Callers -> AccountSteps]
    BY <1>0, <1>9, GoesIs DEF ProfileInsert, AccountSteps
  <2>4. UNCHANGED <<code, rate, lastCode, codeUses, gone, role, onboarded, amember,
                    acode, arole, crossed>>
    BY <1>9 DEF ProfileInsert, otpVars, Goes
  <2>5. AccountTypeOK'
    <3>1. profiles' \in [Members -> [Types -> Nat]]
      BY <1>0, <1>9, <2>1 DEF ProfileInsert, AccountTypeOK
    <3> QED
      BY <1>0, <2>3, <2>4, <3>1 DEF AccountTypeOK
  <2>6. \A n \in Members, s \in Types :
          profiles[n][s] \in Nat /\ profiles'[n][s] \in Nat /\ profiles[n][s] <= profiles'[n][s]
    <3>1. \A n \in Members, s \in Types : profiles[n][s] \in Nat
      BY <1>0 DEF AccountTypeOK
    <3>2. \A n \in Members, s \in Types : profiles'[n][s] \in {profiles[n][s], profiles[n][s] + 1}
      BY <2>2
    <3> QED
      BY <3>1, <3>2
  <2>7. ASSUME NEW g \in Callers PROVE Handler(g)'
    <3>1. CASE g = h
      <4>1. profiles'[m][t] >= 1
        BY <2>2, <2>6
      <4> QED
        BY <1>0, <2>1, <2>3, <2>4, <3>1, <4>1 DEF Handler, SigningIn
    <3>2. CASE g # h
      <4>1. apc'[g] = apc[g] /\ Handler(g) /\ (apc[g] # "idle" => amember[g] \in Members)
        BY <1>0, <2>3, <3>2 DEF Handler, AccountTypeOK
      <4>2. apc[g] = "created" => profiles'[amember[g]][arole[g]] >= 1
        BY <2>6, <4>1 DEF Handler
      <4> QED
        BY <2>4, <4>1, <4>2 DEF Handler, SigningIn
    <3> QED
      BY <3>1, <3>2
  <2>8. ASSUME NEW n \in Members PROVE Account(n)'
    BY <1>0, <2>4, <2>6 DEF Account
  <2>9. ASSUME NEW n \in Members \ crossed' PROVE OneByOne(n)'
    <3>1. OneByOne(n)
      BY <2>4, <2>9 DEF AccountInv
    <3>2. ASSUME NEW g \in Callers, amember[g] = n PROVE AsRead(n, g)'
      <4>1. CASE g = h
        BY <2>3, <4>1 DEF AsRead, SigningIn
      <4>2. CASE g # h
        <5>1. n # m /\ AsRead(n, g)
          BY <2>1, <3>1, <3>2, <4>2 DEF OneByOne
        <5> QED
          BY <2>2, <2>3, <2>4, <4>2, <5>1 DEF AsRead, SigningIn
      <4> QED
        BY <4>1, <4>2
    <3> QED
      BY <2>4, <3>1, <3>2 DEF OneByOne
  <2>10. CodeUsedOnce'
    BY <2>3, <2>4, CodesKept DEF AccountInv, SigningIn
  <2>11. ProfilesMatchRole'
    <3> SUFFICES ASSUME NEW n \in Members, NEW s \in Types
                 PROVE  n \notin crossed =>
                          profiles'[n][s] <= 1 \/ (onboarded[n] /\ profiles'[n][s] <= 2)
      BY <2>4, <2>8 DEF ProfilesMatchRole, Account
    <3>1. CASE n = m /\ s = t
      BY <2>1, <2>2, <2>3, <3>1 DEF AccountInv, OneByOne, AsRead
    <3>2. CASE n # m \/ s # t
      BY <2>2, <3>2 DEF AccountInv, ProfilesMatchRole
    <3> QED
      BY <3>1, <3>2
  <2> QED
    BY <2>5, <2>7, <2>8, <2>9, <2>10, <2>11 DEF AccountInv
<1>10. ASSUME NEW h \in Callers, RoleWrite(h) PROVE AccountInv'
  <2>1. PICK m \in Members, t \in Types :
          m = amember[h] /\ t = arole[h] /\ profiles[m][t] >= 1
    BY <1>0, <1>10 DEF RoleWrite, Handler, AccountTypeOK
  <2>2. \A n \in Members : role'[n] = IF n = m THEN t ELSE role[n]
    BY <1>0, <1>10, <2>1 DEF RoleWrite, AccountTypeOK
  <2>3. Leave(h) /\ UNCHANGED <<code, rate, lastCode, codeUses, gone, onboarded, profiles>>
    BY <1>10 DEF RoleWrite, otpVars
  <2>4. Left(h)
    BY <1>0, <2>3, LeaveIs
  <2>5. AccountTypeOK'
    <3>1. role' \in [Members -> Types \cup {"user"}]
      BY <1>0, <1>10, <2>1 DEF RoleWrite, AccountTypeOK
    <3> QED
      BY <1>0, <2>3, <3>1, LeaveIs DEF AccountTypeOK
  <2>6. \A g \in Callers : Handler(g)'
    <3>1. \A n \in Members, s \in Types :
            /\ profiles[n][s] \in Nat /\ profiles'[n][s] \in Nat
            /\ profiles[n][s] <= profiles'[n][s]
      BY <1>0, <2>3 DEF AccountTypeOK
    <3> QED
      BY <1>0, <2>3, <2>4, <3>1, AccountLeaves
  <2>7. \A n \in Members : Account(n)'
    BY <1>0, <2>1, <2>2, <2>3 DEF Account
  <2>8. ASSUME NEW n \in Members \ crossed' PROVE OneByOne(n)'
    <3>1. OneByOne(n)
      BY <2>4, <2>8 DEF AccountInv, Left
    <3> QED
      BY <2>3, <2>4, <3>1, OneByOneLeaves DEF OneByOne
  <2>9. CodeUsedOnce'
    BY <1>10, <2>3, <2>4, CodesKept DEF AccountInv, Left, SigningIn, RoleWrite
  <2>10. ProfilesMatchRole'
    BY <2>3, <2>4, <2>7 DEF ProfilesMatchRole, AccountInv, Account, Left
  <2> QED
    BY <2>5, <2>6, <2>7, <2>8, <2>9, <2>10 DEF AccountInv
<1>11. ASSUME NEW h \in Callers, SendOtp(h) \/ CallerFails(h) PROVE AccountInv'
  <2>1. /\ Leave(h) /\ apc[h] # "idle"
        /\ UNCHANGED <<code, rate, lastCode, codeUses, role, onboarded, profiles>>
    BY <1>11 DEF SendOtp, CallerFails, otpVars, profileVars
  <2>2. Left(h)
    BY <1>0, <2>1, LeaveIs
  <2>3. PICK m \in Members : m = amember[h]
    BY <1>0, <2>1 DEF Handler, AccountTypeOK
  <2>4. /\ gone' \in [Members -> SUBSET Codes]
        /\ \A n \in Members : gone[n] \subseteq gone'[n]
        /\ SigningIn(h) => acode[h] \in gone'[m]
    <3>1. SigningIn(h) => acode[h] \in Codes
      BY <1>0 DEF Handler
    <3>2. CASE gone' = gone /\ ~SigningIn(h)
      BY <1>0, <3>2 DEF AccountTypeOK
    <3>3. CASE SigningIn(h) /\ gone' = [gone EXCEPT ![m] = @ \cup {acode[h]}]
      <4>1. gone \in [Members -> SUBSET Codes]
        BY <1>0 DEF AccountTypeOK
      <4> QED
        BY <2>3, <3>1, <3>3, <4>1
    <3> QED
      BY <1>11, <2>3, <3>2, <3>3 DEF SendOtp, CallerFails, SigningIn, otpVars
  <2>5. AccountTypeOK'
    <3>1. /\ apc' \in [Callers -> AccountSteps]
          /\ amember' \in [Callers -> Members \cup {NoMember}]
          /\ acode' \in [Callers -> Codes \cup {NoCode}]
          /\ arole' \in [Callers -> Types \cup {"user"}] /\ crossed' \subseteq Members
      BY <1>0, <2>1, LeaveIs
    <3>2. /\ role' \in [Members -> Types \cup {"user"}] /\ onboarded' \in [Members -> BOOLEAN]
          /\ profiles' \in [Members -> [Types -> Nat]]
          /\ code' \in [Members -> Codes \cup {NoCode}]
          /\ lastCode' \in [Members -> Codes \cup {NoCode}]
          /\ rate' \in [Members -> Nat] /\ codeUses' \in [Members -> [Codes -> Nat]]
      BY <1>0, <2>1 DEF AccountTypeOK
    <3>3. gone' \in [Members -> SUBSET Codes]
      BY <2>4
    <3> QED
      BY <3>1, <3>2, <3>3 DEF AccountTypeOK
  <2>6. \A g \in Callers : Handler(g)'
    <3>1. \A n \in Members, s \in Types :
            /\ profiles[n][s] \in Nat /\ profiles'[n][s] \in Nat
            /\ profiles[n][s] <= profiles'[n][s]
      BY <1>0, <2>1 DEF AccountTypeOK
    <3> QED
      BY <1>0, <2>1, <2>2, <3>1, AccountLeaves
  <2>7. \A n \in Members : Account(n)'
    BY <1>0, <2>1 DEF Account
  <2>8. ASSUME NEW n \in Members \ crossed' PROVE OneByOne(n)'
    <3>1. OneByOne(n)
      BY <2>2, <2>8 DEF AccountInv, Left
    <3> QED
      BY <2>1, <2>2, <3>1, OneByOneLeaves
  <2>9. CodeUsedOnce'
    <3> SUFFICES ASSUME NEW n \in Members \ crossed,
                        lastCode[n] # NoCode, codeUses[n][lastCode[n]] = 0,
                        lastCode[n] \notin gone'[n], code[n] # lastCode[n]
                 PROVE  \E g \in Callers : amember'[g] = n /\ SigningIn(g)'
      BY <2>1, <2>2 DEF AccountInv, CodeUsedOnce, Left
    <3>1. PICK g \in Callers : amember[g] = n /\ SigningIn(g)
      BY <2>4 DEF AccountInv, CodeUsedOnce
    <3>2. acode[g] = lastCode[n]
      BY <3>1 DEF AccountInv, OneByOne, AsRead
    <3>3. g # h
      BY <2>3, <2>4, <3>1, <3>2
    <3> QED
      BY <2>2, <3>1, <3>3 DEF Left, SigningIn
  <2>10. ProfilesMatchRole'
    BY <2>1, <2>2 DEF ProfilesMatchRole, AccountInv, Left
  <2> QED
    BY <2>5, <2>6, <2>7, <2>8, <2>9, <2>10 DEF AccountInv
<1>12. CASE UNCHANGED accountVars
  BY <1>12 DEF accountVars, otpVars, profileVars, callerVars, AccountInv, AccountTypeOK,
               Handler, Account, OneByOne, AsRead, SigningIn, CodeUsedOnce, ProfilesMatchRole
<1> QED
  BY <1>1, <1>2, <1>3, <1>4, <1>5, <1>6, <1>7, <1>8, <1>9, <1>10, <1>11, <1>12
     DEF AccountNext

(* The users' rows, codes and handlers are as AccountTypeOK says, a code   *)
(* signs in once and the one stored last is good, and roles have profiles: *)
(* for any members and handlers, and for what they do one at a time.       *)
LEMMA AccountInvariant == AccountSpec => []AccountInv
<1> QED
  BY AccountStart, AccountStep, PTL DEF AccountSpec

(* A code that has signed in is stored no more, whatever overlaps or       *)
(* fails; of a member's requests one at a time, a code signs in once and   *)
(* the one stored last is good until it is used, expires or is lost by a   *)
(* sign-in that failed.                                                    *)
THEOREM CodesAreUsedOnce == AccountSpec => []CodeUsedOnce
<1>1. AccountInv => CodeUsedOnce
  BY DEF AccountInv
<1> QED
  BY <1>1, AccountInvariant, PTL

(* onboard() and create() leave no role without its profile, and a second  *)
(* profile of a type only to a member who was onboarded after create().    *)
THEOREM RolesHaveProfiles == AccountSpec => []ProfilesMatchRole
<1>1. AccountInv => ProfilesMatchRole
  BY DEF AccountInv
<1> QED
  BY <1>1, AccountInvariant, PTL

-----------------------------------------------------------------------------

(* The three of the run side by side: each leaves the others' state alone. *)
Together ==
  /\ AuthInv /\ Answers /\ WebTypeOK /\ AccountInv
  /\ running = "web" => Serving /\ Calm
  /\ running # "web" => ~refused /\ ~loggedOut

LEMMA TogetherInvariant == Spec => []Together
<1>1. Init => Together
  <2> SUFFICES ASSUME Init PROVE Together
    OBVIOUS
  <2>1. AuthInv /\ Answers
    BY MintingInit, RotationInit, CredentialsInit DEF Init, AuthInv, AuthInit, Answers
  <2>2. WebTypeOK /\ Serving /\ Calm /\ ~refused /\ ~loggedOut
    BY WebTypedInit, CalmInit DEF Init, WebInit
  <2> QED
    BY <2>1, <2>2, AccountStart DEF Init, Together
<1>2. Together /\ [Next]_<<running, authVars, webVars, accountVars>> => Together'
  <2> SUFFICES ASSUME Together, [Next]_<<running, authVars, webVars, accountVars>>
               PROVE  Together'
    OBVIOUS
  <2>0. running' = running
    BY DEF Next
  <2>1. [AuthNext]_authVars
    BY WebIsClient DEF Together, Next
  <2>2. AuthInv' /\ Answers'
    BY <2>1, MintingStep, RotationStep, CredentialsStep, AnswersStep DEF Together, AuthInv
  <2>3. AccountInv'
    BY AccountStep DEF Together, Next
  <2>4. CASE running = "web"
    <3>1. [WebNext]_<<authVars, webVars>>
      BY <2>4 DEF Next
    <3>2. WebTypeOK' /\ Serving' /\ Calm'
      BY <2>4, <3>1, WebStep DEF Together, AuthInv, WebInv
    <3> QED
      BY <2>0, <2>2, <2>3, <2>4, <3>2 DEF Together
  <2>5. CASE running # "web"
    <3>1. UNCHANGED webVars
      BY <2>5 DEF Next
    <3>2. UNCHANGED <<store, stale, page, call, waiting, flight, direct, forms, leaving,
                      losses, raced, loggedOut, refused>>
      BY <3>1 DEF webVars, pageVars, storeVars, clientHistory
    <3>3. WebTypeOK' /\ ~refused' /\ ~loggedOut'
      BY <2>5, <3>2 DEF Together, WebTypeOK
    <3> QED
      BY <2>0, <2>2, <2>3, <2>5, <3>3 DEF Together
  <2> QED
    BY <2>4, <2>5
<1> QED
  BY <1>1, <1>2, PTL DEF Spec

(* The types of every row and variable, in the specification of the run.   *)
THEOREM EveryoneTyped == Spec => []TypesOK
<1>1. Together => TypesOK
  BY DEF Together, TypesOK, AuthInv, Minting, AccountInv
<1> QED
  BY <1>1, TogetherInvariant, PTL

(* What the run checks, all of it, whichever of the three goes on.         *)
THEOREM SessionsAreSafe ==
  Spec => [](/\ RevocationHolds /\ RotatedOnce
             /\ SignedOutForAReason /\ LogoutStays
             /\ CodeUsedOnce /\ ProfilesMatchRole)
<1>1. Together => RevocationHolds /\ RotatedOnce
  BY DEF Together, AuthInv, Credentials, Rotation, Settled, RevocationHolds, RotatedOnce
<1>2. Together => SignedOutForAReason /\ LogoutStays
  <2> SUFFICES ASSUME Together PROVE SignedOutForAReason /\ LogoutStays
    OBVIOUS
  <2>1. losses \in Nat
    BY DEF Together, WebTypeOK
  <2> QED
    BY <2>1 DEF Together, Calm, Quiet, SignedOutForAReason, LogoutStays
<1>3. Together => CodeUsedOnce /\ ProfilesMatchRole
  BY DEF Together, AccountInv
<1> QED
  BY <1>1, <1>2, <1>3, TogetherInvariant, PTL
=============================================================================
