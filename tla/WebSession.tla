----------------------------- MODULE WebSession -----------------------------
(***************************************************************************)
(* The web client's session: the tabs of one browser share the stored      *)
(* tokens; each page has one single-flight refresh for calls that met a    *)
(* 401, and an AuthContext that hydrates on mount, signs in, refreshes     *)
(* after onboarding and logs out, outside that single flight.  Composed    *)
(* with AuthSessions: a request of a tab is a handler of the server.       *)
(***************************************************************************)
EXTENDS AuthSessions

CONSTANTS Tabs, Visitor, NoRequest, MaxStale, MaxLosses,
          Calls,     \* calls the components of a page have outstanding at once
          MaxCalls,  \* of all pages at once (bound)
          Spare   \* tokens kept for the refreshes pages begin by themselves

ASSUME WebConstants ==
  /\ Visitor \in Users /\ NoRequest \notin Requests /\ "hydrate" \notin Calls
  /\ {MaxCalls, MaxStale, MaxLosses, Spare} \subseteq Nat

VARIABLES
  store,      \* the refresh token in localStorage; its access token goes with it
  stale,      \* tokens whose access token has expired
  page,       \* each tab: AuthState.status, or "closed"
  call,       \* each tab and lane: the token an outstanding call carries
  waiting,    \* lanes whose call met a 401 and awaits the refresh
  flight,     \* each tab: inflightRefresh
  direct,     \* each tab: AuthContext's own sign-in or refresh request
  forms,      \* tabs whose direct request is a sign-in form's
  leaving,    \* tabs inside logout()
  losses,     \* replies the network or a reload has lost
  raced,      \* history: two requests of this browser have overlapped (calls that
              \* share one refresh have not)
  loggedOut,  \* history: the last thing the user did was to log out
  refused     \* history: the session was cleared because a refresh was refused

pageVars  == <<page, call, waiting, flight, direct, forms, leaving>>
storeVars == <<store, stale>>
clientHistory == <<losses, raced, loggedOut, refused>>
webVars   == <<pageVars, storeVars, clientHistory>>

-----------------------------------------------------------------------------
Lanes == {"hydrate"} \cup Calls
Idle == -1     \* no call outstanding in this lane

WebInit ==
  /\ store = NoToken /\ stale = {}
  /\ page = [b \in Tabs |-> "closed"]
  /\ call = [b \in Tabs |-> [l \in Lanes |-> Idle]]
  /\ waiting = [b \in Tabs |-> {}]
  /\ flight = [b \in Tabs |-> NoRequest]
  /\ direct = [b \in Tabs |-> NoRequest]
  /\ forms = {} /\ leaving = {} /\ losses = 0
  /\ raced = FALSE /\ loggedOut = FALSE /\ refused = FALSE

InTheAir == {flight[b] : b \in Tabs} \cup {direct[b] : b \in Tabs}
Busy == InTheAir # {NoRequest} \/ leaving # {}

(* A request of this browser that starts beside another ...                *)
NoteRace == raced' = (raced \/ Busy)

(* ... which, for a refresh that calls of one page wait for, is another    *)
(* than theirs.                                                            *)
NoteRaceBeside(b) ==
  raced' = \/ raced
           \/ \E o \in Tabs : direct[o] # NoRequest \/ (o # b /\ flight[o] # NoRequest)
           \/ leaving # {}

Settle(b, answer) ==
  /\ page' = [page EXCEPT ![b] = answer]
  /\ call' = [call EXCEPT ![b]["hydrate"] = Idle]

-----------------------------------------------------------------------------
(* The AuthProvider mounts: with stored tokens, GET /auth/me.              *)
Mount(b) ==
  /\ page[b] = "closed"
  /\ IF store = NoToken
     THEN Settle(b, "anonymous")
     ELSE /\ page' = [page EXCEPT ![b] = "loading"]
          /\ call' = [call EXCEPT ![b]["hydrate"] = store]
  /\ UNCHANGED <<authVars, waiting, flight, direct, forms, leaving, storeVars, clientHistory>>

(* Any component's authenticated call that will meet a 401; those that are *)
(* served leave the session as it is.                                      *)
Call(b, k) ==
  /\ page[b] = "authenticated" /\ call[b][k] = Idle
  /\ Cardinality({o \in Tabs \X Calls : call[o[1]][o[2]] # Idle}) < MaxCalls
  /\ store \in stale \cup {NoToken}
  /\ call' = [call EXCEPT ![b][k] = store]
  /\ UNCHANGED <<authVars, page, waiting, flight, direct, forms, leaving, storeVars, clientHistory>>

Outstanding(b, l) == call[b][l] # Idle /\ l \notin waiting[b]

Ended(b, lanes) == [call EXCEPT ![b] = [l \in Lanes |-> IF l \in lanes THEN Idle ELSE @[l]]]

CallSucceeds(b, l) ==
  /\ Outstanding(b, l)
  /\ call[b][l] # NoToken /\ call[b][l] \notin stale
  /\ call' = Ended(b, {l})
  /\ page' = IF l = "hydrate" THEN [page EXCEPT ![b] = "authenticated"] ELSE page
  /\ UNCHANGED <<authVars, waiting, flight, direct, forms, leaving, storeVars, clientHistory>>

(* Mutant: every call that meets a 401 refreshes on its own.               *)
NoSingleFlight(b, l) ==
  /\ Outstanding(b, l)
  /\ call[b][l] \in stale \cup {NoToken}
  /\ store # NoToken
  /\ \E r \in Requests :
       RefreshRead(r, store) /\ flight' = [flight EXCEPT ![b] = r]
  /\ waiting' = [waiting EXCEPT ![b] = @ \cup {l}]
  /\ NoteRaceBeside(b)
  /\ UNCHANGED <<page, call, direct, forms, leaving, storeVars, losses, loggedOut, refused>>

(* A 401: join the refresh in flight, or begin one if a token is stored,   *)
(* or give up (for a hydration: anonymous).                                *)
CallUnauthorized(b, l) ==
  /\ Outstanding(b, l)
  /\ call[b][l] \in stale \cup {NoToken}
  /\ \/ /\ flight[b] # NoRequest
        /\ waiting' = [waiting EXCEPT ![b] = @ \cup {l}]
        /\ UNCHANGED <<authVars, page, call, flight, raced>>
     \/ /\ flight[b] = NoRequest /\ store # NoToken
        /\ \E r \in Requests :
             RefreshRead(r, store) /\ flight' = [flight EXCEPT ![b] = r]
        /\ waiting' = [waiting EXCEPT ![b] = @ \cup {l}]
        /\ NoteRaceBeside(b)
        /\ UNCHANGED <<page, call>>
     \/ /\ flight[b] = NoRequest /\ store = NoToken
        /\ call' = Ended(b, {l})
        /\ page' = IF l = "hydrate" THEN [page EXCEPT ![b] = "anonymous"] ELSE page
        /\ UNCHANGED <<authVars, waiting, flight, raced>>
  /\ UNCHANGED <<direct, forms, leaving, storeVars, losses, loggedOut, refused>>

(* refreshAccessToken resolves: the new tokens are stored and the waiting  *)
(* calls are sent again (and served, for the access token is new) ...      *)
FlightSucceeds(b) ==
  LET r == flight[b] IN
  /\ r # NoRequest /\ spc[r] = "answered"
  /\ store' = stoken[r]
  /\ page' = IF "hydrate" \in waiting[b] THEN [page EXCEPT ![b] = "authenticated"] ELSE page
  /\ call' = Ended(b, waiting[b])
  /\ waiting' = [waiting EXCEPT ![b] = {}]
  /\ flight' = [flight EXCEPT ![b] = NoRequest]
  /\ Respond(r)
  /\ UNCHANGED <<direct, forms, leaving, stale, clientHistory>>

(* Mutant: a refusal clears the session and tells nobody who waits.        *)
FlightRefusedSilently(b) ==
  LET r == flight[b] IN
  /\ r # NoRequest /\ spc[r] = "refused"
  /\ store' = NoToken /\ refused' = TRUE
  /\ flight' = [flight EXCEPT ![b] = NoRequest]
  /\ Respond(r)
  /\ UNCHANGED <<page, call, waiting, direct, forms, leaving, stale, losses, raced, loggedOut>>

(* ... or is answered by any error, the server's refusal or a gateway's,   *)
(* clears the session and the calls fail.                                  *)
FlightRefused(b) ==
  LET r == flight[b] IN
  /\ r # NoRequest
  /\ \/ spc[r] = "refused" /\ Respond(r) /\ refused' = TRUE /\ losses' = losses
     \/ losses < MaxLosses /\ losses' = losses + 1 /\ UNCHANGED <<authVars, refused>>
  /\ store' = NoToken
  /\ page' = IF "hydrate" \in waiting[b] THEN [page EXCEPT ![b] = "anonymous"] ELSE page
  /\ call' = Ended(b, waiting[b])
  /\ waiting' = [waiting EXCEPT ![b] = {}]
  /\ flight' = [flight EXCEPT ![b] = NoRequest]
  /\ UNCHANGED <<direct, forms, leaving, stale, raced, loggedOut>>

(* The reply is lost: the tokens stay; a hydration tries once more, on its *)
(* own, with what is stored by now.                                        *)
FlightLost(b) ==
  LET r == flight[b] IN
  /\ r # NoRequest /\ losses < MaxLosses
  /\ losses' = losses + 1
  /\ waiting' = [waiting EXCEPT ![b] = {}]
  /\ flight' = [flight EXCEPT ![b] = NoRequest]
  /\ call' = Ended(b, waiting[b])
  /\ IF "hydrate" \in waiting[b] /\ store # NoToken
     THEN /\ direct[b] = NoRequest
          /\ \E q \in Requests :
               RefreshRead(q, store) /\ direct' = [direct EXCEPT ![b] = q]
          /\ UNCHANGED <<page, forms>>
     ELSE /\ page' = IF "hydrate" \in waiting[b]
                     THEN [page EXCEPT ![b] = "anonymous"] ELSE page
          /\ UNCHANGED <<authVars, direct, forms>>
  /\ UNCHANGED <<leaving, storeVars, raced, loggedOut, refused>>

-----------------------------------------------------------------------------
Room == minted + Cardinality(UnderWay(Visitor)) + Spare < MaxTokens

(* A sign-in form, or AuthContext.refresh() after onboarding.              *)
SignIn(b) ==
  /\ page[b] = "anonymous" /\ direct[b] = NoRequest /\ Room
  /\ \E r \in Requests :
       SigninRead(r, Visitor) /\ direct' = [direct EXCEPT ![b] = r]
  /\ forms' = forms \cup {b}
  /\ NoteRace
  /\ UNCHANGED <<page, call, waiting, flight, leaving, storeVars, losses, loggedOut, refused>>

RefreshNow(b) ==
  /\ page[b] = "authenticated" /\ direct[b] = NoRequest /\ store # NoToken /\ Room
  /\ \E r \in Requests :
       RefreshRead(r, store) /\ direct' = [direct EXCEPT ![b] = r]
  /\ NoteRace
  /\ UNCHANGED <<page, call, waiting, flight, forms, leaving, storeVars, losses, loggedOut, refused>>

DirectSucceeds(b) ==
  LET r == direct[b] IN
  /\ r # NoRequest /\ spc[r] = "answered"
  /\ store' = stoken[r]
  /\ loggedOut' = (loggedOut /\ b \notin forms)
  /\ Settle(b, "authenticated")
  /\ direct' = [direct EXCEPT ![b] = NoRequest]
  /\ forms' = forms \ {b}
  /\ Respond(r)
  /\ UNCHANGED <<waiting, flight, leaving, stale, losses, raced, refused>>

(* A refusal; or the reply is lost, which these callers take for one.      *)
DirectFails(b) ==
  LET r == direct[b] IN
  /\ r # NoRequest
  /\ \/ spc[r] = "refused" /\ Respond(r) /\ refused' = TRUE /\ losses' = losses
     \/ losses < MaxLosses /\ losses' = losses + 1 /\ UNCHANGED <<authVars, refused>>
  /\ IF b \in forms THEN UNCHANGED <<store, page, call>>
     ELSE store' = NoToken /\ Settle(b, "anonymous")
  /\ direct' = [direct EXCEPT ![b] = NoRequest]
  /\ forms' = forms \ {b}
  /\ UNCHANGED <<waiting, flight, leaving, stale, raced, loggedOut>>

(* A hydration whose call fails for another reason clears the session too. *)
HydrateFails(b) ==
  /\ Outstanding(b, "hydrate") /\ losses < MaxLosses
  /\ losses' = losses + 1
  /\ store' = NoToken
  /\ Settle(b, "anonymous")
  /\ UNCHANGED <<authVars, waiting, flight, direct, forms, leaving, stale, raced, loggedOut, refused>>

(* logout(): the server is told of the token stored, if any; whatever it   *)
(* says, and if it says nothing, the session is cleared (LogoutClears).    *)
LogoutCall(b) ==
  /\ page[b] = "authenticated" /\ b \notin leaving
  /\ \/ store # NoToken /\ Logout(store) /\ losses' = losses
     \/ store = NoToken /\ UNCHANGED <<authVars, losses>>
     \/ store # NoToken /\ losses < MaxLosses /\ losses' = losses + 1 /\ UNCHANGED authVars
  /\ leaving' = leaving \cup {b}
  /\ NoteRace
  /\ UNCHANGED <<page, call, waiting, flight, direct, forms, storeVars, loggedOut, refused>>

(* Mutant: the page says anonymous, the tokens stay.                       *)
LogoutKeepsTokens(b) ==
  /\ b \in leaving
  /\ leaving' = leaving \ {b} /\ loggedOut' = TRUE
  /\ page' = [page EXCEPT ![b] = "anonymous"]
  /\ UNCHANGED <<authVars, call, waiting, flight, direct, forms, storeVars, losses, raced, refused>>

LogoutClears(b) ==
  /\ b \in leaving
  /\ leaving' = leaving \ {b} /\ loggedOut' = TRUE
  /\ store' = NoToken
  /\ page' = [page EXCEPT ![b] = "anonymous"]
  /\ UNCHANGED <<authVars, call, waiting, flight, direct, forms, stale, losses, raced, refused>>

(* The tab is closed or reloaded: what it awaited is lost.                 *)
Close(b) ==
  /\ page[b] # "closed"
  /\ page' = [page EXCEPT ![b] = "closed"]
  /\ call' = Ended(b, Lanes)
  /\ waiting' = [waiting EXCEPT ![b] = {}]
  /\ flight' = [flight EXCEPT ![b] = NoRequest]
  /\ direct' = [direct EXCEPT ![b] = NoRequest]
  /\ forms' = forms \ {b}
  /\ leaving' = leaving \ {b}
  /\ IF flight[b] = NoRequest /\ direct[b] = NoRequest /\ b \notin leaving THEN losses' = losses
     ELSE losses < MaxLosses /\ losses' = losses + 1
  /\ UNCHANGED <<authVars, storeVars, raced, loggedOut, refused>>

(* Fifteen minutes pass for an access token.                               *)
GoStale(t) ==
  /\ t <= minted /\ t \notin stale /\ Cardinality(stale) < MaxStale
  /\ stale' = stale \cup {t}
  /\ UNCHANGED <<authVars, store, pageVars, clientHistory>>

ServerStep(r) ==
  /\ GoesOn(r) \/ (r \notin InTheAir /\ Respond(r))
  /\ UNCHANGED webVars

TabStep(b) ==
  \/ \E l \in Lanes : CallSucceeds(b, l) \/ CallUnauthorized(b, l)
  \/ FlightSucceeds(b) \/ FlightRefused(b)
  \/ DirectSucceeds(b) \/ DirectFails(b)
  \/ LogoutClears(b)

WebNext ==
  \/ \E r \in Requests : ServerStep(r)
  \/ \E b \in Tabs :
       \/ TabStep(b) \/ Mount(b) \/ FlightLost(b) \/ HydrateFails(b)
       \/ SignIn(b) \/ RefreshNow(b) \/ LogoutCall(b) \/ Close(b)
       \/ \E k \in Calls : Call(b, k)
  \/ \E t \in Tokens : GoStale(t)

WebSpec == AuthInit /\ WebInit /\ [][WebNext]_<<authVars, webVars>>

(* The server and the page's own code go on; users owe nothing.            *)
WebFairness ==
  /\ \A r \in Requests : WF_<<authVars, webVars>>(ServerStep(r))
  /\ \A b \in Tabs : WF_<<authVars, webVars>>(TabStep(b))

WebFairSpec == WebSpec /\ WebFairness

-----------------------------------------------------------------------------
WebTypeOK ==
  /\ store \in Tokens \cup {NoToken} /\ stale \subseteq Tokens
  /\ page \in [Tabs -> {"closed", "loading", "anonymous", "authenticated"}]
  /\ call \in [Tabs -> [Lanes -> Tokens \cup {NoToken, Idle}]]
  /\ waiting \in [Tabs -> SUBSET Lanes]
  /\ flight \in [Tabs -> Requests \cup {NoRequest}]
  /\ direct \in [Tabs -> Requests \cup {NoRequest}] /\ forms \subseteq Tabs
  /\ leaving \subseteq Tabs /\ losses \in Nat

(* However many calls of a page meet a 401 at once, and whichever tabs     *)
(* refresh and how often, no refusal of a refresh ever signs the browser   *)
(* out (or meets it after logging out), unless a refresh, a sign-in or a   *)
(* logout began beside another request than the refresh such calls share,  *)
(* or a reply was lost.                                                    *)
SignedOutForAReason == refused => raced \/ losses > 0

(* Logging out leaves no tokens in this browser until somebody signs in,   *)
(* unless requests of it have overlapped or lost a reply.                  *)
LogoutStays == loggedOut /\ ~raced /\ losses = 0 => store = NoToken

(* A page that mounts does not stay "loading".                             *)
HydrationSettles == \A b \in Tabs : page[b] = "loading" ~> page[b] # "loading"
=============================================================================
