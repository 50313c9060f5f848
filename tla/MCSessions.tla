----------------------------- MODULE MCSessions -----------------------------
(* Who a request is from: the server's sessions with any client            *)
(* ("server"), the same server with the tabs of one browser ("web"), and   *)
(* the accounts and codes behind a sign-in ("accounts"), which share no    *)
(* state with sessions.  One of the three runs in each behaviour.          *)
EXTENDS WebSession, Accounts, TLC

VARIABLE running

Init ==
  /\ running \in {"server", "web", "accounts"}
  /\ AuthInit /\ WebInit /\ AccountInit

Next ==
  /\ \/ running = "server" /\ AuthNext /\ UNCHANGED <<webVars, accountVars>>
     \/ running = "web" /\ WebNext /\ UNCHANGED accountVars
     \/ running = "accounts" /\ AccountNext /\ UNCHANGED <<authVars, webVars>>
  /\ running' = running

Spec == Init /\ [][Next]_<<running, authVars, webVars, accountVars>>

(* The types of the server's rows, the browser's state and the codes.      *)
TypesOK == AuthTypeOK /\ WebTypeOK /\ AccountTypeOK

(* Handlers of the server, and the tabs of the browser, are                *)
(* interchangeable.                                                        *)
Symmetry == Permutations(Requests) \cup Permutations(Tabs)
=============================================================================
