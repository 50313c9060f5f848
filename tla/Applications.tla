---------------------------- MODULE Applications ----------------------------
(***************************************************************************)
(* ApplicationsService: one vendor's stall application to an event.  The   *)
(* organiser's decision reads the status, checks that it is not terminal,  *)
(* writes without looking again and then tells the applicant.              *)
(***************************************************************************)
EXTENDS Integers, FiniteSets

CONSTANTS
  Vendors,             \* handlers of submit, all of one applicant
  Deciders,            \* handlers of decide
  MaxDecisions, MaxApplicationFaults   \* bounds, see the README

ASSUME ApplicationConstants == {MaxDecisions, MaxApplicationFaults} \subseteq Nat

VARIABLES
  application,         \* its status, "none" before submit and "gone" with its event
  eventOpen,           \* neither cancelled nor over
  received,            \* notices of new applications the organiser got
  apc,                 \* each submitter's step
  dpc, dchoice,        \* each decider: step, decision
  toldLast,            \* the decision the last notice to the applicant carries
  decisions,           \* decisions written
  clashed,             \* history: two decisions were under way at once
  applicationFaults

applicationVars ==
  <<application, eventOpen, received, apc, dpc, dchoice, toldLast, decisions, clashed,
    applicationFaults>>

-----------------------------------------------------------------------------
Decidable == {"approved", "rejected", "under_review"}
Statuses == Decidable \cup {"submitted"}
Terminal == {"rejected", "booked"}

ApplicationInit ==
  /\ application = "none" /\ eventOpen = TRUE /\ received = 0
  /\ apc = [v \in Vendors |-> "idle"]
  /\ dpc = [d \in Deciders |-> "idle"]
  /\ dchoice = [d \in Deciders |-> "none"]
  /\ toldLast = "none" /\ decisions = 0
  /\ clashed = FALSE /\ applicationFaults = 0

DeciderTo(d, from, to, choice) ==
  /\ dpc[d] = from
  /\ dpc' = [dpc EXCEPT ![d] = to]
  /\ dchoice' = [dchoice EXCEPT ![d] = choice]

-----------------------------------------------------------------------------
SubmitRead(v) ==
  /\ eventOpen /\ application # "gone" /\ apc[v] = "idle"
  /\ apc' = [apc EXCEPT ![v] = "inserting"]
  /\ UNCHANGED <<application, eventOpen, received, dpc, dchoice, toldLast, decisions, clashed, applicationFaults>>

(* The unique (event, applicant) refuses a second row, the foreign key one *)
(* of a removed event; the event may have closed since it was read.        *)
SubmitInsert(v) ==
  /\ apc[v] = "inserting"
  /\ application' = IF application = "none" THEN "submitted" ELSE application
  /\ apc' = [apc EXCEPT ![v] = IF application = "none" THEN "telling" ELSE "done"]
  /\ UNCHANGED <<eventOpen, received, dpc, dchoice, toldLast, decisions, clashed,
                 applicationFaults>>

SubmitTell(v) ==
  /\ apc[v] = "telling"
  /\ \/ received' = received + 1 /\ applicationFaults' = applicationFaults
     \/ /\ applicationFaults < MaxApplicationFaults /\ received' = received
        /\ applicationFaults' = applicationFaults + 1
  /\ apc' = [apc EXCEPT ![v] = "done"]
  /\ UNCHANGED <<application, eventOpen, dpc, dchoice, toldLast, decisions, clashed>>

EventCloses ==
  /\ eventOpen
  /\ eventOpen' = FALSE
  /\ UNCHANGED <<application, received, apc, dpc, dchoice, toldLast, decisions, clashed,
                 applicationFaults>>

(* The event is removed, its applications with it.                         *)
EventGoes ==
  /\ application # "gone"
  /\ application' = "gone" /\ eventOpen' = FALSE
  /\ UNCHANGED <<received, apc, dpc, dchoice, toldLast, decisions, clashed,
                 applicationFaults>>

-----------------------------------------------------------------------------
Deciding == \E d \in Deciders : dpc[d] # "idle"

(* Mutant: a terminal application is decided like any other.               *)
DecideAnyRead(d, choice) ==
  /\ application \in Statuses /\ decisions < MaxDecisions
  /\ DeciderTo(d, "idle", "writing", choice)
  /\ clashed' = (clashed \/ Deciding)
  /\ UNCHANGED <<application, eventOpen, received, apc, toldLast, decisions,
                 applicationFaults>>

DecideRead(d, choice) ==
  /\ application \in Statuses \ Terminal /\ decisions < MaxDecisions
  /\ DeciderTo(d, "idle", "writing", choice)
  /\ clashed' = (clashed \/ Deciding)
  /\ UNCHANGED <<application, eventOpen, received, apc, toldLast, decisions,
                 applicationFaults>>

(* An update by id: it fails only if the row is gone.                      *)
DecideWrite(d) ==
  /\ dpc[d] = "writing" /\ decisions < MaxDecisions
  /\ IF application = "gone"
     THEN DeciderTo(d, "writing", "idle", "none") /\ UNCHANGED <<application, decisions>>
     ELSE /\ application' = dchoice[d]
          /\ decisions' = decisions + 1
          /\ DeciderTo(d, "writing", "telling", dchoice[d])
  /\ UNCHANGED <<eventOpen, received, apc, toldLast, clashed, applicationFaults>>

(* The applicant's notice; a failure to store it is only logged.           *)
DecideTell(d) ==
  /\ dpc[d] = "telling"
  /\ \/ toldLast' = dchoice[d] /\ applicationFaults' = applicationFaults
     \/ /\ applicationFaults < MaxApplicationFaults /\ toldLast' = toldLast
        /\ applicationFaults' = applicationFaults + 1
  /\ DeciderTo(d, "telling", "idle", "none")
  /\ UNCHANGED <<application, eventOpen, received, apc, decisions, clashed>>

ApplicationNext ==
  \/ EventCloses \/ EventGoes
  \/ \E v \in Vendors : SubmitRead(v) \/ SubmitInsert(v) \/ SubmitTell(v)
  \/ \E d \in Deciders :
       \/ DecideWrite(d) \/ DecideTell(d)
       \/ \E choice \in Decidable : DecideRead(d, choice)

ApplicationSpec == ApplicationInit /\ [][ApplicationNext]_applicationVars

-----------------------------------------------------------------------------
ApplicationTypeOK ==
  /\ application \in Statuses \cup {"none", "gone"} /\ eventOpen \in BOOLEAN
  /\ received \in Nat /\ decisions \in 0..MaxDecisions
  /\ apc \in [Vendors -> {"idle", "inserting", "telling", "done"}]
  /\ dpc \in [Deciders -> {"idle", "writing", "telling"}]
  /\ dchoice \in [Deciders -> Decidable \cup {"none"}]
  /\ toldLast \in Decidable \cup {"none"}
  /\ clashed \in BOOLEAN /\ applicationFaults \in Nat

(* "From a terminal state you can't move further", and the applicant's     *)
(* notices say what then stands, of decisions that do not overlap.         *)
DecisionStands ==
  [][ /\ application = "rejected" /\ ~clashed => application' \in {"rejected", "gone"}
      /\ toldLast' # toldLast /\ ~clashed /\ application # "gone" => toldLast' = application
    ]_applicationVars
=============================================================================
