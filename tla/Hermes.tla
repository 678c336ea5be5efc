-------------------------------- MODULE Hermes --------------------------------
(***************************************************************************)
(* What the operator sees and answers through Hermes: the Observer of a    *)
(* project, the Observer of the Fleet and the approval bridge.  None reads *)
(* or writes what another keeps, so that their product has a property of   *)
(* one of them if and only if that one alone has it: in a behaviour one    *)
(* runs and the others stay as they are.                                   *)
(***************************************************************************)
EXTENDS Naturals

CONSTANTS MaxJobs, MaxIncidents, MaxLines, MaxFaults, MAX_OUTBOX, TerminalWindow    \* ProjectObserver
CONSTANTS Press, MaxChallenges, MaxRevision                                         \* OperatorApproval
CONSTANT  MaxChanges                                                                \* FleetObserver

VARIABLES version, project, observer, cycle, chat, since
VARIABLES approvalJob, asking, challenge, issued, press
VARIABLES fleet, watcher, watch, heard, calm

VARIABLE running    \* the one that runs

Observer == INSTANCE ProjectObserver
Approval == INSTANCE OperatorApproval
Fleet    == INSTANCE FleetObserver

ASSUME HermesAssumption == Observer!ObserverBounds /\ Approval!ApprovalBounds /\ Fleet!FleetObserverBounds

\* What each keeps.
observerVars == <<version, project, observer, cycle, chat, since>>
approvalVars == <<approvalJob, asking, challenge, issued, press>>
fleetObserverVars == <<fleet, watcher, watch, heard, calm>>

hermesVars == <<running, observerVars, approvalVars, fleetObserverVars>>

HermesInit ==
    /\ running \in {"observer", "approval", "fleet"}
    /\ Observer!ObserverInit /\ Approval!ApprovalInit /\ Fleet!FleetObserverInit
    /\ running # "observer" => version = 1
    /\ running # "fleet" => fleet.phase = "starting" /\ fleet.troubles = {}

ObserverRuns ==
    /\ running = "observer" /\ Observer!ObserverNext
    /\ UNCHANGED <<running, approvalVars, fleetObserverVars>>

ApprovalRuns ==
    /\ running = "approval" /\ Approval!ApprovalNext
    /\ UNCHANGED <<running, observerVars, fleetObserverVars>>

FleetRuns ==
    /\ running = "fleet" /\ Fleet!FleetObserverNext
    /\ UNCHANGED <<running, observerVars, approvalVars>>

HermesNext == ObserverRuns \/ ApprovalRuns \/ FleetRuns

HermesSpec == HermesInit /\ [][HermesNext]_hermesVars

-----------------------------------------------------------------------------
(* The properties, each stated with the code it is about in its module.     *)

HermesTypeOK == Observer!ObserverTypeOK /\ Approval!ApprovalTypeOK /\ Fleet!FleetObserverTypeOK

\* hermes-observer.ts: a terminal Job that counts as seen is told or waits to be told.
NothingForgotten == Observer!NothingForgotten

\* hermes-observer.ts: a restart replays no progress that reached the operator.
NoReplay == [][Observer!NothingComesBack]_observerVars

\* fleet-observer.ts: an alarm that counts as seen is told or waits to be told.
AlarmsAreTold == Fleet!AlarmsAreTold

\* hermes-approval.ts: two answers to one card never both decide, and what a button decides
\* is what its own card showed.
AnswersAreExact == Approval!ConfirmedOnce /\ Approval!ExactDecision
=============================================================================
