------------------------------- MODULE MCOutages -------------------------------
(*****************************************************************************)
(* What fleet.py keeps across the routers: the outage tracker with any calls,*)
(* with the coordinators that call it, and in time. They share a run, not    *)
(* state: in a behaviour one of them runs (part) while the others stay where *)
(* they are.                                                                 *)
(*****************************************************************************)
EXTENDS FleetOutage, Naturals

CONSTANTS Threshold, AuthLimit,                          \* the coordinators
          Intervals, PollTime, Settle, TimedThreshold    \* the tracker in time

CONSTANTS r1, r2, r3

ThreeRouters == {r1, r2, r3}

VARIABLES
  part, failures, authFailures, polling, ownLoaded, ownOutage, ownError, ownFleet, ownTimer,
  ownIssues, ownLanIssue, lanUp, interval, due, timedFailures, left, timedLoaded,
  timedOutage, timedError, timedFleet, timedTimer, timedIssues, timedLanIssue

Reporting == INSTANCE OutageReporting WITH
  Threshold <- Threshold, AuthLimit <- AuthLimit, failures <- failures,
  authFailures <- authFailures, polling <- polling, loaded <- ownLoaded,
  outage <- ownOutage, error <- ownError,
  fleet <- ownFleet, timer <- ownTimer, issues <- ownIssues, lanIssue <- ownLanIssue

Timing == INSTANCE OutageTiming WITH
  Intervals <- Intervals, PollTime <- PollTime, Settle <- Settle,
  Threshold <- TimedThreshold, lanUp <- lanUp, interval <- interval, due <- due,
  failures <- timedFailures, left <- left,
  loaded <- timedLoaded, outage <- timedOutage, error <- timedError, fleet <- timedFleet,
  timer <- timedTimer, issues <- timedIssues, lanIssue <- timedLanIssue

coordinatorsVars == <<failures, authFailures, polling, ownLoaded, ownOutage, ownError,
                       ownFleet, ownTimer, ownIssues, ownLanIssue>>
timingVars == <<lanUp, interval, due, timedFailures, left, timedLoaded, timedOutage,
                 timedError, timedFleet, timedTimer, timedIssues, timedLanIssue>>

\* A part that does not run stays at one of its initial states.
MCInit ==
  /\ part \in {"tracker", "coordinators", "timing"}
  /\ Init
  /\ Reporting!Init
  /\ Timing!Init
  /\ part # "timing" =>
       /\ interval = [r \in Routers |-> CHOOSE i \in Intervals : TRUE]
       /\ due = [r \in Routers |-> 0]

OnlyTracker ==
  /\ part = "tracker"
  /\ UNCHANGED <<part, coordinatorsVars, timingVars>>

OnlyCoordinators ==
  /\ part = "coordinators"
  /\ UNCHANGED <<part, vars, timingVars>>

OnlyTiming ==
  /\ part = "timing"
  /\ UNCHANGED <<part, vars, coordinatorsVars>>

MCNext ==
  \/ OnlyTracker /\ Next
  \/ OnlyCoordinators /\ Reporting!Next
  \/ OnlyTiming /\ Timing!Next

allVars == <<part, vars, coordinatorsVars, timingVars>>

MCSpec == MCInit /\ [][MCNext]_allVars

MCLiveSpec ==
  /\ MCSpec
  /\ WF_coordinatorsVars(part = "coordinators" /\ Reporting!Classify)
  /\ \A r \in Routers :
       WF_coordinatorsVars(part = "coordinators" /\ polling[r] /\ Reporting!Poll(r))

--------------------------------------------------------------------------------
ASSUME OutageAssumptions == Reporting!ReportingAssumptions /\ Timing!TimingAssumptions

\* Tracker and coordinators agree on who is down, in states that are typed.
CoordinatorsAgree == TypeOK /\ Reporting!TypeOK /\ Reporting!DownIffFailing /\ Timing!TypeOK

\* The fleet issue is raised only while every loaded router is past its threshold, and
\* a router that was down and answers ends it with that poll.
LanIssueIsRight == Reporting!LanIssueOnlyForAll /\ Reporting!RecoveryEndsLanIssue

\* A router past its threshold is eventually shown, unless it answers or is unloaded.
OutageIsShown == Reporting!OutageIsShown

\* What the user is told follows from who is down, as OutageView promises (refinement).
ToldAsPromised == Reporting!ToldAsPromised

\* One fault of the LAN raises the fleet issue and no other, whatever the offsets.
OneCauseOneIssue == Timing!OneCauseOneIssue
================================================================================
