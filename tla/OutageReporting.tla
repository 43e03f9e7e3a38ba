---------------------------- MODULE OutageReporting ----------------------------
(***************************************************************************)
(* The coordinators of all config entries (coordinator.py) together with    *)
(* the FleetOutageTracker they report to (fleet.py), from the setup of an   *)
(* entry to its unload (__init__.py).                                       *)
(*                                                                          *)
(* A poll is one action: its outcome is the exception it ends with, and the *)
(* handlers of _async_poll run without an await.  _failure_count is capped  *)
(* at Threshold, beyond which the code does not tell values apart.          *)
(***************************************************************************)
EXTENDS Naturals

CONSTANTS Routers,
          Threshold,     \* NOTIFICATION_FAILURE_THRESHOLD
          AuthLimit      \* _MAX_CONSECUTIVE

ReportingAssumptions ==
  /\ Threshold \in Nat \ {0}
  /\ AuthLimit \in Nat \ {0}

VARIABLES
  failures,       \* _failure_count of each coordinator, up to Threshold
  authFailures,   \* _consecutive_auth_failures
  polling,        \* a further poll is scheduled
  loaded, outage, error, fleet, timer, issues, lanIssue   \* the tracker

tracker == <<loaded, outage, error, fleet, timer, issues, lanIssue>>
counters == <<failures, authFailures, polling>>
vars == <<counters, tracker>>

Tracker == INSTANCE FleetOutage WITH
  loaded <- loaded, outage <- outage, error <- error, fleet <- fleet, timer <- timer,
  issues <- issues, lanIssue <- lanIssue

TypeOK ==
  /\ failures \in [Routers -> 0..Threshold]
  /\ authFailures \in [Routers -> 0..(AuthLimit - 1)]
  /\ polling \in [Routers -> BOOLEAN]
  /\ Tracker!TypeOK

Init ==
  /\ failures = [r \in Routers |-> 0]
  /\ authFailures = [r \in Routers |-> 0]
  /\ polling = [r \in Routers |-> FALSE]
  /\ Tracker!Init

-------------------------------------------------------------------------------
\* async_setup_entry: the first refresh succeeded, with a fresh coordinator; the
\* coordinator is registered and attached.  A first refresh that fails leaves
\* nothing behind (ConfigEntryNotReady), so it is no step.
Setup(r) ==
  /\ r \notin loaded
  /\ failures' = [failures EXCEPT ![r] = 0]
  /\ authFailures' = [authFailures EXCEPT ![r] = 0]
  /\ polling' = [polling EXCEPT ![r] = TRUE]
  /\ Tracker!Register(r)

\* Fault: the router is removed from the tracker without any follow-up.
UnloadWithoutFollowUp(r) ==
  /\ r \in loaded
  /\ failures' = [failures EXCEPT ![r] = 0]
  /\ authFailures' = [authFailures EXCEPT ![r] = 0]
  /\ polling' = [polling EXCEPT ![r] = FALSE]
  /\ loaded' = loaded \ {r}
  /\ outage' = Tracker!Without(r)
  /\ issues' = issues \ {r}
  /\ UNCHANGED <<error, fleet, timer, lanIssue>>

\* The entry is unloaded; a poll under way is cancelled with it.
Unload(r) ==
  /\ r \in loaded
  /\ failures' = [failures EXCEPT ![r] = 0]
  /\ authFailures' = [authFailures EXCEPT ![r] = 0]
  /\ polling' = [polling EXCEPT ![r] = FALSE]
  /\ Tracker!Unregister(r)

\* Fault: the counter is not reset, so it goes on where the last outage ended.
PollSucceedsKeepingCount(r) ==
  /\ r \in loaded
  /\ authFailures' = [authFailures EXCEPT ![r] = 0]
  /\ polling' = [polling EXCEPT ![r] = TRUE]
  /\ Tracker!ReportUp(r)
  /\ UNCHANGED failures

PollSucceeds(r) ==
  /\ r \in loaded
  /\ failures' = [failures EXCEPT ![r] = 0]
  /\ authFailures' = [authFailures EXCEPT ![r] = 0]
  /\ polling' = [polling EXCEPT ![r] = TRUE]
  /\ Tracker!ReportUp(r)

\* Fault: the threshold is compared before the poll is counted.
RecordFailureLate(r, e) ==
  LET n == IF failures[r] < Threshold THEN failures[r] + 1 ELSE Threshold IN
  /\ failures' = [failures EXCEPT ![r] = n]
  /\ IF failures[r] >= Threshold THEN Tracker!ReportDown(r, e) ELSE UNCHANGED tracker

\* _record_failure: past the threshold every failed poll is reported.
RecordFailure(r, e) ==
  LET n == IF failures[r] < Threshold THEN failures[r] + 1 ELSE Threshold IN
  /\ failures' = [failures EXCEPT ![r] = n]
  /\ IF n >= Threshold THEN Tracker!ReportDown(r, e) ELSE UNCHANGED tracker

\* Connection, timeout, response or missing method: the streak of
\* authentication failures is over.
PollFails(r) ==
  /\ r \in loaded
  /\ authFailures' = [authFailures EXCEPT ![r] = 0]
  /\ polling' = [polling EXCEPT ![r] = TRUE]
  /\ RecordFailure(r, "other")

\* Any other exception counts as a connection failure and leaves the streak.
PollCrashes(r) ==
  /\ r \in loaded
  /\ polling' = [polling EXCEPT ![r] = TRUE]
  /\ RecordFailure(r, "other")
  /\ UNCHANGED authFailures

\* OpenWrtAuthBackoffError: no login was tried, so the streak stays.
PollBackedOff(r) ==
  /\ r \in loaded
  /\ polling' = [polling EXCEPT ![r] = TRUE]
  /\ RecordFailure(r, "auth")
  /\ UNCHANGED authFailures

\* OpenWrtAuthError below the limit.
PollDenied(r) ==
  /\ r \in loaded
  /\ authFailures[r] + 1 < AuthLimit
  /\ authFailures' = [authFailures EXCEPT ![r] = @ + 1]
  /\ polling' = [polling EXCEPT ![r] = TRUE]
  /\ RecordFailure(r, "auth")

\* OpenWrtAuthError at the limit: ConfigEntryAuthFailed starts the reauth flow
\* and Home Assistant schedules no further poll.  This poll is not counted.
PollAsksForReauth(r) ==
  /\ r \in loaded
  /\ authFailures[r] + 1 >= AuthLimit
  /\ authFailures' = [authFailures EXCEPT ![r] = 0]
  /\ polling' = [polling EXCEPT ![r] = FALSE]
  /\ UNCHANGED <<failures, tracker>>

Poll(r) ==
  \/ PollSucceeds(r) \/ PollFails(r) \/ PollCrashes(r)
  \/ PollBackedOff(r) \/ PollDenied(r) \/ PollAsksForReauth(r)

\* The settle window of the tracker is over.
Classify == Tracker!Evaluate /\ UNCHANGED counters

Next ==
  \/ \E r \in Routers : Setup(r) \/ Unload(r) \/ Poll(r)
  \/ Classify

Spec == Init /\ [][Next]_vars

\* The timer of the tracker fires, and a scheduled poll runs.  A poll that is
\* not scheduled may still run, on the request of a switch or a button.
Fairness ==
  /\ WF_vars(Classify)
  /\ \A r \in Routers : WF_vars(polling[r] /\ Poll(r))

LiveSpec == Spec /\ Fairness

-------------------------------------------------------------------------------
(* Properties.                                                              *)

\* The tracker and the coordinators agree on who is down: the entries of _down
\* are the loaded routers whose failed polls reached the threshold, whatever
\* the order of polls, timer, setups and unloads.
DownIffFailing ==
  \A r \in Routers :
    outage[r] # "up" <=> r \in loaded /\ failures[r] = Threshold

\* The fleet issue is raised only while every loaded router, two at least,
\* is past its threshold (fleet.py, module docstring).
LanIssueOnlyForAll ==
  [][~lanIssue /\ lanIssue' =>
       /\ \E r, s \in loaded : r # s
       /\ \A r \in loaded : failures[r] = Threshold]_vars

\* A router that was down and answers ends the fleet issue with that poll.
RecoveryEndsLanIssue ==
  [][\A r \in loaded :
       failures[r] = Threshold /\ failures'[r] = 0 /\ r \in loaded' => ~lanIssue']_vars

\* A router whose failures reach the threshold is eventually shown to the user,
\* alone or within the fleet issue, unless it answers or is unloaded before.
OutageIsShown ==
  \A r \in Routers :
    failures[r] = Threshold ~> (r \in issues \/ lanIssue \/ failures[r] < Threshold)

\* What the user is told (refinement): the issues of the tracker and the coordinators'
\* own counts move as OutageView promises, whatever the tracker keeps in between.
View == INSTANCE OutageView WITH
  down <- {r \in loaded : failures[r] = Threshold}

ToldAsPromised == View!Spec
================================================================================
