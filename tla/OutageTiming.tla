------------------------------ MODULE OutageTiming ------------------------------
(***************************************************************************)
(* The time the FleetOutageTracker waits before it classifies an outage     *)
(* (fleet.py, _schedule_evaluation), against the poll intervals of the      *)
(* coordinators (coordinator.py, _interval_for_state and the stagger        *)
(* offset): a fault of the LAN makes the polls of every router fail, and    *)
(* what is raised depends on who has reported when the timer fires.         *)
(*                                                                          *)
(* Time is a clock of ticks.  All entries are loaded, each coordinator is   *)
(* at an arbitrary point of its interval, and the LAN is the only thing     *)
(* that fails, so one issue is the right answer.  The interval of a router  *)
(* (normal, throttled, SSH fallback) is chosen once: the code adapts it     *)
(* only after a successful poll.                                            *)
(***************************************************************************)
EXTENDS Naturals, FiniteSetsExt

CONSTANTS Routers,
          Intervals,   \* the poll intervals in use, in ticks
          PollTime,    \* the time a poll takes to fail
          Settle,      \* OUTAGE_SETTLE_SECONDS
          Threshold    \* NOTIFICATION_FAILURE_THRESHOLD

\* An unreachable router fails a poll after DEFAULT_TIMEOUT, 10 s, or at once; the
\* settle time is 30 s.
TimingAssumptions ==
  /\ IsFiniteSet(Routers) /\ Routers # {}
  /\ Intervals \subseteq Nat \ {0}
  /\ PollTime \in Nat
  /\ Settle \in Nat
  /\ PollTime < Settle
  /\ Threshold \in Nat \ {0}

VARIABLES
  lanUp,      \* external: Home Assistant reaches the routers
  interval,   \* update_interval of each coordinator
  due,        \* ticks until the next poll of each router ends
  failures,   \* _failure_count, up to Threshold
  left,       \* ticks until the timer of the tracker fires
  loaded, outage, error, fleet, timer, issues, lanIssue   \* the tracker

tracker == <<loaded, outage, error, fleet, timer, issues, lanIssue>>
vars == <<lanUp, interval, due, failures, left, tracker>>

Tracker == INSTANCE FleetOutage WITH
  loaded <- loaded, outage <- outage, error <- error, fleet <- fleet, timer <- timer,
  issues <- issues, lanIssue <- lanIssue

InUse == {interval[r] : r \in Routers}

\* The slowest poll interval and the settle time.
Delay == Max(InUse) + Settle

TypeOK ==
  /\ lanUp \in BOOLEAN
  /\ interval \in [Routers -> Intervals]
  /\ due \in [Routers -> Nat]
  /\ \A r \in Routers : due[r] <= interval[r] + PollTime
  /\ failures \in [Routers -> 0..Threshold]
  /\ left \in 0..Delay
  /\ Tracker!TypeOK

\* Every entry is loaded; every phase of the polls is possible.
Init ==
  /\ lanUp = TRUE
  /\ interval \in [Routers -> Intervals]
  /\ due \in {d \in [Routers -> 0..Max(InUse)] :
                \A r \in Routers : d[r] <= interval[r]}
  /\ failures = [r \in Routers |-> 0]
  /\ left = 0
  /\ loaded = Routers
  /\ outage = [r \in Routers |-> "up"]
  /\ error = [r \in Routers |-> "other"]
  /\ fleet = FALSE
  /\ timer = FALSE
  /\ issues = {}
  /\ lanIssue = FALSE

-------------------------------------------------------------------------------
\* Fault: the delay is the settle time alone.
StartTimerWithoutInterval ==
  left' = IF timer' /\ ~timer THEN Settle ELSE IF timer' THEN left ELSE 0

\* _schedule_evaluation leaves a running timer alone.
StartTimer ==
  left' = IF timer' /\ ~timer THEN Delay ELSE IF timer' THEN left ELSE 0

\* The next poll starts an interval after this one ended.
Reschedule(r, duration) == due' = [due EXCEPT ![r] = interval[r] + duration]

PollSucceeds(r) ==
  /\ due[r] = 0
  /\ lanUp
  /\ Reschedule(r, 0)
  /\ failures' = [failures EXCEPT ![r] = 0]
  /\ Tracker!ReportUp(r)
  /\ StartTimer
  /\ UNCHANGED <<lanUp, interval>>

PollFails(r) ==
  LET n == IF failures[r] < Threshold THEN failures[r] + 1 ELSE Threshold IN
  /\ due[r] = 0
  /\ ~lanUp
  /\ Reschedule(r, PollTime)
  /\ failures' = [failures EXCEPT ![r] = n]
  /\ IF n >= Threshold THEN Tracker!ReportDown(r, "other") ELSE UNCHANGED tracker
  /\ StartTimer
  /\ UNCHANGED <<lanUp, interval>>

Classify ==
  /\ timer /\ left = 0
  /\ Tracker!Evaluate
  /\ UNCHANGED <<lanUp, interval, due, failures, left>>

\* The LAN fails when every router has answered since the last outage, and
\* comes back at any time once the outage was classified.
LanFails ==
  /\ lanUp
  /\ \A r \in Routers : failures[r] = 0
  /\ lanUp' = FALSE
  /\ UNCHANGED <<interval, due, failures, left, tracker>>

LanReturns ==
  /\ ~lanUp
  /\ lanIssue
  /\ lanUp' = TRUE
  /\ UNCHANGED <<interval, due, failures, left, tracker>>

Tick ==
  /\ \A r \in Routers : due[r] > 0
  /\ timer => left > 0
  /\ due' = [r \in Routers |-> due[r] - 1]
  /\ left' = IF timer THEN left - 1 ELSE 0
  /\ UNCHANGED <<lanUp, interval, failures, tracker>>

Next ==
  \/ \E r \in Routers : PollSucceeds(r) \/ PollFails(r)
  \/ Classify \/ LanFails \/ LanReturns \/ Tick

Spec == Init /\ [][Next]_vars

-------------------------------------------------------------------------------
(* Properties.                                                              *)

\* A router reports its outage after Threshold of its own intervals, the window
\* is one interval of the slowest: everybody has reported when it ends if the
\* intervals differ by little.
Comparable == (Threshold - 1) * (Max(InUse) - Min(InUse)) < Settle

\* A fault of the LAN raises the fleet issue and never the issue of a single
\* router, whatever the offsets of the polls and also through a staggered
\* recovery (fleet.py: OUTAGE_SETTLE_SECONDS, the fresh window in report_up).
OneCauseOneIssue == Comparable => issues = {}
================================================================================
