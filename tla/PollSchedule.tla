------------------------------ MODULE PollSchedule ------------------------------
(***************************************************************************)
(* The refresh timer of one coordinator with its stagger delay               *)
(* (_handle_refresh_interval), requested refreshes that overlap with it, and  *)
(* the package update check that a button starts                             *)
(* (async_check_package_updates).                                            *)
(***************************************************************************)
EXTENDS Naturals

CONSTANTS Slots,       \* bound: polls at a time, which Home Assistant does not limit
          MaxChecks    \* bound: update checks that end

ASSUME ChecksAssumption == MaxChecks \in Nat

VARIABLES
  handle,     \* _unsub_refresh: "none", "armed", or "fired" for a timer that has fired
  stagger,    \* _stagger_pending
  waiting,    \* the first scheduled poll is in its delay
  poll,       \* the package result each poll carries, or Idle
  packages,   \* _package_updates; 0: None
  data,       \* updates_available of the coordinator's data
  checking    \* _package_check_lock is held

vars == <<handle, stagger, waiting, poll, packages, data, checking>>

Idle == MaxChecks + 1

-------------------------------------------------------------------------------
(* The timer.  DataUpdateCoordinator cancels it when a poll begins and arms it  *)
(* when one ends.                                                           *)

\* Fault: a poll does not take the result of the update check.
BeginsBare(s) == poll[s] = Idle /\ poll' = [poll EXCEPT ![s] = 0] /\ handle' = "none"

\* _async_refresh up to its first await, with the head of _async_poll.
Begins(s) == poll[s] = Idle /\ poll' = [poll EXCEPT ![s] = packages] /\ handle' = "none"

TimerFires(s) ==
  /\ handle = "armed" /\ ~stagger
  /\ Begins(s)
  /\ UNCHANGED <<stagger, waiting, packages, data, checking>>

\* Fault: the handle of the timer that fired is kept.
DelayKeepsHandle ==
  /\ handle = "armed" /\ stagger
  /\ stagger' = FALSE /\ waiting' = TRUE /\ handle' = "fired"
  /\ UNCHANGED <<poll, packages, data, checking>>

Delay ==
  /\ handle = "armed" /\ stagger
  /\ stagger' = FALSE /\ waiting' = TRUE /\ handle' = "none"
  /\ UNCHANGED <<poll, packages, data, checking>>

\* The delay is over: a refresh that ran meanwhile has armed the timer.
DelayEnds(s) ==
  /\ waiting /\ waiting' = FALSE
  /\ IF handle # "none" THEN UNCHANGED <<handle, poll>> ELSE Begins(s)
  /\ UNCHANGED <<stagger, packages, data, checking>>

\* async_request_refresh of a switch or a button.
Request(s) == Begins(s) /\ UNCHANGED <<stagger, waiting, packages, data, checking>>

PollSucceeds(s) ==
  /\ poll[s] # Idle
  /\ data' = poll[s] /\ poll' = [poll EXCEPT ![s] = Idle] /\ handle' = "armed"
  /\ UNCHANGED <<stagger, waiting, packages, checking>>

PollFails(s) ==
  /\ poll[s] # Idle
  /\ poll' = [poll EXCEPT ![s] = Idle] /\ handle' = "armed"
  /\ UNCHANGED <<stagger, waiting, packages, data, checking>>

-------------------------------------------------------------------------------
(* The update check.                                                        *)

\* A press while a check runs is refused.
Press ==
  /\ ~checking /\ checking' = TRUE
  /\ UNCHANGED <<handle, stagger, waiting, poll, packages, data>>

CheckSucceeds ==
  /\ checking /\ packages < MaxChecks
  /\ checking' = FALSE /\ packages' = packages + 1 /\ data' = packages + 1
  /\ UNCHANGED <<handle, stagger, waiting, poll>>

CheckFails ==
  /\ checking /\ checking' = FALSE
  /\ UNCHANGED <<handle, stagger, waiting, poll, packages, data>>

-------------------------------------------------------------------------------
Init ==
  /\ handle = "armed" /\ stagger \in BOOLEAN /\ waiting = FALSE
  /\ poll = [s \in Slots |-> Idle] /\ packages = 0 /\ data = 0 /\ checking = FALSE

Next ==
  \/ \E s \in Slots :
       TimerFires(s) \/ DelayEnds(s) \/ Request(s) \/ PollSucceeds(s) \/ PollFails(s)
  \/ Delay \/ Press \/ CheckSucceeds \/ CheckFails

Spec == Init /\ [][Next]_vars

Ends(s) == PollSucceeds(s) \/ PollFails(s)

\* Timers fire, polls end, and the router answers again and again.
LiveSpec ==
  /\ Spec
  /\ WF_vars(Delay) /\ WF_vars(\E s \in Slots : TimerFires(s) \/ DelayEnds(s))
  /\ \A s \in Slots : WF_vars(Ends(s)) /\ SF_vars(PollSucceeds(s))

-------------------------------------------------------------------------------
(* Properties                                                               *)

TypeOK ==
  /\ handle \in {"none", "armed"}
  /\ stagger \in BOOLEAN /\ waiting \in BOOLEAN /\ checking \in BOOLEAN
  /\ packages \in 0..MaxChecks /\ data \in 0..MaxChecks
  /\ poll \in [Slots -> 0..Idle]

\* Polling never stops: there is a timer, a delayed poll or a poll under way, however
\* requested refreshes meet the stagger delay (_handle_refresh_interval).
PollingGoesOn == handle = "armed" \/ waiting \/ \E s \in Slots : poll[s] # Idle

\* The result of the last update check comes to stay in the data ("every following poll
\* carries it forward", docstring of async_check_package_updates), although a poll
\* that began before the check ended may put the old one back for a while.
ResultStays == <>[](data = packages)
================================================================================
