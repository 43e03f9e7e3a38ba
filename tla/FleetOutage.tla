------------------------------ MODULE FleetOutage ------------------------------
(***************************************************************************)
(* FleetOutageTracker (fleet.py): the state Home Assistant keeps over all   *)
(* config entries about routers that are down.  It turns the reports of the *)
(* coordinators into Repairs issues: one "lan_unreachable" issue when every *)
(* loaded router is down for another reason than its credentials, one       *)
(* "router_unreachable" issue per router otherwise, decided by a timer.     *)
(*                                                                          *)
(* Every method is a callback of the event loop and runs without            *)
(* interruption, so each one is a single action.  Abstracted: titles,       *)
(* times, the outage events, and the delay of the timer (OutageTiming       *)
(* models it).  Error types are "auth" and "other".                         *)
(***************************************************************************)
CONSTANT Routers   \* entry ids

VARIABLES
  loaded,    \* keys of self._routers
  outage,    \* self._down: "up" (no entry), "pending", or "reported"
  error,     \* error_type of the entry in self._down
  fleet,     \* self._fleet_since is not None
  timer,     \* self._cancel_eval is not None
  issues,    \* issue registry: the router_unreachable issues
  lanIssue   \* issue registry: the lan_unreachable issue

vars == <<loaded, outage, error, fleet, timer, issues, lanIssue>>

ErrorType == {"auth", "other"}

TypeOK ==
  /\ loaded \subseteq Routers
  /\ outage \in [Routers -> {"up", "pending", "reported"}]
  /\ error \in [Routers -> ErrorType]
  /\ fleet \in BOOLEAN
  /\ timer \in BOOLEAN
  /\ issues \subseteq Routers
  /\ lanIssue \in BOOLEAN

Init ==
  /\ loaded = {}
  /\ outage = [r \in Routers |-> "up"]
  /\ error = [r \in Routers |-> "other"]
  /\ fleet = FALSE
  /\ timer = FALSE
  /\ issues = {}
  /\ lanIssue = FALSE

-------------------------------------------------------------------------------
Down(out) == {r \in Routers : out[r] # "up"}

\* Fault: the inclusion is tested the wrong way round.
SomeDown(ls, out, err) ==
  /\ \E r, s \in ls : r # s
  /\ Down(out) \subseteq ls
  /\ \A r \in Down(out) : err[r] # "auth"

\* _all_down for the given contents of _routers and _down.
AllDown(ls, out, err) ==
  /\ \E r, s \in ls : r # s
  /\ ls \subseteq Down(out)
  /\ \A r \in Down(out) : err[r] # "auth"

\* self._down.pop(r)
Without(r) == [outage EXCEPT ![r] = "up"]

\* _schedule_evaluation keeps a running timer; _cancel_pending follows when
\* nobody is down any more.
TimerAfter(out, schedule) == Down(out) # {} /\ (timer \/ schedule)

Register(r) ==
  /\ loaded' = loaded \cup {r}
  /\ UNCHANGED <<outage, error, fleet, timer, issues, lanIssue>>

\* Fault: the routers still down get no new settle window when the unload of a
\* router ends the fleet outage.
UnregisterWithoutTimer(r) ==
  LET ends == fleet /\ ~AllDown(loaded \ {r}, Without(r), error) IN
  /\ loaded' = loaded \ {r}
  /\ outage' = Without(r)
  /\ issues' = IF outage[r] = "reported" THEN issues \ {r} ELSE issues
  /\ fleet' = (fleet /\ ~ends)
  /\ lanIssue' = (lanIssue /\ ~ends)
  /\ timer' = TimerAfter(Without(r), FALSE)
  /\ UNCHANGED error

\* The entry is unloaded: its issue goes silently, and the fleet outage ends
\* unless every remaining router is still down.
Unregister(r) ==
  LET ends == fleet /\ ~AllDown(loaded \ {r}, Without(r), error) IN
  /\ loaded' = loaded \ {r}
  /\ outage' = Without(r)
  /\ issues' = IF outage[r] = "reported" THEN issues \ {r} ELSE issues
  /\ fleet' = (fleet /\ ~ends)
  /\ lanIssue' = (lanIssue /\ ~ends)
  /\ timer' = TimerAfter(Without(r), ends)
  /\ UNCHANGED error

\* Called on every failed poll past the threshold: the first one opens the
\* outage and starts the timer, the next ones only update the error type.
ReportDown(r, e) ==
  \/ /\ r \in loaded
     /\ outage[r] = "up"
     /\ outage' = [outage EXCEPT ![r] = "pending"]
     /\ error' = [error EXCEPT ![r] = e]
     /\ timer' = TRUE
     /\ UNCHANGED <<loaded, fleet, issues, lanIssue>>
  \/ /\ r \in loaded
     /\ outage[r] # "up"
     /\ error' = [error EXCEPT ![r] = e]
     /\ UNCHANGED <<loaded, outage, fleet, timer, issues, lanIssue>>
  \/ r \notin loaded /\ UNCHANGED vars

\* Called on every successful poll.  The first answer ends a fleet outage, and
\* the routers still down get a fresh settle window; otherwise the issue of
\* this router, if it was raised, is cleared.
ReportUp(r) ==
  \/ outage[r] = "up" /\ UNCHANGED vars
  \/ /\ outage[r] # "up"
     /\ fleet
     /\ outage' = Without(r)
     /\ fleet' = FALSE
     /\ lanIssue' = FALSE
     /\ timer' = TimerAfter(Without(r), TRUE)
     /\ UNCHANGED <<loaded, error, issues>>
  \/ /\ outage[r] # "up"
     /\ ~fleet
     /\ outage' = Without(r)
     /\ issues' = IF outage[r] = "reported" THEN issues \ {r} ELSE issues
     /\ timer' = TimerAfter(Without(r), FALSE)
     /\ UNCHANGED <<loaded, error, fleet, lanIssue>>

\* _start_fleet_outage: issues already raised are folded into the fleet issue.
StartFleetOutage ==
  /\ fleet' = TRUE
  /\ lanIssue' = TRUE
  /\ issues' = issues \ {r \in Routers : outage[r] = "reported"}
  /\ outage' = [r \in Routers |-> IF outage[r] = "up" THEN "up" ELSE "pending"]

\* The settle window is over: classify.
Evaluate ==
  /\ timer
  /\ timer' = FALSE
  /\ UNCHANGED <<loaded, error>>
  /\ \/ /\ AllDown(loaded, outage, error)
        /\ ~fleet
        /\ StartFleetOutage
     \/ /\ AllDown(loaded, outage, error)
        /\ fleet
        /\ UNCHANGED <<outage, fleet, issues, lanIssue>>
     \/ /\ ~AllDown(loaded, outage, error)
        /\ issues' = issues \cup {r \in Routers : outage[r] = "pending"}
        /\ outage' = [r \in Routers |-> IF outage[r] = "up" THEN "up" ELSE "reported"]
        /\ UNCHANGED <<fleet, lanIssue>>

Next ==
  \/ \E r \in Routers : \/ Register(r)
                        \/ r \in loaded /\ Unregister(r)
                        \/ r \in loaded /\ ReportUp(r)
                        \/ r \in loaded /\ \E e \in ErrorType : ReportDown(r, e)
  \/ Evaluate

Spec == Init /\ [][Next]_vars

-------------------------------------------------------------------------------
(* Properties.                                                              *)

\* While a router is down and shown neither alone nor within the fleet issue, the timer
\* that will classify it is running (fleet.py: report_down, the end of a fleet outage in
\* report_up and unregister).
TimerWhilePending ==
  (\E r \in Routers : outage[r] = "pending") /\ ~fleet => timer

\* The timer never fires for an empty fleet: whatever removes the last router
\* that is down cancels it (_cancel_pending).
TimerOnlyWhileDown == timer => Down(outage) # {}

\* What the tracker believes to have raised is in the issue registry.
RaisedIsVisible ==
  /\ lanIssue = fleet
  /\ \A r \in Routers : outage[r] = "reported" => r \in issues

\* No router is forgotten: one that is down is shown, alone or within the fleet issue,
\* or its classification is ahead, through every order of reports and unloads.
NobodyIsForgotten == TimerWhilePending /\ RaisedIsVisible

\* "This message disappears automatically as soon as the router answers again"
\* (strings.json, router_unreachable): an issue stands for a router that is down.
IssueIsCurrent == \A r \in issues : outage[r] # "up"
================================================================================
