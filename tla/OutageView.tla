------------------------------- MODULE OutageView -------------------------------
(***************************************************************************)
(* What a user is told about outages, without the means (fleet.py, module   *)
(* docstring): no list of outages, no timer, no types of errors.  A router  *)
(* is down when its own coordinator has counted enough failed polls.        *)
(*                                                                          *)
(* The issue of a router may outlive its outage (FleetOutage_stale), so it  *)
(* is promised when an issue appears and not when it goes.                  *)
(***************************************************************************)
CONSTANT Routers

VARIABLES
  loaded,    \* routers whose entry is set up
  down,      \* those past the threshold
  issues,    \* routers with an issue of their own
  lanIssue   \* the issue of the fleet

vars == <<loaded, down, issues, lanIssue>>

AllDown(rs, ds) == (\E r, s \in rs : r # s) /\ rs \subseteq ds

Init == loaded = {} /\ down = {} /\ issues = {} /\ lanIssue = FALSE

Join(r) == r \notin loaded /\ loaded' = loaded \cup {r} /\ UNCHANGED <<down, issues, lanIssue>>

\* Nothing is shown at once.
Fails(r) ==
  /\ r \in loaded \ down
  /\ down' = down \cup {r}
  /\ UNCHANGED <<loaded, issues, lanIssue>>

\* The first answer of any router ends the fleet issue.
Answers(r) ==
  /\ r \in down
  /\ down' = down \ {r}
  /\ issues' \in {issues, issues \ {r}}
  /\ lanIssue' = FALSE
  /\ UNCHANGED loaded

\* The fleet issue stays only if it stands for all that remain.
Leaves(r) ==
  /\ r \in loaded
  /\ loaded' = loaded \ {r}
  /\ down' = down \ {r}
  /\ issues' \in {issues, issues \ {r}}
  /\ lanIssue' => lanIssue /\ AllDown(loaded', down')

\* One issue for all, in the place of their own ones.
ShowFleet ==
  /\ AllDown(loaded, down)
  /\ lanIssue' = TRUE
  /\ issues' \subseteq issues /\ issues \ issues' \subseteq down
  /\ UNCHANGED <<loaded, down>>

\* An issue of its own for every router that is down.
ShowEach ==
  /\ issues' = issues \cup down
  /\ UNCHANGED <<loaded, down, lanIssue>>

Next ==
  \/ \E r \in Routers : Join(r) \/ Fails(r) \/ Answers(r) \/ Leaves(r)
  \/ ShowFleet \/ ShowEach

Spec == Init /\ [][Next]_vars
================================================================================
