--------------------------- MODULE FleetOutage_proofs ---------------------------
(***************************************************************************)
(* Proofs about FleetOutage for any set of routers: the types, that no      *)
(* router that is down is forgotten by the timer, that the timer runs only  *)
(* while a router is down, and that what the tracker takes for raised is in *)
(* the issue registry.                                                      *)
(***************************************************************************)
EXTENDS FleetOutage, TLAPS

TrackerInv ==
  /\ TypeOK
  /\ TimerWhilePending
  /\ TimerOnlyWhileDown
  /\ RaisedIsVisible

LEMMA TrackerInit == Init => TrackerInv
  BY DEF Init, TrackerInv, TypeOK, TimerWhilePending, TimerOnlyWhileDown,
         RaisedIsVisible, ErrorType

\* Who stays down when r leaves _down.
LEMMA WithoutFacts ==
  ASSUME TypeOK, NEW r \in Routers
  PROVE  /\ Without(r) \in [Routers -> {"up", "pending", "reported"}]
         /\ Without(r)[r] = "up"
         /\ \A s \in Routers \ {r} : Without(r)[s] = outage[s]
  BY DEF Without, TypeOK

LEMMA UnregisterKeeps ==
  ASSUME TrackerInv, NEW r \in Routers, Unregister(r) PROVE TrackerInv'
<1> DEFINE ends == fleet /\ ~AllDown(loaded \ {r}, Without(r), error)
<1>0. TypeOK
  BY DEF TrackerInv
<1>1. /\ loaded' = loaded \ {r} /\ outage' = Without(r) /\ error' = error
      /\ issues' = IF outage[r] = "reported" THEN issues \ {r} ELSE issues
      /\ fleet' = (fleet /\ ~ends) /\ lanIssue' = (lanIssue /\ ~ends)
      /\ timer' = (Down(Without(r)) # {} /\ (timer \/ ends))
  BY DEF Unregister, TimerAfter
<1>2. ends \in BOOLEAN /\ (ends => fleet)
  BY <1>0 DEF TypeOK
<1> HIDE DEF ends
<1>3. TypeOK'
  BY <1>0, <1>1, <1>2, WithoutFacts DEF TypeOK
<1>4. TimerWhilePending'
  <2> SUFFICES ASSUME NEW s \in Routers, outage'[s] = "pending", ~fleet' PROVE timer'
    BY DEF TimerWhilePending
  <2>1. s # r /\ outage[s] = "pending" /\ Without(r)[s] = "pending"
    BY <1>0, <1>1, WithoutFacts
  <2>2. Down(Without(r)) # {}
    BY <2>1 DEF Down
  <2>3. timer \/ ends
    BY <2>1, <1>1, <1>2 DEF TrackerInv, TimerWhilePending
  <2> QED
    BY <2>2, <2>3, <1>1
<1>5. TimerOnlyWhileDown'
  BY <1>1 DEF TimerOnlyWhileDown, Down
<1>6. RaisedIsVisible'
  BY <1>0, <1>1, <1>2, WithoutFacts DEF TrackerInv, RaisedIsVisible
<1> QED
  BY <1>3, <1>4, <1>5, <1>6 DEF TrackerInv

LEMMA ReportUpKeeps ==
  ASSUME TrackerInv, NEW r \in Routers, ReportUp(r) PROVE TrackerInv'
<1>0. TypeOK
  BY DEF TrackerInv
<1>1. CASE UNCHANGED vars
  BY <1>1 DEF vars, TrackerInv, TypeOK, TimerWhilePending, TimerOnlyWhileDown,
              RaisedIsVisible
<1>2. ASSUME NEW schedule \in BOOLEAN, fleet => schedule,
             outage' = Without(r), UNCHANGED <<loaded, error>>,
             fleet' = FALSE, lanIssue' = FALSE,
             timer' = TimerAfter(Without(r), schedule),
             issues' \in {issues, issues \ {r}}
      PROVE  TrackerInv'
  <2>1. timer' = (Down(Without(r)) # {} /\ (timer \/ schedule))
    BY <1>2 DEF TimerAfter
  <2>2. TypeOK'
    BY <1>0, <1>2, <2>1, WithoutFacts DEF TypeOK
  <2>3. TimerWhilePending'
    <3> SUFFICES ASSUME NEW s \in Routers, outage'[s] = "pending" PROVE timer'
      BY DEF TimerWhilePending
    <3>1. outage[s] = "pending" /\ Without(r)[s] = "pending"
      BY <1>0, <1>2, WithoutFacts
    <3>2. Down(Without(r)) # {}
      BY <3>1 DEF Down
    <3>3. timer \/ schedule
      BY <3>1, <1>2 DEF TrackerInv, TimerWhilePending
    <3> QED
      BY <3>2, <3>3, <2>1
  <2>4. TimerOnlyWhileDown'
    BY <1>2, <2>1 DEF TimerOnlyWhileDown, Down
  <2>5. RaisedIsVisible'
    BY <1>0, <1>2, WithoutFacts DEF TrackerInv, RaisedIsVisible
  <2> QED
    BY <2>2, <2>3, <2>4, <2>5 DEF TrackerInv
<1>3. CASE outage[r] # "up" /\ fleet
  BY <1>2, <1>3 DEF ReportUp
<1>4. CASE outage[r] # "up" /\ ~fleet
  <2>1. lanIssue' = FALSE /\ fleet' = FALSE
    BY <1>0, <1>4 DEF ReportUp, TrackerInv, RaisedIsVisible, TypeOK
  <2> QED
    BY <2>1, <1>2, <1>4 DEF ReportUp
<1> QED
  BY <1>1, <1>3, <1>4 DEF ReportUp

LEMMA ReportDownKeeps ==
  ASSUME TrackerInv, NEW r \in Routers, NEW e \in ErrorType, ReportDown(r, e)
  PROVE  TrackerInv'
<1>0. TypeOK
  BY DEF TrackerInv
<1>1. CASE UNCHANGED vars
  BY <1>1 DEF vars, TrackerInv, TypeOK, TimerWhilePending, TimerOnlyWhileDown,
              RaisedIsVisible
<1>2. CASE outage[r] = "up" /\ ~UNCHANGED vars
  <2>1. /\ outage' = [outage EXCEPT ![r] = "pending"]
        /\ error' = [error EXCEPT ![r] = e]
        /\ timer' = TRUE
        /\ UNCHANGED <<loaded, fleet, issues, lanIssue>>
    BY <1>2 DEF ReportDown
  <2>2. TypeOK'
    BY <1>0, <2>1 DEF TypeOK
  <2>3. Down(outage') # {}
    BY <1>0, <2>1 DEF Down, TypeOK
  <2> QED
    BY <1>0, <2>1, <2>2, <2>3
    DEF TrackerInv, TypeOK, TimerWhilePending, TimerOnlyWhileDown, Down, RaisedIsVisible
<1>3. CASE outage[r] # "up" /\ ~UNCHANGED vars
  <2>1. /\ error' = [error EXCEPT ![r] = e]
        /\ UNCHANGED <<loaded, outage, fleet, timer, issues, lanIssue>>
    BY <1>3 DEF ReportDown
  <2> QED
    BY <1>0, <2>1
    DEF TrackerInv, TypeOK, TimerWhilePending, TimerOnlyWhileDown, Down, RaisedIsVisible
<1> QED
  BY <1>1, <1>2, <1>3

LEMMA EvaluateKeeps == ASSUME TrackerInv, Evaluate PROVE TrackerInv'
<1>0. TypeOK /\ timer' = FALSE /\ UNCHANGED <<loaded, error>>
  BY DEF TrackerInv, Evaluate
<1>1. CASE AllDown(loaded, outage, error) /\ ~fleet
  <2>1. StartFleetOutage
    BY <1>1 DEF Evaluate
  <2> QED
    BY <1>0, <2>1
    DEF StartFleetOutage, TrackerInv, TypeOK, TimerWhilePending, TimerOnlyWhileDown,
        RaisedIsVisible
<1>2. CASE AllDown(loaded, outage, error) /\ fleet
  BY <1>0, <1>2
  DEF Evaluate, TrackerInv, TypeOK, TimerWhilePending, TimerOnlyWhileDown, RaisedIsVisible
<1>3. CASE ~AllDown(loaded, outage, error)
  <2>1. /\ issues' = issues \cup {r \in Routers : outage[r] = "pending"}
        /\ outage' = [r \in Routers |-> IF outage[r] = "up" THEN "up" ELSE "reported"]
        /\ UNCHANGED <<fleet, lanIssue>>
    BY <1>3 DEF Evaluate
  <2> QED
    BY <1>0, <2>1
    DEF TrackerInv, TypeOK, TimerWhilePending, TimerOnlyWhileDown, RaisedIsVisible
<1> QED
  BY <1>1, <1>2, <1>3

LEMMA TrackerStep == TrackerInv /\ [Next]_vars => TrackerInv'
<1> SUFFICES ASSUME TrackerInv, [Next]_vars PROVE TrackerInv'
  OBVIOUS
<1>1. ASSUME NEW r \in Routers, Register(r) PROVE TrackerInv'
  BY <1>1 DEF Register, TrackerInv, TypeOK, TimerWhilePending, TimerOnlyWhileDown,
              Down, RaisedIsVisible
<1>2. CASE UNCHANGED vars
  BY <1>2 DEF vars, TrackerInv, TypeOK, TimerWhilePending, TimerOnlyWhileDown,
              Down, RaisedIsVisible
<1> QED
  BY <1>1, <1>2, UnregisterKeeps, ReportUpKeeps, ReportDownKeeps, EvaluateKeeps DEF Next

LEMMA TrackerAlways == Spec => []TrackerInv
  BY TrackerInit, TrackerStep, PTL DEF Spec

\* Every reachable state of the tracker is well typed.
THEOREM TypeCorrect == Spec => []TypeOK
<1>1. TrackerInv => TypeOK
  BY DEF TrackerInv
<1> QED
  BY <1>1, TrackerAlways, PTL

\* A router that is down is shown or has a classification ahead of it, through every
\* order of reports, unloads and fleet outages.
THEOREM NobodyForgotten == Spec => []NobodyIsForgotten
<1>1. TrackerInv => NobodyIsForgotten
  BY DEF TrackerInv, NobodyIsForgotten
<1> QED
  BY <1>1, TrackerAlways, PTL

\* The timer runs only while some router is down.
THEOREM TimerIsCancelled == Spec => []TimerOnlyWhileDown
<1>1. TrackerInv => TimerOnlyWhileDown
  BY DEF TrackerInv
<1> QED
  BY <1>1, TrackerAlways, PTL
================================================================================
