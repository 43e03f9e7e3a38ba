----------------------------- MODULE Outages_proofs -----------------------------
(***************************************************************************)
(* Proofs about the coordinators that call the outage tracker, for any      *)
(* routers and thresholds, and about the tracker in time, for any intervals *)
(* of the polls.  What holds of the tracker with any calls is proved in     *)
(* FleetOutage_proofs.                                                      *)
(***************************************************************************)
EXTENDS MCOutages, FleetOutage_proofs, FiniteSetTheorems

(***************************************************************************)
(* The coordinators.  With the types, who is down and what the tracker      *)
(* believes to have raised are inductive on their own.                      *)
(***************************************************************************)
ReportingInv == /\ Reporting!TypeOK
                /\ Reporting!DownIffFailing
                /\ Reporting!Tracker!RaisedIsVisible

LEMMA ReportingFacts == Threshold \in Nat \ {0} /\ AuthLimit \in Nat \ {0}
  BY OutageAssumptions DEF Reporting!ReportingAssumptions

\* What the calls of the tracker do to the routers that are down and to the issues.
LEMMA OwnRegister ==
  ASSUME Reporting!Tracker!TypeOK, NEW r \in Routers, Reporting!Tracker!Register(r)
  PROVE  /\ Reporting!Tracker!TypeOK'
         /\ ownLoaded' = ownLoaded \cup {r}
         /\ UNCHANGED <<ownOutage, ownFleet, ownIssues, ownLanIssue>>
BY DEF Reporting!Tracker!TypeOK, Reporting!Tracker!Register

LEMMA OwnUnregister ==
  ASSUME Reporting!Tracker!TypeOK, Reporting!Tracker!RaisedIsVisible, NEW r \in Routers,
         Reporting!Tracker!Unregister(r)
  PROVE  /\ Reporting!Tracker!TypeOK' /\ Reporting!Tracker!RaisedIsVisible'
         /\ ownLoaded' = ownLoaded \ {r}
         /\ ownOutage'[r] = "up" /\ \A s \in Routers \ {r} : ownOutage'[s] = ownOutage[s]
         /\ ownIssues' \in {ownIssues, ownIssues \ {r}}
         /\ ownLanIssue' => /\ ownLanIssue
                            /\ Reporting!Tracker!AllDown(ownLoaded', ownOutage', ownError)
<1> DEFINE ends == ownFleet /\ ~Reporting!Tracker!AllDown(ownLoaded \ {r},
                                   Reporting!Tracker!Without(r), ownError)
<1>1. /\ ownLoaded' = ownLoaded \ {r} /\ ownError' = ownError
      /\ ownOutage' = Reporting!Tracker!Without(r)
      /\ ownOutage' = [ownOutage EXCEPT ![r] = "up"]
      /\ ownIssues' = IF ownOutage[r] = "reported" THEN ownIssues \ {r} ELSE ownIssues
      /\ ownFleet' = (ownFleet /\ ~ends) /\ ownLanIssue' = (ownLanIssue /\ ~ends)
      /\ ownTimer' \in BOOLEAN
  BY DEF Reporting!Tracker!Unregister, Reporting!Tracker!Without,
     Reporting!Tracker!TimerAfter
<1>2. ownLanIssue' => /\ ownLanIssue
                      /\ Reporting!Tracker!AllDown(ownLoaded', ownOutage', ownError)
  BY <1>1 DEF Reporting!Tracker!RaisedIsVisible
<1> HIDE DEF ends
<1>3. /\ Reporting!Tracker!TypeOK'
      /\ ownOutage'[r] = "up" /\ \A s \in Routers \ {r} : ownOutage'[s] = ownOutage[s]
  BY <1>1 DEF Reporting!Tracker!TypeOK
<1>4. Reporting!Tracker!RaisedIsVisible'
  BY <1>1, <1>3 DEF Reporting!Tracker!RaisedIsVisible
<1> QED
  BY <1>1, <1>2, <1>3, <1>4

LEMMA OwnReportUp ==
  ASSUME Reporting!Tracker!TypeOK, Reporting!Tracker!RaisedIsVisible, NEW r \in Routers,
         Reporting!Tracker!ReportUp(r)
  PROVE  /\ Reporting!Tracker!TypeOK' /\ Reporting!Tracker!RaisedIsVisible'
         /\ ownLoaded' = ownLoaded
         /\ ownOutage'[r] = "up" /\ \A s \in Routers \ {r} : ownOutage'[s] = ownOutage[s]
         /\ ownOutage[r] = "up" => UNCHANGED <<ownIssues, ownLanIssue>>
         /\ ownOutage[r] # "up" => /\ ownIssues' \in {ownIssues, ownIssues \ {r}}
                                   /\ ownLanIssue' = FALSE
<1>1. CASE ownOutage[r] = "up"
  BY <1>1
  DEF Reporting!Tracker!ReportUp, Reporting!Tracker!vars, Reporting!Tracker!TypeOK,
      Reporting!Tracker!RaisedIsVisible
<1>2. CASE ownOutage[r] # "up"
  <2>1. /\ ownOutage' = [ownOutage EXCEPT ![r] = "up"]
        /\ UNCHANGED <<ownLoaded, ownError>>
        /\ ownIssues' \in {ownIssues, ownIssues \ {r}}
        /\ ownFleet' = FALSE /\ ownLanIssue' = FALSE
        /\ ownTimer' \in BOOLEAN
    BY <1>2
    DEF Reporting!Tracker!ReportUp, Reporting!Tracker!Without, Reporting!Tracker!TimerAfter,
        Reporting!Tracker!TypeOK, Reporting!Tracker!RaisedIsVisible
  <2> QED
    BY <2>1, <1>2 DEF Reporting!Tracker!TypeOK, Reporting!Tracker!RaisedIsVisible
<1> QED
  BY <1>1, <1>2

LEMMA OwnReportDown ==
  ASSUME Reporting!Tracker!TypeOK, Reporting!Tracker!RaisedIsVisible,
         NEW r \in ownLoaded, NEW e \in {"auth", "other"},
         Reporting!Tracker!ReportDown(r, e)
  PROVE  /\ Reporting!Tracker!TypeOK' /\ Reporting!Tracker!RaisedIsVisible'
         /\ ownOutage'[r] # "up" /\ \A s \in Routers \ {r} : ownOutage'[s] = ownOutage[s]
         /\ UNCHANGED <<ownLoaded, ownIssues, ownLanIssue>>
BY DEF Reporting!Tracker!TypeOK, Reporting!Tracker!ErrorType, Reporting!Tracker!ReportDown,
   Reporting!Tracker!RaisedIsVisible

\* The window of the tracker is over: one issue for all, or one for each that is down.
FleetShown == /\ Reporting!Tracker!AllDown(ownLoaded, ownOutage, ownError)
              /\ ownLanIssue' = TRUE
              /\ ownIssues' = ownIssues \ {r \in Routers : ownOutage[r] = "reported"}

EachShown == /\ ownLanIssue' = ownLanIssue
             /\ ownIssues' = ownIssues \cup {r \in Routers : ownOutage[r] # "up"}

LEMMA OwnEvaluate ==
  ASSUME Reporting!Tracker!TypeOK, Reporting!Tracker!RaisedIsVisible,
         Reporting!Tracker!Evaluate
  PROVE  /\ Reporting!Tracker!TypeOK' /\ Reporting!Tracker!RaisedIsVisible'
         /\ ownLoaded' = ownLoaded
         /\ \A r \in Routers : ownOutage'[r] = "up" <=> ownOutage[r] = "up"
         /\ FleetShown \/ EachShown \/ UNCHANGED <<ownIssues, ownLanIssue>>
<1>1. CASE Reporting!Tracker!AllDown(ownLoaded, ownOutage, ownError) /\ ~ownFleet
  BY <1>1 DEF Reporting!Tracker!Evaluate, Reporting!Tracker!StartFleetOutage,
     Reporting!Tracker!TypeOK, Reporting!Tracker!RaisedIsVisible, FleetShown
<1>2. CASE Reporting!Tracker!AllDown(ownLoaded, ownOutage, ownError) /\ ownFleet
  BY <1>2 DEF Reporting!Tracker!Evaluate, Reporting!Tracker!TypeOK,
     Reporting!Tracker!RaisedIsVisible
<1>3. CASE ~Reporting!Tracker!AllDown(ownLoaded, ownOutage, ownError)
  <2>1. /\ UNCHANGED <<ownLoaded, ownError, ownFleet, ownLanIssue>> /\ ownTimer' = FALSE
        /\ ownIssues' = ownIssues \cup {r \in Routers : ownOutage[r] = "pending"}
        /\ ownOutage' = [r \in Routers |-> IF ownOutage[r] = "up" THEN "up" ELSE "reported"]
    BY <1>3 DEF Reporting!Tracker!Evaluate
  <2>2. Reporting!Tracker!TypeOK' /\ Reporting!Tracker!RaisedIsVisible'
    BY <2>1 DEF Reporting!Tracker!TypeOK, Reporting!Tracker!RaisedIsVisible
  <2>3. EachShown
    BY <2>1 DEF EachShown, Reporting!Tracker!TypeOK, Reporting!Tracker!RaisedIsVisible
  <2> QED
    BY <2>1, <2>2, <2>3
<1> QED
  BY <1>1, <1>2, <1>3

\* Who is down, and a step of what the user is told.
Lost == {r \in ownLoaded : failures[r] = Threshold}

ViewMoves == [Reporting!View!Next]_(Reporting!View!vars)

Kept == ReportingInv' /\ ViewMoves

LEMMA LostIsDown ==
  ASSUME ReportingInv
  PROVE  Lost \subseteq Routers /\ \A r \in Routers : r \in Lost <=> ownOutage[r] # "up"
BY DEF ReportingInv, Reporting!DownIffFailing, Reporting!TypeOK, Reporting!Tracker!TypeOK, Lost

\* A failed poll: the tracker hears of it from the threshold on, the user not yet.
LEMMA FailureRecorded ==
  ASSUME ReportingInv, NEW r \in ownLoaded, NEW e \in {"auth", "other"},
         Reporting!RecordFailure(r, e),
         authFailures' \in [Routers -> 0..(AuthLimit - 1)],
         polling' \in [Routers -> BOOLEAN]
  PROVE  Kept
<1> USE DEF ReportingInv
<1> DEFINE n == IF failures[r] < Threshold THEN failures[r] + 1 ELSE Threshold
<1>1. /\ failures' = [failures EXCEPT ![r] = n]
      /\ IF n >= Threshold THEN Reporting!Tracker!ReportDown(r, e)
                           ELSE UNCHANGED Reporting!tracker
  BY DEF Reporting!RecordFailure
<1>2. r \in Routers /\ failures[r] \in 0..Threshold
  BY DEF Reporting!TypeOK, Reporting!Tracker!TypeOK
<1>3. n \in 1..Threshold /\ (n = Threshold <=> n >= Threshold)
  BY <1>2, ReportingFacts
<1>4. n < Threshold => failures[r] # Threshold
  BY <1>2, ReportingFacts
<1> HIDE DEF n
<1>5. /\ failures' \in [Routers -> 0..Threshold]
      /\ failures'[r] = n /\ \A s \in Routers \ {r} : failures'[s] = failures[s]
  BY <1>1, <1>2, <1>3 DEF Reporting!TypeOK
<1>6. CASE n = Threshold
  <2>1. /\ Reporting!Tracker!TypeOK' /\ Reporting!Tracker!RaisedIsVisible'
        /\ ownOutage'[r] # "up" /\ \A s \in Routers \ {r} : ownOutage'[s] = ownOutage[s]
        /\ UNCHANGED <<ownLoaded, ownIssues, ownLanIssue>>
    BY <1>1, <1>2, <1>3, <1>6, OwnReportDown DEF Reporting!TypeOK
  <2>2. Reporting!TypeOK'
    BY <2>1, <1>5 DEF Reporting!TypeOK
  <2>3. Reporting!DownIffFailing'
    BY <2>1, <1>5, <1>6 DEF Reporting!DownIffFailing
  <2>4. Lost' = Lost \cup {r}
    BY <2>1, <1>2, <1>5, <1>6 DEF Lost, Reporting!TypeOK, Reporting!Tracker!TypeOK
  <2>5. ViewMoves
    BY <2>1, <2>4, <1>2
    DEF ViewMoves, Reporting!View!Next, Reporting!View!Fails, Reporting!View!vars, Lost
  <2> QED
    BY <2>1, <2>2, <2>3, <2>5 DEF Kept
<1>7. CASE n # Threshold
  <2>1. UNCHANGED Reporting!tracker /\ n < Threshold
    BY <1>1, <1>3, <1>7, ReportingFacts
  <2>2. Reporting!TypeOK'
    BY <2>1, <1>5
    DEF Reporting!TypeOK, Reporting!tracker, Reporting!Tracker!TypeOK
  <2>3. Reporting!DownIffFailing' /\ Reporting!Tracker!RaisedIsVisible'
    BY <2>1, <1>2, <1>4, <1>5, <1>7
    DEF Reporting!DownIffFailing, Reporting!Tracker!RaisedIsVisible, Reporting!tracker
  <2>4. Lost' = Lost
    BY <2>1, <1>2, <1>4, <1>5, <1>7
    DEF Lost, Reporting!tracker, Reporting!TypeOK, Reporting!Tracker!TypeOK
  <2> QED
    BY <2>1, <2>2, <2>3, <2>4 DEF Kept, ViewMoves, Reporting!View!vars, Reporting!tracker, Lost
<1> QED
  BY <1>6, <1>7

LEMMA SetupKeeps ==
  ASSUME ReportingInv, NEW r \in Routers, Reporting!Setup(r) PROVE Kept
<1> USE DEF ReportingInv
<1>1. /\ Reporting!Tracker!TypeOK'
      /\ ownLoaded' = ownLoaded \cup {r}
      /\ UNCHANGED <<ownOutage, ownFleet, ownIssues, ownLanIssue>>
  BY OwnRegister DEF Reporting!Setup, Reporting!TypeOK
<1>2. /\ failures' = [failures EXCEPT ![r] = 0]
      /\ authFailures' = [authFailures EXCEPT ![r] = 0]
      /\ polling' = [polling EXCEPT ![r] = TRUE]
      /\ r \notin ownLoaded
  BY DEF Reporting!Setup
<1>3. Reporting!TypeOK'
  BY <1>1, <1>2, ReportingFacts DEF Reporting!TypeOK
<1>4. Reporting!DownIffFailing' /\ Reporting!Tracker!RaisedIsVisible'
  BY <1>1, <1>2, ReportingFacts
  DEF Reporting!DownIffFailing, Reporting!TypeOK, Reporting!Tracker!RaisedIsVisible
<1>5. Lost' = Lost
  BY <1>1, <1>2, ReportingFacts DEF Lost, Reporting!TypeOK, Reporting!Tracker!TypeOK
<1>6. ViewMoves
  BY <1>1, <1>2, <1>5 DEF ViewMoves, Reporting!View!Next, Reporting!View!Join, Lost
<1> QED
  BY <1>3, <1>4, <1>6 DEF Kept

LEMMA UnloadKeeps ==
  ASSUME ReportingInv, NEW r \in Routers, Reporting!Unload(r) PROVE Kept
<1> USE DEF ReportingInv
<1>1. /\ Reporting!Tracker!TypeOK' /\ Reporting!Tracker!RaisedIsVisible'
      /\ ownLoaded' = ownLoaded \ {r}
      /\ ownOutage'[r] = "up" /\ \A s \in Routers \ {r} : ownOutage'[s] = ownOutage[s]
      /\ ownIssues' \in {ownIssues, ownIssues \ {r}}
      /\ ownLanIssue' => /\ ownLanIssue
                         /\ Reporting!Tracker!AllDown(ownLoaded', ownOutage', ownError)
  BY OwnUnregister DEF Reporting!Unload, Reporting!TypeOK
<1>2. /\ failures' = [failures EXCEPT ![r] = 0]
      /\ authFailures' = [authFailures EXCEPT ![r] = 0]
      /\ polling' = [polling EXCEPT ![r] = FALSE]
      /\ r \in ownLoaded
  BY DEF Reporting!Unload
<1>3. Reporting!TypeOK'
  BY <1>1, <1>2, ReportingFacts DEF Reporting!TypeOK
<1>4. Reporting!DownIffFailing'
  BY <1>1, <1>2, ReportingFacts DEF Reporting!DownIffFailing, Reporting!TypeOK
<1>5. Lost' = Lost \ {r}
  BY <1>1, <1>2, ReportingFacts DEF Lost, Reporting!TypeOK, Reporting!Tracker!TypeOK
<1>6. ASSUME ownLanIssue' PROVE ownLanIssue /\ Reporting!View!AllDown(ownLoaded', Lost')
  BY <1>1, <1>3, <1>4, <1>6
  DEF Reporting!Tracker!AllDown, Reporting!Tracker!Down, Reporting!View!AllDown, Lost,
      Reporting!DownIffFailing, Reporting!TypeOK, Reporting!Tracker!TypeOK
<1>7. ViewMoves
  BY <1>1, <1>2, <1>5, <1>6 DEF ViewMoves, Reporting!View!Next, Reporting!View!Leaves, Lost
<1> QED
  BY <1>1, <1>3, <1>4, <1>7 DEF Kept

LEMMA PollSucceedsKeeps ==
  ASSUME ReportingInv, NEW r \in Routers, Reporting!PollSucceeds(r) PROVE Kept
<1> USE DEF ReportingInv
<1>1. /\ Reporting!Tracker!TypeOK' /\ Reporting!Tracker!RaisedIsVisible'
      /\ ownLoaded' = ownLoaded
      /\ ownOutage'[r] = "up" /\ \A s \in Routers \ {r} : ownOutage'[s] = ownOutage[s]
      /\ ownOutage[r] = "up" => UNCHANGED <<ownIssues, ownLanIssue>>
      /\ ownOutage[r] # "up" => /\ ownIssues' \in {ownIssues, ownIssues \ {r}}
                                /\ ownLanIssue' = FALSE
  BY OwnReportUp DEF Reporting!PollSucceeds, Reporting!TypeOK
<1>2. /\ failures' = [failures EXCEPT ![r] = 0]
      /\ authFailures' = [authFailures EXCEPT ![r] = 0]
      /\ polling' = [polling EXCEPT ![r] = TRUE]
      /\ r \in ownLoaded
  BY DEF Reporting!PollSucceeds
<1>3. Reporting!TypeOK'
  BY <1>1, <1>2, ReportingFacts DEF Reporting!TypeOK
<1>4. Reporting!DownIffFailing'
  BY <1>1, <1>2, ReportingFacts DEF Reporting!DownIffFailing, Reporting!TypeOK
<1>5. Lost' = Lost \ {r} /\ (r \in Lost <=> ownOutage[r] # "up")
  BY <1>1, <1>2, LostIsDown, ReportingFacts
  DEF Lost, Reporting!TypeOK, Reporting!Tracker!TypeOK
<1>6. CASE r \in Lost
  <2>1. Reporting!View!Answers(r)
    BY <1>1, <1>5, <1>6 DEF Reporting!View!Answers, Lost
  <2> QED
    BY <2>1, <1>1, <1>3, <1>4 DEF Kept, ViewMoves, Reporting!View!Next
<1>7. CASE r \notin Lost
  <2>1. UNCHANGED <<ownLoaded, Lost, ownIssues, ownLanIssue>>
    BY <1>1, <1>5, <1>7
  <2> QED
    BY <2>1, <1>1, <1>3, <1>4 DEF Kept, ViewMoves, Reporting!View!vars, Lost
<1> QED
  BY <1>6, <1>7

\* A poll that fails is recorded.
LEMMA PollFailsKeeps ==
  ASSUME ReportingInv, NEW r \in Routers,
         \/ Reporting!PollFails(r) \/ Reporting!PollCrashes(r) \/ Reporting!PollBackedOff(r)
         \/ Reporting!PollDenied(r)
  PROVE  Kept
<1> USE DEF ReportingInv
<1>1. /\ r \in ownLoaded
      /\ polling' \in [Routers -> BOOLEAN]
      /\ \E e \in {"auth", "other"} : Reporting!RecordFailure(r, e)
  BY DEF Reporting!PollFails, Reporting!PollCrashes, Reporting!PollBackedOff,
     Reporting!PollDenied, Reporting!TypeOK
<1>2. authFailures' \in [Routers -> 0..(AuthLimit - 1)]
  BY ReportingFacts DEF Reporting!PollFails, Reporting!PollCrashes, Reporting!PollBackedOff,
     Reporting!PollDenied, Reporting!TypeOK
<1> QED
  BY <1>1, <1>2, FailureRecorded

LEMMA ClassifyKeeps == ASSUME ReportingInv, Reporting!Classify PROVE Kept
<1> USE DEF ReportingInv
<1>1. /\ Reporting!Tracker!TypeOK' /\ Reporting!Tracker!RaisedIsVisible'
      /\ ownLoaded' = ownLoaded
      /\ \A r \in Routers : ownOutage'[r] = "up" <=> ownOutage[r] = "up"
      /\ FleetShown \/ EachShown \/ UNCHANGED <<ownIssues, ownLanIssue>>
  BY OwnEvaluate DEF Reporting!Classify, Reporting!TypeOK
<1>2. UNCHANGED <<failures, authFailures, polling>>
  BY DEF Reporting!Classify, Reporting!counters
<1>3. Reporting!TypeOK' /\ Reporting!DownIffFailing'
  BY <1>1, <1>2 DEF Reporting!TypeOK, Reporting!DownIffFailing
<1>4. Lost' = Lost
  BY <1>1, <1>2 DEF Lost
<1>5. ASSUME FleetShown PROVE Reporting!View!ShowFleet
  <2>1. Reporting!View!AllDown(ownLoaded, Lost)
    BY <1>5, LostIsDown
    DEF FleetShown, Reporting!Tracker!AllDown, Reporting!Tracker!Down,
        Reporting!View!AllDown
  <2>2. ownIssues' \subseteq ownIssues /\ ownIssues \ ownIssues' \subseteq Lost
    BY <1>5, LostIsDown DEF FleetShown
  <2> QED
    BY <2>1, <2>2, <1>1, <1>4, <1>5 DEF Reporting!View!ShowFleet, FleetShown, Lost
<1>6. ASSUME EachShown PROVE Reporting!View!ShowEach
  <2>1. ownIssues' = ownIssues \cup Lost /\ ownLanIssue' = ownLanIssue
    BY <1>6, LostIsDown DEF EachShown
  <2> QED
    BY <2>1, <1>1, <1>4 DEF Reporting!View!ShowEach, Lost
<1>7. ASSUME UNCHANGED <<ownIssues, ownLanIssue>> PROVE UNCHANGED Reporting!View!vars
  BY <1>1, <1>4, <1>7 DEF Reporting!View!vars, Lost
<1>8. ViewMoves
  BY <1>1, <1>5, <1>6, <1>7 DEF ViewMoves, Reporting!View!Next
<1> QED
  BY <1>1, <1>3, <1>8 DEF Kept

LEMMA ReportingStep == ReportingInv /\ [Reporting!Next]_(Reporting!vars) => Kept
<1> SUFFICES ASSUME ReportingInv, [Reporting!Next]_(Reporting!vars) PROVE Kept
  OBVIOUS
<1> USE DEF ReportingInv
<1>1. ASSUME UNCHANGED <<failures, Reporting!tracker>>,
             authFailures' \in [Routers -> 0..(AuthLimit - 1)],
             polling' \in [Routers -> BOOLEAN]
      PROVE  Kept
  <2>1. /\ Reporting!TypeOK' /\ Reporting!DownIffFailing'
        /\ Reporting!Tracker!RaisedIsVisible'
    BY <1>1 DEF Reporting!TypeOK, Reporting!DownIffFailing, Reporting!tracker,
       Reporting!Tracker!TypeOK, Reporting!Tracker!RaisedIsVisible
  <2> QED
    BY <2>1, <1>1 DEF Kept, ViewMoves, Reporting!View!vars, Reporting!tracker
<1>2. ASSUME NEW r \in Routers, Reporting!PollAsksForReauth(r) PROVE Kept
  <2>1. authFailures' \in [Routers -> 0..(AuthLimit - 1)] /\ polling' \in [Routers -> BOOLEAN]
    BY <1>2, ReportingFacts DEF Reporting!PollAsksForReauth, Reporting!TypeOK
  <2> QED
    BY <1>1, <1>2, <2>1 DEF Reporting!PollAsksForReauth
<1>3. CASE UNCHANGED Reporting!vars
  BY <1>1, <1>3 DEF Reporting!vars, Reporting!counters, Reporting!TypeOK
<1> QED
  BY <1>2, <1>3, SetupKeeps, UnloadKeeps, PollSucceedsKeeps, PollFailsKeeps, ClassifyKeeps
  DEF Reporting!Next, Reporting!Poll

LEMMA ReportingInit == Reporting!Init => ReportingInv /\ Reporting!View!Init
<1> SUFFICES ASSUME Reporting!Init PROVE ReportingInv /\ Reporting!View!Init
  OBVIOUS
<1>1. Reporting!Tracker!Init
  BY DEF Reporting!Init
<1>2. Reporting!Tracker!TypeOK /\ Reporting!Tracker!RaisedIsVisible
  BY <1>1 DEF Reporting!Tracker!Init, Reporting!Tracker!TypeOK, Reporting!Tracker!ErrorType,
     Reporting!Tracker!RaisedIsVisible
<1>3. Reporting!TypeOK
  BY <1>2, ReportingFacts DEF Reporting!Init, Reporting!TypeOK
<1>4. Reporting!DownIffFailing /\ Reporting!View!Init
  BY <1>1 DEF Reporting!Tracker!Init, Reporting!DownIffFailing, Reporting!View!Init
<1> QED
  BY <1>2, <1>3, <1>4 DEF ReportingInv

\* Polls, setups, unloads and the timer change what the user is told only as OutageView
\* promises, where a router is down by the count of its own coordinator: an issue appears
\* for those who are down at that time, the fleet issue if all are, and the latter ends
\* with the first answer and with an unload after which it would not stand for all.
THEOREM CoordinatorsImplementView == Reporting!Spec => ToldAsPromised
<1>1. Kept => ReportingInv' /\ [Reporting!View!Next]_(Reporting!View!vars)
  BY DEF Kept, ViewMoves
<1> QED
  BY <1>1, ReportingInit, ReportingStep, PTL
  DEF Reporting!Spec, ToldAsPromised, Reporting!ToldAsPromised, Reporting!View!Spec

\* The fleet issue is raised only while two routers at least are loaded and all of them
\* are past their threshold, and ends with the first poll that one of them answers: both
\* can be read off what the user is told.
THEOREM LanIssueStandsForAll == Reporting!Spec => LanIssueIsRight
<1>1. ASSUME Kept, ReportingInv, ~ownLanIssue, ownLanIssue'
      PROVE  /\ \E r, s \in ownLoaded : r # s
             /\ \A r \in ownLoaded : failures[r] = Threshold
  <2>1. Reporting!View!ShowFleet
    BY <1>1 DEF Kept, ViewMoves, Reporting!View!Next, Reporting!View!vars,
       Reporting!View!Join, Reporting!View!Fails, Reporting!View!Answers,
       Reporting!View!Leaves, Reporting!View!ShowEach
  <2> QED
    BY <2>1 DEF Reporting!View!ShowFleet, Reporting!View!AllDown
<1>2. ASSUME Kept, NEW r \in ownLoaded, failures[r] = Threshold, failures'[r] = 0,
             r \in ownLoaded'
      PROVE  ~ownLanIssue'
  <2>1. r \in Lost /\ r \notin Lost'
    BY <1>2, ReportingFacts DEF Lost
  <2>2. PICK s \in Routers : Reporting!View!Answers(s) \/ Reporting!View!Leaves(s)
    BY <1>2, <2>1 DEF Kept, ViewMoves, Reporting!View!Next, Reporting!View!vars,
       Reporting!View!Join, Reporting!View!Fails, Reporting!View!ShowFleet,
       Reporting!View!ShowEach, Lost
  <2> QED
    BY <1>2, <2>1, <2>2 DEF Reporting!View!Answers, Reporting!View!Leaves, Lost
<1>3. ReportingInv /\ Kept =>
        /\ [~ownLanIssue /\ ownLanIssue' =>
              /\ \E r, s \in ownLoaded : r # s
              /\ \A r \in ownLoaded : failures[r] = Threshold]_(Reporting!vars)
        /\ [\A r \in ownLoaded : failures[r] = Threshold /\ failures'[r] = 0 /\ r \in ownLoaded'
              => ~ownLanIssue']_(Reporting!vars)
        /\ ReportingInv'
  BY <1>1, <1>2 DEF Kept
<1> QED
  BY <1>3, ReportingInit, ReportingStep, PTL
  DEF Reporting!Spec, LanIssueIsRight, Reporting!LanIssueOnlyForAll,
      Reporting!RecoveryEndsLanIssue

(***************************************************************************)
(* The tracker in time.                                                     *)
(*                                                                          *)
(* Remaining is how long a router that fails needs until it is past its     *)
(* threshold.  While nobody is, the remaining times differ by less than the *)
(* delay of the timer; as soon as somebody is, everybody else has less time *)
(* to go than the timer.  After the fleet outage the same holds of the next *)
(* poll of those who have not answered yet.                                 *)
(***************************************************************************)
Failing(r) == timedFailures[r] < TimedThreshold

Cycle(r) == interval[r] + PollTime

Remaining(r) == due[r] + (TimedThreshold - 1 - timedFailures[r]) * Cycle(r)

ReportedInTime ==
  /\ timedTimer => \A r \in Routers : Failing(r) => Remaining(r) < left
  /\ ~timedTimer => \A r, s \in Routers : Remaining(r) < Remaining(s) + Timing!Delay

AnswersInTime ==
  \A r \in Routers : IF Failing(r) THEN timedFailures[r] = 0 ELSE due[r] < left

Books ==
  /\ timedIssues = {} /\ timedLanIssue = timedFleet
  /\ timedLoaded = Routers
  /\ \A r \in Routers : /\ timedError[r] = "other"
                        /\ timedOutage[r] = IF Failing(r) THEN "up" ELSE "pending"
                        /\ timedFailures[r] = 0 => due[r] <= interval[r]
  /\ timedTimer = (~timedFleet /\ \E r \in Routers : ~Failing(r))
  /\ timedFleet => \A r \in Routers : ~Failing(r)

TimingInv ==
  /\ Books
  /\ ~lanUp /\ ~timedFleet => ReportedInTime
  /\ lanUp /\ ~timedFleet => AnswersInTime

TimingSafe == Timing!Comparable => TimingInv

\* The least element of a set of natural numbers, and the greatest one of a finite set.
LEMMA Least ==
  ASSUME NEW S \in SUBSET Nat, S # {}
  PROVE  \E n \in S : \A m \in S : n <= m
<1>1. PICK n \in S : \A m \in S : ~(<<m, n>> \in OpToRel(<, Nat))
  BY NatLessThanWellFounded, WFMin
<1>2. \A m \in S : ~(m < n)
  BY <1>1 DEF OpToRel
<1> QED
  BY <1>2

LEMMA Greatest ==
  ASSUME NEW S \in SUBSET Nat, IsFiniteSet(S), S # {}
  PROVE  \E n \in S : \A m \in S : n >= m
<1> DEFINE Unbounded == {T \in SUBSET S : T # {} /\ ~ \E n \in T : \A m \in T : n >= m}
           Sizes == {Cardinality(T) : T \in Unbounded}
<1> SUFFICES ASSUME Unbounded # {} PROVE FALSE
  OBVIOUS
<1>1. \A T \in SUBSET S : IsFiniteSet(T) /\ Cardinality(T) \in Nat
  BY FS_Subset, FS_CardinalityType
<1>2. Sizes \in SUBSET Nat /\ Sizes # {}
  BY <1>1
<1>3. PICK T \in Unbounded : \A U \in Unbounded : Cardinality(T) <= Cardinality(U)
  <2> HIDE DEF Unbounded
  <2>1. PICK k \in Sizes : \A j \in Sizes : k <= j
    BY <1>2, Least
  <2> QED
    BY <2>1
<1>4. PICK x \in T : TRUE
  BY <1>3
<1>5. Cardinality(T \ {x}) < Cardinality(T)
  <2>1. Cardinality(T \ {x}) = Cardinality(T) - 1 /\ Cardinality(T) \in Nat
    BY <1>1, <1>3, <1>4, FS_RemoveElement
  <2> QED
    BY <2>1
<1>6. T \ {x} \notin Unbounded
  <2>1. Cardinality(T \ {x}) \in Nat /\ Cardinality(T) \in Nat
    BY <1>1, <1>3
  <2>2. \A U \in Unbounded : Cardinality(T) <= Cardinality(U)
    BY <1>3
  <2> HIDE DEF Unbounded
  <2> QED
    BY <2>1, <2>2, <1>5
<1>7. CASE T \ {x} = {}
  <2>1. \A m \in T : x >= m
    BY <1>3, <1>4, <1>7
  <2> QED
    BY <1>3, <1>4, <2>1
<1>8. CASE T \ {x} # {}
  <2>1. PICK n \in T \ {x} : \A m \in T \ {x} : n >= m
    BY <1>3, <1>6, <1>8
  <2>2. n \in Nat /\ x \in Nat /\ T \subseteq Nat
    BY <1>3, <1>4
  <2>3. (\A m \in T : n >= m) \/ (\A m \in T : x >= m)
    BY <2>1, <2>2
  <2> QED
    BY <1>3, <1>4, <2>1, <2>3
<1> QED
  BY <1>7, <1>8

LEMMA TimingFacts ==
  /\ IsFiniteSet(Routers) /\ Routers # {}
  /\ Intervals \subseteq Nat \ {0} /\ PollTime \in Nat /\ Settle \in Nat
  /\ PollTime < Settle /\ TimedThreshold \in Nat \ {0}
<1>1. Timing!IsFiniteSet(Routers) = IsFiniteSet(Routers)
  BY DEF Timing!IsFiniteSet, IsFiniteSet
<1> QED
  BY <1>1, OutageAssumptions DEF Timing!TimingAssumptions

\* The slowest and the fastest interval in use.
LEMMA IntervalBounds ==
  ASSUME interval \in [Routers -> Intervals]
  PROVE  /\ Timing!Max(Timing!InUse) \in Nat /\ Timing!Min(Timing!InUse) \in Nat
         /\ Timing!Delay = Timing!Max(Timing!InUse) + Settle /\ Timing!Delay \in Nat
         /\ \A r \in Routers : /\ interval[r] \in Nat
                               /\ interval[r] <= Timing!Max(Timing!InUse)
                               /\ Timing!Min(Timing!InUse) <= interval[r]
<1> DEFINE U == Timing!InUse
<1>1. U \in SUBSET Nat /\ U # {} /\ \A r \in Routers : interval[r] \in U
  BY TimingFacts DEF Timing!InUse
<1>2. IsFiniteSet(U)
  <2>1. interval \in Surjection(Routers, U)
    BY DEF Surjection, Timing!InUse
  <2> QED
    BY <2>1, TimingFacts, FS_Surjection
<1> HIDE DEF U
<1>3. \E n \in U : \A m \in U : n >= m
  BY <1>1, <1>2, Greatest
<1>4. Timing!Max(U) \in U /\ \A m \in U : Timing!Max(U) >= m
  BY <1>3 DEF Timing!Max
<1>5. \E n \in U : \A m \in U : n <= m
  BY <1>1, Least
<1>6. Timing!Min(U) \in U /\ \A m \in U : Timing!Min(U) <= m
  BY <1>5 DEF Timing!Min
<1>7. Timing!Delay = Timing!Max(U) + Settle
  BY DEF Timing!Delay, U
<1>8. \A r \in Routers : interval[r] \in Nat
  BY <1>1
<1>9. \A r \in Routers : interval[r] <= Timing!Max(U) /\ Timing!Min(U) <= interval[r]
  BY <1>1, <1>4, <1>6
<1>10. Timing!Max(U) \in Nat /\ Timing!Min(U) \in Nat
  BY <1>1, <1>4, <1>6
<1>11. Timing!Delay \in Nat
  BY <1>7, <1>10, TimingFacts
<1> QED
  BY <1>7, <1>8, <1>9, <1>10, <1>11 DEF U

\* Types.
LEMMA TimedTypes ==
  ASSUME Timing!Tracker!TypeOK, NEW r \in Routers,
         \/ Timing!Tracker!ReportUp(r) \/ Timing!Tracker!ReportDown(r, "other")
         \/ Timing!Tracker!Evaluate \/ UNCHANGED Timing!tracker
  PROVE  Timing!Tracker!TypeOK'
<1> USE DEF Timing!Tracker!TypeOK
<1>1. CASE Timing!Tracker!ReportUp(r)
  <2>1. /\ UNCHANGED <<timedLoaded, timedError>>
        /\ timedOutage' \in {timedOutage, [timedOutage EXCEPT ![r] = "up"]}
        /\ timedIssues' \subseteq timedIssues
        /\ timedFleet' \in BOOLEAN /\ timedTimer' \in BOOLEAN /\ timedLanIssue' \in BOOLEAN
    BY <1>1 DEF Timing!Tracker!ReportUp, Timing!Tracker!vars, Timing!Tracker!Without,
       Timing!Tracker!TimerAfter
  <2> QED
    BY <2>1
<1>2. CASE Timing!Tracker!ReportDown(r, "other")
  BY <1>2 DEF Timing!Tracker!ReportDown, Timing!Tracker!vars, Timing!Tracker!ErrorType
<1>3. CASE Timing!Tracker!Evaluate
  <2>1. /\ UNCHANGED <<timedLoaded, timedError>> /\ timedTimer' = FALSE
        /\ timedFleet' \in BOOLEAN /\ timedLanIssue' \in BOOLEAN
        /\ timedIssues' \subseteq Routers
        /\ timedOutage' \in [Routers -> {"up", "pending", "reported"}]
    BY <1>3 DEF Timing!Tracker!Evaluate, Timing!Tracker!StartFleetOutage
  <2> QED
    BY <2>1
<1>4. CASE UNCHANGED Timing!tracker
  BY <1>4 DEF Timing!tracker
<1> QED
  BY <1>1, <1>2, <1>3, <1>4

LEMMA TimingTypeInit == Timing!Init => Timing!TypeOK
<1> SUFFICES ASSUME Timing!Init PROVE Timing!TypeOK
  OBVIOUS
<1>1. interval \in [Routers -> Intervals]
  BY DEF Timing!Init
<1>2. Timing!Delay \in Nat /\ \A r \in Routers : interval[r] \in Nat
  BY <1>1, IntervalBounds
<1>3. Timing!Tracker!TypeOK
  BY DEF Timing!Init, Timing!Tracker!TypeOK, Timing!Tracker!ErrorType
<1>4. /\ due \in [Routers -> Nat]
      /\ \A r \in Routers : due[r] <= interval[r]
  BY <1>1, IntervalBounds DEF Timing!Init
<1>5. ASSUME NEW r \in Routers PROVE due[r] <= interval[r] + PollTime
  <2>1. due[r] \in Nat /\ interval[r] \in Nat /\ due[r] <= interval[r] /\ PollTime \in Nat
    BY <1>2, <1>4, TimingFacts
  <2> QED
    BY <2>1
<1> QED
  BY <1>1, <1>2, <1>3, <1>4, <1>5, TimingFacts DEF Timing!Init, Timing!TypeOK

\* The timer after a step that leaves the intervals alone.
LEMMA TimerTypes ==
  ASSUME Timing!TypeOK, interval' = interval, Timing!StartTimer
  PROVE  /\ left' \in 0..Timing!Delay /\ Timing!Delay' = Timing!Delay
         /\ left' = IF timedTimer' /\ ~timedTimer THEN Timing!Delay
                      ELSE IF timedTimer' THEN left ELSE 0
<1>1. Timing!Delay \in Nat
  BY IntervalBounds DEF Timing!TypeOK
<1>2. Timing!Delay' = Timing!Delay
  BY DEF Timing!Delay, Timing!InUse
<1> QED
  BY <1>1, <1>2 DEF Timing!StartTimer, Timing!TypeOK

LEMMA TimingTypeStep == Timing!TypeOK /\ [Timing!Next]_(Timing!vars) => Timing!TypeOK'
<1> SUFFICES ASSUME Timing!TypeOK, [Timing!Next]_(Timing!vars) PROVE Timing!TypeOK'
  OBVIOUS
<1> USE DEF Timing!TypeOK
<1>0. /\ Timing!Delay \in Nat /\ \A r \in Routers : interval[r] \in Nat
      /\ interval' = interval => Timing!Delay' = Timing!Delay
  BY IntervalBounds DEF Timing!Delay, Timing!InUse
<1>1. ASSUME NEW r \in Routers, NEW d \in {0, PollTime}, Timing!Reschedule(r, d),
             UNCHANGED interval
      PROVE  /\ due' \in [Routers -> Nat]
             /\ \A s \in Routers : due'[s] <= interval'[s] + PollTime
  BY <1>0, <1>1, TimingFacts DEF Timing!Reschedule
<1>2. ASSUME NEW r \in Routers, Timing!PollSucceeds(r) PROVE Timing!TypeOK'
  <2>1. Timing!Tracker!TypeOK'
    BY <1>2, TimedTypes DEF Timing!PollSucceeds
  <2>2. timedFailures' \in [Routers -> 0..TimedThreshold]
    BY <1>2, TimingFacts DEF Timing!PollSucceeds
  <2>3. left' \in 0..Timing!Delay'
    BY <1>2, TimerTypes DEF Timing!PollSucceeds
  <2> QED
    BY <1>1, <1>2, <2>1, <2>2, <2>3, TimingFacts DEF Timing!PollSucceeds
<1>3. ASSUME NEW r \in Routers, Timing!PollFails(r) PROVE Timing!TypeOK'
  <2>1. Timing!Tracker!TypeOK'
    BY <1>3, TimedTypes DEF Timing!PollFails
  <2>2. timedFailures' \in [Routers -> 0..TimedThreshold]
    BY <1>3, TimingFacts DEF Timing!PollFails
  <2>3. left' \in 0..Timing!Delay'
    BY <1>3, TimerTypes DEF Timing!PollFails
  <2> QED
    BY <1>1, <1>3, <2>1, <2>2, <2>3, TimingFacts DEF Timing!PollFails
<1>4. CASE Timing!Classify
  <2>1. Timing!Tracker!TypeOK'
    BY <1>4, TimingFacts, TimedTypes DEF Timing!Classify
  <2> QED
    BY <1>0, <1>4, <2>1 DEF Timing!Classify
<1>5. ASSUME UNCHANGED <<interval, timedFailures, Timing!tracker>>, lanUp' \in BOOLEAN,
             due' \in [Routers -> Nat], \A r \in Routers : due'[r] <= due[r],
             left' \in 0..left
      PROVE  Timing!TypeOK'
  <2>1. Timing!Tracker!TypeOK'
    BY <1>5, TimingFacts, TimedTypes
  <2>2. left' \in 0..Timing!Delay'
    BY <1>0, <1>5
  <2>3. \A r \in Routers : due'[r] <= interval'[r] + PollTime
    BY <1>0, <1>5, TimingFacts
  <2> QED
    BY <1>5, <2>1, <2>2, <2>3
<1>6. CASE Timing!LanFails \/ Timing!LanReturns
  <2>1. left \in 0..left /\ \A r \in Routers : due[r] <= due[r]
    BY <1>0
  <2> QED
    BY <1>5, <1>6, <2>1 DEF Timing!LanFails, Timing!LanReturns
<1>7. CASE Timing!Tick
  <2>1. due' \in [Routers -> Nat] /\ \A r \in Routers : due'[r] <= due[r]
    BY <1>7 DEF Timing!Tick
  <2>2. left' \in 0..left
    BY <1>0, <1>7 DEF Timing!Tick
  <2> QED
    BY <1>5, <1>7, <2>1, <2>2 DEF Timing!Tick
<1>8. CASE UNCHANGED Timing!vars
  BY <1>5, <1>8, <1>0 DEF Timing!vars
<1> QED
  BY <1>2, <1>3, <1>4, <1>6, <1>7, <1>8 DEF Timing!Next

(* A run of the parts is a run of each of them. *)
LEMMA PartsMove ==
  [MCNext]_allVars => /\ [Next]_vars
                      /\ [Reporting!Next]_(Reporting!vars)
                      /\ [Timing!Next]_(Timing!vars)
<1> SUFFICES ASSUME [MCNext]_allVars
             PROVE  /\ [Next]_vars
                    /\ [Reporting!Next]_(Reporting!vars)
                    /\ [Timing!Next]_(Timing!vars)
  OBVIOUS
<1>1. UNCHANGED coordinatorsVars => UNCHANGED Reporting!vars
  BY DEF coordinatorsVars, Reporting!vars, Reporting!counters, Reporting!tracker
<1>2. UNCHANGED timingVars => UNCHANGED Timing!vars
  BY DEF timingVars, Timing!vars, Timing!tracker
<1> QED
  BY <1>1, <1>2 DEF MCNext, OnlyTracker, OnlyCoordinators, OnlyTiming, allVars

\* Whoever is down for the tracker is past the threshold of its own coordinator, through
\* every order of polls, timer, setups and unloads; and every part is typed.
THEOREM CoordinatorsStayInStep == MCSpec => []CoordinatorsAgree
<1>1. MCInit => TrackerInv /\ ReportingInv /\ Timing!TypeOK
  BY TrackerInit, ReportingInit, TimingTypeInit DEF MCInit
<1>2. ReportingInv /\ [Reporting!Next]_(Reporting!vars) => ReportingInv'
  BY ReportingStep DEF Kept
<1>3. TrackerInv /\ ReportingInv /\ Timing!TypeOK => CoordinatorsAgree
  BY DEF TrackerInv, ReportingInv, CoordinatorsAgree
<1> QED
  BY <1>1, <1>2, <1>3, TrackerStep, TimingTypeStep, PartsMove, PTL DEF MCSpec

(***************************************************************************)
(* One fault of the LAN raises one issue, if there are two routers at least *)
(* and the intervals are comparable.                                        *)
(***************************************************************************)
LEMMA Products ==
  /\ \A k, a \in Nat : k * a \in Nat
  /\ \A k, a, b, c \in Nat : a <= b + c => k * a <= k * b + k * c
  /\ \A k, a \in Nat : k > 0 => a + (k - 1) * a = k * a
OBVIOUS

LEMMA Numbers ==
  ASSUME Timing!TypeOK, NEW r \in Routers
  PROVE  /\ due[r] \in Nat /\ interval[r] \in Nat /\ timedFailures[r] \in 0..TimedThreshold
         /\ interval[r] <= Timing!Delay - Settle
         /\ due[r] <= interval[r] + PollTime
         /\ left \in Nat /\ Timing!Delay \in Nat
         /\ Failing(r) => Remaining(r) \in Nat
         /\ ~Failing(r) => timedFailures[r] = TimedThreshold
<1> USE DEF Timing!TypeOK
<1>1. /\ due[r] \in Nat /\ interval[r] \in Nat /\ timedFailures[r] \in 0..TimedThreshold
      /\ interval[r] <= Timing!Delay - Settle
      /\ due[r] <= interval[r] + PollTime
      /\ left \in Nat /\ Timing!Delay \in Nat
  BY IntervalBounds, TimingFacts
<1>2. ~Failing(r) => timedFailures[r] = TimedThreshold
  BY <1>1, TimingFacts DEF Failing
<1>3. Failing(r) => TimedThreshold - 1 - timedFailures[r] \in Nat
  BY <1>1, TimingFacts DEF Failing
<1>4. Cycle(r) \in Nat
  BY <1>1, TimingFacts DEF Cycle
<1>5. Failing(r) => (TimedThreshold - 1 - timedFailures[r]) * Cycle(r) \in Nat
  BY <1>3, <1>4, Products
<1> QED
  BY <1>1, <1>2, <1>5 DEF Remaining

\* When the LAN fails nobody is far ahead of anybody else.
LEMMA StartsTogether ==
  ASSUME Timing!TypeOK, Timing!Comparable, Books,
         \A r \in Routers : timedFailures[r] = 0,
         NEW r \in Routers, NEW s \in Routers
  PROVE  Remaining(r) < Remaining(s) + Timing!Delay
<1> DEFINE k == TimedThreshold - 1
           slowest == Timing!Max(Timing!InUse)
           fastest == Timing!Min(Timing!InUse)
<1>1. /\ slowest \in Nat /\ fastest \in Nat /\ Timing!Delay = slowest + Settle
      /\ interval[r] \in Nat /\ interval[s] \in Nat
      /\ interval[r] <= slowest /\ fastest <= interval[s] /\ interval[s] <= slowest
  BY IntervalBounds DEF Timing!TypeOK
<1>2. k \in Nat /\ k * (slowest - fastest) < Settle
  BY TimingFacts DEF Timing!Comparable
<1>3. /\ Remaining(r) = due[r] + k * Cycle(r) /\ Remaining(s) = due[s] + k * Cycle(s)
      /\ due[r] \in Nat /\ due[s] \in Nat /\ due[r] <= interval[r]
  BY Numbers, TimingFacts DEF Remaining, Books, Failing
<1> HIDE DEF k, slowest, fastest
<1>4. Cycle(r) \in Nat /\ Cycle(s) \in Nat
  BY <1>1, TimingFacts DEF Cycle
<1>5. slowest - fastest \in Nat /\ Cycle(r) <= Cycle(s) + (slowest - fastest)
  BY <1>1, TimingFacts DEF Cycle
<1>6. k * Cycle(r) <= k * Cycle(s) + k * (slowest - fastest)
  BY <1>2, <1>4, <1>5, Products
<1>7. /\ k * Cycle(r) \in Nat /\ k * Cycle(s) \in Nat /\ k * (slowest - fastest) \in Nat
      /\ Settle \in Nat
  BY <1>2, <1>4, <1>5, Products, TimingFacts
<1> DEFINE x == k * Cycle(r)
           y == k * Cycle(s)
           z == k * (slowest - fastest)
<1>8. x \in Nat /\ y \in Nat /\ z \in Nat /\ x <= y + z /\ z < Settle
  BY <1>2, <1>6, <1>7
<1>9. Remaining(r) = due[r] + x /\ Remaining(s) = due[s] + y
  BY <1>3
<1> HIDE DEF x, y, z
<1> QED
  BY <1>1, <1>3, <1>7, <1>8, <1>9

LEMMA LanFailsKeeps ==
  ASSUME Timing!TypeOK, Timing!Comparable, TimingInv, Timing!LanFails PROVE TimingInv'
<1> USE DEF TimingInv
<1>1. /\ UNCHANGED <<interval, due, timedFailures, left>> /\ UNCHANGED Timing!tracker
      /\ \A r \in Routers : timedFailures[r] = 0 /\ Failing(r)
      /\ lanUp' = FALSE
  BY TimingFacts DEF Timing!LanFails, Failing
<1>2. ~timedFleet /\ ~timedTimer
  BY <1>1, TimingFacts DEF Books
<1>3. Books'
  BY <1>1, <1>2 DEF Books, Failing, Timing!tracker
<1>4. \A r, s \in Routers : Remaining(r) < Remaining(s) + Timing!Delay
  BY <1>1, StartsTogether
<1>5. ReportedInTime'
  BY <1>1, <1>2, <1>4 DEF ReportedInTime, Remaining, Cycle, Failing, Timing!Delay,
     Timing!InUse, Timing!tracker
<1> QED
  BY <1>1, <1>3, <1>5

LEMMA LanReturnsKeeps ==
  ASSUME Timing!TypeOK, TimingInv, Timing!LanReturns PROVE TimingInv'
<1>1. /\ UNCHANGED <<interval, due, timedFailures, left>> /\ UNCHANGED Timing!tracker
      /\ timedFleet' /\ timedFleet
  BY DEF Timing!LanReturns, TimingInv, Books, Timing!tracker
<1>2. Books'
  BY <1>1 DEF TimingInv, Books, Failing, Timing!tracker
<1> QED
  BY <1>1, <1>2 DEF TimingInv

LEMMA TickKeeps ==
  ASSUME Timing!TypeOK, TimingInv, Timing!Tick PROVE TimingInv'
<1> USE DEF TimingInv
<1>1. /\ UNCHANGED <<lanUp, interval, timedFailures>> /\ UNCHANGED Timing!tracker
      /\ \A r \in Routers : due[r] > 0 /\ due'[r] = due[r] - 1
      /\ timedTimer => left > 0 /\ left' = left - 1
  BY DEF Timing!Tick
<1>2. Timing!Delay' = Timing!Delay
  BY <1>1 DEF Timing!Delay, Timing!InUse
<1>3. ASSUME NEW r \in Routers
      PROVE  /\ due[r] \in Nat /\ due'[r] = due[r] - 1 /\ interval[r] \in Nat
             /\ Failing(r)' <=> Failing(r)
             /\ Failing(r) => Remaining(r) \in Nat /\ Remaining(r)' = Remaining(r) - 1
  <2>1. due[r] \in Nat /\ interval[r] \in Nat /\ (Failing(r) => Remaining(r) \in Nat)
    BY Numbers
  <2> DEFINE x == (TimedThreshold - 1 - timedFailures[r]) * Cycle(r)
  <2>2. Remaining(r) = due[r] + x /\ Remaining(r)' = due'[r] + x
    BY <1>1 DEF Remaining, Cycle
  <2>3. Failing(r) => x \in Nat
    <3>1. Failing(r) => TimedThreshold - 1 - timedFailures[r] \in Nat
      BY Numbers, TimingFacts DEF Failing
    <3>2. Cycle(r) \in Nat
      BY <2>1, TimingFacts DEF Cycle
    <3> QED
      BY <3>1, <3>2, Products
  <2> HIDE DEF x
  <2> QED
    BY <1>1, <2>1, <2>2, <2>3 DEF Failing
<1>4. left \in Nat /\ Timing!Delay \in Nat
  BY IntervalBounds DEF Timing!TypeOK
<1>5. Books'
  BY <1>1, <1>3 DEF Books, Timing!tracker
<1>6. ~lanUp /\ ~timedFleet => ReportedInTime'
  <2> SUFFICES ASSUME ~lanUp /\ ~timedFleet, ReportedInTime PROVE ReportedInTime'
    OBVIOUS
  <2>1. CASE timedTimer
    <3>1. \A r \in Routers : Failing(r) => Remaining(r)' < left'
      BY <1>1, <1>3, <1>4, <2>1 DEF ReportedInTime
    <3> QED
      BY <1>1, <1>3, <2>1, <3>1 DEF ReportedInTime, Timing!tracker
  <2>2. CASE ~timedTimer
    <3>1. \A r \in Routers : Failing(r)
      BY <2>2 DEF Books
    <3>2. \A r, s \in Routers : Remaining(r)' < Remaining(s)' + Timing!Delay
      BY <1>3, <1>4, <2>2, <3>1 DEF ReportedInTime
    <3> QED
      BY <1>1, <1>2, <2>2, <3>2 DEF ReportedInTime, Timing!tracker
  <2> QED
    BY <2>1, <2>2 DEF Timing!TypeOK
<1>7. lanUp /\ ~timedFleet => AnswersInTime'
  <2> SUFFICES ASSUME lanUp /\ ~timedFleet, AnswersInTime PROVE AnswersInTime'
    OBVIOUS
  <2>1. ASSUME NEW r \in Routers, ~Failing(r) PROVE due'[r] < left'
    <3>1. timedTimer /\ due[r] < left
      BY <2>1 DEF AnswersInTime, Books
    <3> QED
      BY <1>1, <1>3, <1>4, <3>1
  <2> QED
    BY <1>1, <1>3, <2>1 DEF AnswersInTime
<1> QED
  BY <1>1, <1>5, <1>6, <1>7 DEF Timing!tracker

LEMMA AnswerKeeps ==
  ASSUME Timing!TypeOK, TimingInv, NEW r \in Routers, Timing!PollSucceeds(r)
  PROVE  TimingInv'
<1> USE DEF TimingInv
<1>1. /\ lanUp /\ lanUp' /\ interval' = interval
      /\ due' = [due EXCEPT ![r] = interval[r]] /\ interval[r] \in Nat
      /\ timedFailures' = [timedFailures EXCEPT ![r] = 0]
      /\ due \in [Routers -> Nat] /\ timedFailures \in [Routers -> 0..TimedThreshold]
  <2>1. interval[r] \in Nat /\ interval[r] + 0 = interval[r]
    BY Numbers
  <2> QED
    BY <2>1 DEF Timing!PollSucceeds, Timing!Reschedule, Timing!TypeOK
<1>2. \A s \in Routers : /\ s = r => Failing(s)' /\ timedFailures'[s] = 0
                         /\ s # r => /\ Failing(s)' <=> Failing(s)
                                     /\ timedFailures'[s] = timedFailures[s]
                                     /\ due'[s] = due[s]
  BY <1>1, TimingFacts DEF Failing
<1>3. /\ timedLoaded' = Routers /\ timedError' = timedError
      /\ timedOutage' = [timedOutage EXCEPT ![r] = "up"]
      /\ timedIssues' = {} /\ ~timedFleet' /\ ~timedLanIssue'
      /\ timedTimer' = \E s \in Routers : timedOutage'[s] # "up"
  <2>1. timedOutage \in [Routers -> {"up", "pending", "reported"}]
    BY DEF Timing!TypeOK, Timing!Tracker!TypeOK
  <2>2. CASE Failing(r)
    <3>1. timedOutage[r] = "up" /\ ~timedFleet
      BY <2>2 DEF Books
    <3>2. UNCHANGED <<timedLoaded, timedError, timedOutage, timedIssues, timedFleet,
                      timedLanIssue, timedTimer>>
      BY <3>1 DEF Timing!PollSucceeds, Timing!Tracker!ReportUp, Timing!Tracker!vars
    <3>3. timedTimer = \E s \in Routers : timedOutage[s] # "up"
      BY <3>1 DEF Books
    <3> QED
      BY <2>1, <3>1, <3>2, <3>3 DEF Books
  <2>3. CASE ~Failing(r)
    <3>1. timedOutage[r] = "pending" /\ (timedTimer \/ timedFleet)
      BY <2>3 DEF Books
    <3>2. /\ UNCHANGED <<timedLoaded, timedError>>
          /\ timedOutage' = [timedOutage EXCEPT ![r] = "up"]
          /\ timedIssues' = timedIssues /\ ~timedFleet' /\ ~timedLanIssue'
          /\ timedTimer' = (Timing!Tracker!Down(timedOutage') # {})
      <4>1. Timing!Tracker!ReportUp(r) /\ timedLanIssue = timedFleet
        BY DEF Timing!PollSucceeds, Books
      <4>2. CASE timedFleet
        BY <3>1, <4>1, <4>2
        DEF Timing!Tracker!ReportUp, Timing!Tracker!Without, Timing!Tracker!TimerAfter
      <4>3. CASE ~timedFleet
        <5>1. /\ UNCHANGED <<timedLoaded, timedError, timedFleet, timedLanIssue>>
              /\ timedOutage' = [timedOutage EXCEPT ![r] = "up"]
              /\ timedIssues' = timedIssues
              /\ timedTimer' = Timing!Tracker!TimerAfter(timedOutage', FALSE)
          BY <3>1, <4>1, <4>3 DEF Timing!Tracker!ReportUp, Timing!Tracker!Without
        <5>2. timedTimer' = (Timing!Tracker!Down(timedOutage') # {})
          BY <3>1, <4>3, <5>1, Zenon DEF Timing!Tracker!TimerAfter
        <5> QED
          BY <4>1, <4>3, <5>1, <5>2
      <4> QED
        BY <4>2, <4>3
    <3> QED
      BY <3>2 DEF Books, Timing!Tracker!Down
  <2> QED
    BY <2>2, <2>3
<1>4. \A s \in Routers : timedOutage'[s] = IF Failing(s)' THEN "up" ELSE "pending"
  BY <1>2, <1>3 DEF Books, Timing!TypeOK, Timing!Tracker!TypeOK
<1>5. timedTimer' = \E s \in Routers : ~Failing(s)'
  BY <1>3, <1>4
<1>6. Books'
  <2>1. \A s \in Routers : timedFailures'[s] = 0 => due'[s] <= interval'[s]
    BY <1>1, <1>2 DEF Books
  <2>2. timedFleet' = FALSE /\ timedLanIssue' = FALSE
    BY <1>3, TimingTypeStep DEF Timing!TypeOK, Timing!Tracker!TypeOK, Timing!Next
  <2> QED
    BY <1>3, <1>4, <1>5, <2>1, <2>2, Zenon DEF Books
<1>7. ASSUME NEW s \in Routers
      PROVE  IF Failing(s)' THEN timedFailures'[s] = 0 ELSE due'[s] < left'
  <2>1. CASE Failing(s)'
    BY <1>1, <1>2, <2>1 DEF AnswersInTime, Books
  <2>2. CASE ~Failing(s)'
    <3>1. s # r /\ ~Failing(s) /\ due'[s] = due[s] /\ timedTimer'
      BY <1>2, <1>5, <2>2
    <3>2. left' = IF ~timedTimer THEN Timing!Delay ELSE left
      BY <1>1, <3>1, TimerTypes DEF Timing!PollSucceeds
    <3>3. CASE timedTimer
      <4>1. ~timedFleet
        BY <3>3, Zenon DEF Books
      <4>2. due[s] < left
        BY <1>1, <3>1, <4>1 DEF AnswersInTime
      <4> QED
        BY <2>2, <3>1, <3>2, <3>3, <4>2
    <3>4. CASE ~timedTimer
      <4>1. /\ due[s] <= interval[s] + PollTime /\ interval[s] <= Timing!Delay - Settle
            /\ due[s] \in Nat /\ interval[s] \in Nat /\ Timing!Delay \in Nat
        BY Numbers
      <4> QED
        BY <2>2, <3>1, <3>2, <3>4, <4>1, TimingFacts
    <3> QED
      BY <3>3, <3>4
  <2> QED
    BY <2>1, <2>2
<1> QED
  BY <1>1, <1>6, <1>7 DEF AnswersInTime

LEMMA FailureKeeps ==
  ASSUME Timing!TypeOK, TimingInv, NEW r \in Routers, Timing!PollFails(r)
  PROVE  TimingInv'
<1> USE DEF TimingInv
<1> DEFINE n == IF Failing(r) THEN timedFailures[r] + 1 ELSE TimedThreshold
<1>1. /\ ~lanUp /\ ~lanUp' /\ interval' = interval /\ due[r] = 0
      /\ due' = [due EXCEPT ![r] = interval[r] + PollTime] /\ interval[r] \in Nat
      /\ timedFailures' = [timedFailures EXCEPT ![r] = n]
      /\ due \in [Routers -> Nat] /\ timedFailures \in [Routers -> 0..TimedThreshold]
      /\ Timing!StartTimer
  BY Numbers DEF Timing!PollFails, Timing!Reschedule, Timing!TypeOK, Failing
<1>2. n \in 1..TimedThreshold
  BY <1>1, TimingFacts DEF Failing
<1>3. timedFailures'[r] = n /\ (Failing(r)' <=> n < TimedThreshold)
  BY <1>1 DEF Failing
<1>4. \A s \in Routers \ {r} : /\ timedFailures'[s] = timedFailures[s] /\ due'[s] = due[s]
                               /\ Failing(s)' <=> Failing(s)
                               /\ Remaining(s)' = Remaining(s)
  BY <1>1 DEF Failing, Remaining, Cycle
<1>5. /\ left' = IF timedTimer' /\ ~timedTimer THEN Timing!Delay
                   ELSE IF timedTimer' THEN left ELSE 0
      /\ Timing!Delay' = Timing!Delay
  BY <1>1, TimerTypes
<1>6. \A s \in Routers : timedFailures'[s] = 0 => due'[s] <= interval'[s]
  BY <1>1, <1>2, <1>3, <1>4 DEF Books
<1>7. CASE n < TimedThreshold
  <2>1. UNCHANGED Timing!tracker /\ Failing(r) /\ Failing(r)' /\ ~timedFleet
    BY <1>1, <1>3, <1>7, TimingFacts DEF Timing!PollFails, Failing, Books
  <2>2. \A s \in Routers : Failing(s)' <=> Failing(s)
    BY <1>4, <2>1
  <2>3. Books'
    BY <1>6, <2>1, <2>2 DEF Books, Timing!tracker
  <2>4. Remaining(r)' = Remaining(r)
    <3> DEFINE k == TimedThreshold - 1 - timedFailures[r]
    <3>1. k \in Nat /\ k > 0 /\ TimedThreshold - 1 - timedFailures'[r] = k - 1
      BY <1>1, <1>3, <1>7, <2>1, TimingFacts
    <3>2. Cycle(r) \in Nat /\ Cycle(r)' = Cycle(r) /\ due'[r] = Cycle(r)
      BY <1>1, TimingFacts DEF Cycle
    <3>3. Cycle(r) + (k - 1) * Cycle(r) = k * Cycle(r)
      BY <3>1, <3>2, Products
    <3>4. k * Cycle(r) \in Nat
      BY <3>1, <3>2, Products
    <3>5. Remaining(r) = 0 + k * Cycle(r)
      BY <1>1 DEF Remaining
    <3>6. Remaining(r)' = Cycle(r) + (k - 1) * Cycle(r)
      BY <3>1, <3>2 DEF Remaining
    <3> HIDE DEF k
    <3> QED
      BY <3>3, <3>4, <3>5, <3>6
  <2>5. \A s \in Routers : Remaining(s)' = Remaining(s)
    BY <1>4, <2>4
  <2>6. ReportedInTime'
    BY <1>1, <1>5, <2>1, <2>2, <2>5 DEF ReportedInTime, Timing!tracker
  <2> QED
    BY <1>1, <2>3, <2>6
<1>8. CASE Failing(r) /\ n = TimedThreshold
  <2>1. ~timedFleet /\ timedOutage[r] = "up" /\ r \in timedLoaded /\ ~Failing(r)'
    BY <1>3, <1>8, TimingFacts DEF Books
  <2>2. /\ timedOutage' = [timedOutage EXCEPT ![r] = "pending"]
        /\ timedError' = [timedError EXCEPT ![r] = "other"] /\ timedTimer' = TRUE
        /\ UNCHANGED <<timedLoaded, timedFleet, timedIssues, timedLanIssue>>
    <3>1. /\ timedFailures[r] < TimedThreshold /\ timedFailures[r] + 1 = TimedThreshold
          /\ TimedThreshold >= TimedThreshold
      BY <1>8, TimingFacts DEF Failing
    <3>2. Timing!Tracker!ReportDown(r, "other")
      BY <3>1 DEF Timing!PollFails
    <3> QED
      BY <2>1, <3>2 DEF Timing!Tracker!ReportDown
  <2>3. /\ timedOutage \in [Routers -> {"up", "pending", "reported"}]
        /\ timedError \in [Routers -> {"auth", "other"}]
    BY DEF Timing!TypeOK, Timing!Tracker!TypeOK, Timing!Tracker!ErrorType
  <2>4. Books'
    BY <1>4, <1>6, <2>1, <2>2, <2>3 DEF Books
  <2>5. Remaining(r) = 0
    <3>1. TimedThreshold - 1 - timedFailures[r] = 0
      BY <1>1, <1>8, TimingFacts
    <3>2. Cycle(r) \in Nat
      BY <1>1, TimingFacts DEF Cycle
    <3>3. Remaining(r) = 0 + 0 * Cycle(r)
      BY <1>1, <3>1 DEF Remaining
    <3> QED
      BY <3>2, <3>3
  <2>6. ASSUME NEW s \in Routers, Failing(s)' PROVE Remaining(s)' < left'
    <3>1. s # r /\ Failing(s) /\ Remaining(s)' = Remaining(s)
      BY <1>4, <2>1, <2>6
    <3>2. CASE timedTimer
      BY <1>1, <1>5, <2>1, <2>2, <3>1, <3>2 DEF ReportedInTime
    <3>3. CASE ~timedTimer
      <4>1. Remaining(s) < Remaining(r) + Timing!Delay
        BY <1>1, <2>1, <3>3 DEF ReportedInTime
      <4>2. Timing!Delay \in Nat
        BY Numbers
      <4> QED
        BY <1>5, <2>2, <2>5, <3>1, <3>3, <4>1, <4>2
    <3> QED
      BY <3>2, <3>3
  <2> QED
    BY <1>1, <2>2, <2>4, <2>6 DEF ReportedInTime
<1>9. CASE ~Failing(r)
  <2>1. timedOutage[r] = "pending" /\ r \in timedLoaded /\ ~Failing(r)'
    BY <1>3, <1>9, TimingFacts DEF Books
  <2>2. /\ timedError' = [timedError EXCEPT ![r] = "other"]
        /\ UNCHANGED <<timedLoaded, timedOutage, timedFleet, timedTimer, timedIssues,
                       timedLanIssue>>
    <3>1. ~(timedFailures[r] < TimedThreshold) /\ TimedThreshold >= TimedThreshold
      BY <1>9, TimingFacts DEF Failing
    <3>2. Timing!Tracker!ReportDown(r, "other")
      BY <3>1 DEF Timing!PollFails
    <3> QED
      BY <2>1, <3>2 DEF Timing!Tracker!ReportDown
  <2>3. timedError \in [Routers -> {"auth", "other"}]
    BY DEF Timing!TypeOK, Timing!Tracker!TypeOK, Timing!Tracker!ErrorType
  <2>4. \A s \in Routers : Failing(s)' <=> Failing(s)
    BY <1>4, <1>9, <2>1
  <2>5. Books'
    BY <1>6, <2>2, <2>3, <2>4 DEF Books
  <2>6. ~timedFleet => timedTimer
    BY <1>9 DEF Books
  <2>7. ~timedFleet => \A s \in Routers : Failing(s)' => Remaining(s)' < left'
    BY <1>1, <1>4, <1>5, <2>1, <2>2, <2>6 DEF ReportedInTime
  <2> QED
    BY <1>1, <2>2, <2>5, <2>6, <2>7 DEF ReportedInTime
<1>10. Failing(r) => n < TimedThreshold \/ n = TimedThreshold
  BY <1>2, TimingFacts
<1> HIDE DEF n
<1> QED
  BY <1>7, <1>8, <1>9, <1>10

LEMMA WindowKeeps ==
  ASSUME Timing!TypeOK, TimingInv, Timing!Classify, \E r, s \in Routers : r # s
  PROVE  TimingInv'
<1> USE DEF TimingInv
<1>1. /\ timedTimer /\ left = 0 /\ Timing!Tracker!Evaluate
      /\ UNCHANGED <<lanUp, interval, due, timedFailures, left>>
  BY DEF Timing!Classify
<1>2. ~timedFleet /\ \E r \in Routers : ~Failing(r)
  BY <1>1 DEF Books
<1>3. ~lanUp
  BY <1>1, <1>2, Numbers DEF AnswersInTime
<1>4. \A r \in Routers : ~Failing(r)
  <2>1. \A r \in Routers : Failing(r) => Remaining(r) < 0
    BY <1>1, <1>2, <1>3 DEF ReportedInTime
  <2>2. \A r \in Routers : Failing(r) => Remaining(r) \in Nat
    BY Numbers
  <2>3. \A x \in Nat : ~(x < 0)
    OBVIOUS
  <2> QED
    BY <2>1, <2>2, <2>3
<1>5. /\ timedLoaded = Routers
      /\ \A r \in Routers : timedOutage[r] = "pending" /\ timedError[r] = "other"
  BY <1>4 DEF Books
<1>6. Timing!Tracker!AllDown(timedLoaded, timedOutage, timedError)
  BY <1>5 DEF Timing!Tracker!AllDown, Timing!Tracker!Down
<1>7. /\ timedFleet' = TRUE /\ timedLanIssue' = TRUE /\ timedTimer' = FALSE
      /\ UNCHANGED <<timedLoaded, timedError>>
      /\ timedIssues' = {}
      /\ timedOutage' = [r \in Routers |-> "pending"]
  BY <1>1, <1>2, <1>5, <1>6
  DEF Timing!Tracker!Evaluate, Timing!Tracker!StartFleetOutage, Books
<1>8. \A r \in Routers : ~Failing(r)'
  BY <1>1, <1>4 DEF Failing
<1>9. Books'
  BY <1>1, <1>7, <1>8 DEF Books
<1> QED
  BY <1>7, <1>9

LEMMA TimingInvInit == Timing!Init => TimingInv
<1> SUFFICES ASSUME Timing!Init PROVE TimingInv
  OBVIOUS
<1>1. \A r \in Routers : timedFailures[r] = 0 /\ 0 < TimedThreshold
  <2>1. timedFailures = [r \in Routers |-> 0]
    BY DEF Timing!Init
  <2>2. 0 < TimedThreshold
    BY TimingFacts
  <2> QED
    BY <2>1, <2>2
<1>2. \A r \in Routers : Failing(r)
  BY <1>1 DEF Failing
<1>3. \A r \in Routers : due[r] <= interval[r]
  BY DEF Timing!Init
<1>4. Books /\ AnswersInTime
  BY <1>1, <1>2, <1>3 DEF Timing!Init, Books, AnswersInTime
<1> QED
  BY <1>4 DEF Timing!Init, TimingInv

LEMMA TimingSafeStep ==
  ASSUME \E r, s \in Routers : r # s
  PROVE  Timing!TypeOK /\ TimingSafe /\ [Timing!Next]_(Timing!vars) => TimingSafe'
<1> SUFFICES ASSUME Timing!TypeOK, TimingSafe, [Timing!Next]_(Timing!vars), Timing!Comparable'
             PROVE  TimingInv'
  BY DEF TimingSafe
<1>1. interval' = interval
  BY DEF Timing!Next, Timing!PollSucceeds, Timing!PollFails, Timing!Classify,
     Timing!LanFails, Timing!LanReturns, Timing!Tick, Timing!vars
<1>2. Timing!Comparable
  BY <1>1 DEF Timing!Comparable, Timing!InUse
<1>3. TimingInv
  BY <1>2 DEF TimingSafe
<1>4. CASE UNCHANGED Timing!vars
  BY <1>3, <1>4
  DEF Timing!vars, Timing!tracker, TimingInv, Books, ReportedInTime, AnswersInTime, Failing,
      Remaining, Cycle, Timing!Delay, Timing!InUse
<1> QED
  BY <1>2, <1>3, <1>4, LanFailsKeeps, LanReturnsKeeps, TickKeeps, AnswerKeeps,
     FailureKeeps, WindowKeeps
  DEF Timing!Next

\* If two routers at least are loaded, a fault of the LAN never raises the issue of a single
\* router, whatever the intervals, the phases of the polls and the order of recovery, as
\* long as the intervals are comparable.  With one router the tracker raises its own issue.
THEOREM OneFaultOneIssue ==
  ASSUME \E r, s \in Routers : r # s
  PROVE  Timing!Spec => []OneCauseOneIssue
<1>1. Timing!Init => Timing!TypeOK /\ TimingSafe
  BY TimingTypeInit, TimingInvInit DEF TimingSafe
<1>2. Timing!TypeOK /\ TimingSafe /\ [Timing!Next]_(Timing!vars)
        => Timing!TypeOK' /\ TimingSafe'
  BY TimingTypeStep, TimingSafeStep
<1>3. Timing!TypeOK /\ TimingSafe => OneCauseOneIssue
  BY DEF TimingSafe, TimingInv, Books, OneCauseOneIssue, Timing!OneCauseOneIssue
<1> QED
  BY <1>1, <1>2, <1>3, PTL DEF Timing!Spec
================================================================================
