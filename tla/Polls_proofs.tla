------------------------------ MODULE Polls_proofs ------------------------------
(***************************************************************************)
(* Proofs about the polls of one coordinator, for every value of the         *)
(* constants: its schedule, the router log, the client stability and the     *)
(* memory watch.                                                             *)
(***************************************************************************)
EXTENDS MCPolls, FiniteSetTheorems, SequenceTheorems, TLAPS

--------------------------------------------------------------------------------
(* The schedule: PollingGoesOn for any number of polls at a time and of update  *)
(* checks.  TypeOK strengthens it: the handle of a timer is dropped when the    *)
(* timer fires, so a handle that is set is an armed timer.                      *)

ScheduleInv == TypeOK /\ PollingGoesOn

\* A poll that begins is one under way: it carries a result, which Idle is none of.
LEMMA BegunIsUnderWay ==
  ASSUME TypeOK, NEW s \in Slots, Begins(s)
  PROVE  /\ poll' \in [Slots -> 0..Idle]
         /\ poll'[s] # Idle
         /\ handle' = "none"
BY ChecksAssumption DEF TypeOK, Begins, Idle

LEMMA InitSchedule == Init => ScheduleInv
<1> SUFFICES ASSUME Init PROVE ScheduleInv
  OBVIOUS
<1>1. stagger \in BOOLEAN /\ waiting \in BOOLEAN /\ checking \in BOOLEAN
  BY Zenon DEF Init
<1>2. poll \in [Slots -> 0..Idle] /\ packages \in 0..MaxChecks /\ data \in 0..MaxChecks
  BY ChecksAssumption DEF Init, Idle
<1> QED
  BY <1>1, <1>2 DEF Init, ScheduleInv, TypeOK, PollingGoesOn

LEMMA NextSchedule == ScheduleInv /\ [Next]_vars => ScheduleInv'
<1> SUFFICES ASSUME TypeOK, PollingGoesOn, [Next]_vars PROVE TypeOK' /\ PollingGoesOn'
  BY DEF ScheduleInv
<1>1. ASSUME NEW s \in Slots, TimerFires(s) PROVE TypeOK' /\ PollingGoesOn'
  BY <1>1, BegunIsUnderWay DEF TimerFires, TypeOK, PollingGoesOn
<1>2. ASSUME NEW s \in Slots, DelayEnds(s) PROVE TypeOK' /\ PollingGoesOn'
  <2>1. CASE handle # "none"
    BY <1>2, <2>1 DEF DelayEnds, TypeOK, PollingGoesOn
  <2>2. CASE handle = "none"
    <3>1. Begins(s)
      BY <1>2, <2>2 DEF DelayEnds
    <3> QED BY <1>2, <3>1, BegunIsUnderWay DEF DelayEnds, TypeOK, PollingGoesOn
  <2> QED BY <2>1, <2>2
<1>3. ASSUME NEW s \in Slots, Request(s) PROVE TypeOK' /\ PollingGoesOn'
  BY <1>3, BegunIsUnderWay DEF Request, TypeOK, PollingGoesOn
<1>4. ASSUME NEW s \in Slots, PollSucceeds(s) PROVE TypeOK' /\ PollingGoesOn'
  BY <1>4, ChecksAssumption DEF PollSucceeds, TypeOK, PollingGoesOn, Idle
<1>5. ASSUME NEW s \in Slots, PollFails(s) PROVE TypeOK' /\ PollingGoesOn'
  BY <1>5, ChecksAssumption DEF PollFails, TypeOK, PollingGoesOn, Idle
<1>6. CASE Delay
  BY <1>6 DEF Delay, TypeOK, PollingGoesOn
<1>7. CASE Press
  BY <1>7 DEF Press, TypeOK, PollingGoesOn
<1>8. CASE CheckSucceeds
  <2>1. packages' \in 0..MaxChecks /\ data' \in 0..MaxChecks
    BY <1>8, ChecksAssumption DEF CheckSucceeds, TypeOK
  <2>2. stagger' \in BOOLEAN /\ waiting' \in BOOLEAN /\ checking' \in BOOLEAN
    BY <1>8, Zenon DEF CheckSucceeds, TypeOK
  <2> QED BY <1>8, <2>1, <2>2 DEF CheckSucceeds, TypeOK, PollingGoesOn
<1>9. CASE CheckFails
  BY <1>9 DEF CheckFails, TypeOK, PollingGoesOn
<1>10. CASE UNCHANGED vars
  BY <1>10 DEF vars, TypeOK, PollingGoesOn
<1> QED
  BY <1>1, <1>2, <1>3, <1>4, <1>5, <1>6, <1>7, <1>8, <1>9, <1>10 DEF Next

LEMMA ScheduleInvariant == Spec => []ScheduleInv
BY InitSchedule, NextSchedule, PTL DEF Spec

\* Every state has the declared types; the handle of a fired timer is never kept.
THEOREM ScheduleTypes == Spec => []TypeOK
<1>1. ScheduleInv => TypeOK
  BY DEF ScheduleInv
<1> QED BY <1>1, ScheduleInvariant, PTL

\* The refresh cycle never stops: whenever there is neither a poll nor the stagger delay,
\* a timer is armed (_handle_refresh_interval).
THEOREM PollingNeverStops == Spec => []PollingGoesOn
<1>1. ScheduleInv => PollingGoesOn
  BY DEF ScheduleInv
<1> QED BY <1>1, ScheduleInvariant, PTL

--------------------------------------------------------------------------------
(* The client stability: UsteerHasItsTurn for every two intervals, StickyIsHeld *)
(* for every hold time.                                                         *)

Statuses == {"pending", "not_available", "ok"}

\* usteer would have been due at the last poll, or was due at an earlier one.
Behind == lastUsteer = -1 \/ stabilityCount - lastUsteer >= Stability!UsteerInterval
Late == lastUsteer = -1 \/ stabilityCount - lastUsteer > Stability!UsteerInterval

StabilityTypes ==
  /\ stabilityCount \in Nat /\ calm \in 0..stabilityCount
  /\ {lastLog, lastUsteer} \subseteq {-1} \cup 0..stabilityCount
  /\ usteer \in Statuses

\* At a calm poll usteer is passed over for the log alone, and never twice in a row.
TurnsAreTaken ==
  /\ calm > 0 /\ stabilityCount > 1 /\ Behind => lastLog = stabilityCount
  /\ calm > 1 /\ stabilityCount > 2 => ~Late

TurnsInv == StabilityTypes /\ TurnsAreTaken

\* A client is a candidate since a fetch that has found it, as all later ones have.
HeldSinceFetch ==
  /\ stabilityCount \in Nat /\ candidate \in BOOLEAN
  /\ fetches \in Seq([at : 0..stabilityCount, found : BOOLEAN])
  /\ since \in {-1} \cup Nat /\ (since # -1 <=> candidate)
  /\ candidate =>
       /\ \E i \in DOMAIN fetches : fetches[i].at = since /\ fetches[i].found
       /\ \A i \in DOMAIN fetches : fetches[i].at >= since => fetches[i].found

LEMMA StabilityFacts ==
  /\ Interval \in Nat \ {0, 1} /\ Retry \in Nat \ {0} /\ StickyHold \in Nat
  /\ Stability!UsteerInterval \in Nat \ {0}
BY PollAssumptions DEF Stability!StabilityAssumptions, Stability!UsteerInterval

\* What a poll does to the schedules of the log and of usteer.
LEMMA PollSchedules ==
  ASSUME Stability!Poll
  PROVE  \E change \in BOOLEAN :
           /\ stabilityCount' = stabilityCount + 1
           /\ lastLog' = IF Stability!ReadsLog(change) THEN stabilityCount + 1 ELSE lastLog
           /\ calm' = IF change THEN 0 ELSE calm + 1
           /\ IF Stability!UsteerDue(change)
              THEN lastUsteer' = stabilityCount + 1
                   /\ usteer' \in {usteer, "not_available", "ok"}
              ELSE UNCHANGED <<lastUsteer, usteer>>
BY DEF Stability!Poll, Stability!FetchUsteer

LEMMA NoDistance == \A a, b \in Nat : a = b => a - b = 0
OBVIOUS

LEMMA InitTurns == Stability!Init => TurnsInv
BY DEF Stability!Init, TurnsInv, StabilityTypes, TurnsAreTaken, Behind, Late, Statuses

LEMMA NextTurns == TurnsInv /\ [Stability!Next]_(Stability!vars) => TurnsInv'
<1> SUFFICES ASSUME StabilityTypes, TurnsAreTaken, [Stability!Next]_(Stability!vars)
             PROVE  StabilityTypes' /\ TurnsAreTaken'
  BY DEF TurnsInv
<1> USE StabilityFacts
<1>1. CASE Stability!Poll
  <2>1. PICK change \in BOOLEAN :
          /\ stabilityCount' = stabilityCount + 1
          /\ lastLog' = IF Stability!ReadsLog(change) THEN stabilityCount + 1 ELSE lastLog
          /\ calm' = IF change THEN 0 ELSE calm + 1
          /\ IF Stability!UsteerDue(change)
             THEN lastUsteer' = stabilityCount + 1
                  /\ usteer' \in {usteer, "not_available", "ok"}
             ELSE UNCHANGED <<lastUsteer, usteer>>
    BY <1>1, PollSchedules
  <2>2. StabilityTypes'
    BY <2>1 DEF StabilityTypes, Statuses
  <2>3. CASE change
    <3>1. calm' = 0
      BY <2>1, <2>3, Zenon
    <3> QED BY <2>2, <3>1 DEF TurnsAreTaken
  <2>4. CASE ~change /\ Stability!UsteerDue(change)
    <3>1. lastUsteer' = stabilityCount'
      BY <2>1, <2>4
    <3>2. stabilityCount' \in Nat
      BY <2>2 DEF StabilityTypes
    <3>3. lastUsteer' \in Nat /\ Stability!UsteerInterval' \in Nat \ {0}
      BY <3>1, <3>2 DEF Stability!UsteerInterval
    <3>4. ~Behind' /\ ~Late'
      <4>1. stabilityCount' - lastUsteer' = 0
        BY <3>1, <3>2, <3>3, NoDistance
      <4> QED BY <3>3, <4>1 DEF Behind, Late
    <3> QED BY <2>2, <3>4 DEF TurnsAreTaken
  <2>5. CASE ~change /\ ~Stability!UsteerDue(change)
    <3>1. /\ lastUsteer' = lastUsteer /\ usteer' = usteer
          /\ Stability!UsteerInterval' = Stability!UsteerInterval
      BY <2>1, <2>5 DEF Stability!UsteerInterval
    <3>2. ASSUME stabilityCount' > 1, Behind' PROVE Stability!ReadsLog(change)
      BY <2>1, <2>5, <3>1, <3>2 DEF Stability!UsteerDue, Behind, StabilityTypes
    <3>3. ASSUME calm' > 1, stabilityCount' > 2 PROVE ~Late'
      <4> SUFFICES ASSUME Late' PROVE FALSE
        OBVIOUS
      <4>1. Behind /\ calm > 0 /\ stabilityCount > 1
        BY <2>1, <2>5, <3>1, <3>3 DEF Behind, Late, StabilityTypes
      <4>2. lastLog = stabilityCount
        BY <4>1 DEF TurnsAreTaken
      <4>3. ~Stability!ReadsLog(change)
        <5>1. ~Stability!LogDue
          BY <4>1, <4>2 DEF Stability!LogDue, StabilityTypes
        <5> QED BY <2>5, <5>1, Zenon DEF Stability!ReadsLog
      <4>4. Behind' /\ stabilityCount' > 1
        BY <2>1, <3>1, <3>3 DEF Behind, Late, StabilityTypes
      <4> QED BY <3>2, <4>3, <4>4
    <3> QED BY <2>1, <2>2, <3>2, <3>3 DEF TurnsAreTaken
  <2> QED BY <2>2, <2>3, <2>4, <2>5
<1>2. CASE Stability!PollFails
  BY <1>2 DEF Stability!PollFails, StabilityTypes, TurnsAreTaken
<1>3. CASE UNCHANGED Stability!vars
  BY <1>3 DEF Stability!vars, StabilityTypes, TurnsAreTaken, Behind, Late,
              Stability!UsteerInterval
<1> QED BY <1>1, <1>2, <1>3 DEF Stability!Next

\* However the channel changes and polls that fail shift the reads of the log, usteer is
\* asked again at most one poll late once things are calm (coordinator.py, _async_poll).
THEOREM UsteerComesToItsTurn == Stability!Spec => []UsteerHasItsTurn
<1>1. TurnsInv => UsteerHasItsTurn
  BY StabilityFacts DEF TurnsInv, StabilityTypes, TurnsAreTaken, Late, UsteerHasItsTurn,
                        Stability!UsteerHasItsTurn
<1> QED BY <1>1, InitTurns, NextTurns, PTL DEF Stability!Spec

\* What a fetch leaves: it is the last of fetches, later than those before.
LEMMA FetchIsAppended ==
  ASSUME HeldSinceFetch, NEW found \in BOOLEAN,
         fetches' = Append(fetches, [at |-> stabilityCount + 1, found |-> found])
  PROVE  /\ fetches' \in Seq([at : 0..(stabilityCount + 1), found : BOOLEAN])
         /\ DOMAIN fetches' = DOMAIN fetches \cup {Len(fetches) + 1}
         /\ \A i \in DOMAIN fetches : /\ fetches'[i] = fetches[i]
                                      /\ fetches[i].at \in 0..stabilityCount
         /\ fetches'[Len(fetches) + 1] = [at |-> stabilityCount + 1, found |-> found]
<1> DEFINE Fetch1 == [at : 0..(stabilityCount + 1), found : BOOLEAN]
           last1 == [at |-> stabilityCount + 1, found |-> found]
<1>1. fetches \in Seq([at : 0..stabilityCount, found : BOOLEAN]) /\ stabilityCount \in Nat
  BY DEF HeldSinceFetch
<1>2. [at : 0..stabilityCount, found : BOOLEAN] \subseteq Fetch1 /\ last1 \in Fetch1
  BY <1>1
<1>3. fetches \in Seq(Fetch1)
  BY <1>1, <1>2, SeqMonotonic
<1>4. /\ fetches' \in Seq(Fetch1) /\ Len(fetches') = Len(fetches) + 1
      /\ \A i \in 1..Len(fetches) : fetches'[i] = fetches[i]
      /\ fetches'[Len(fetches) + 1] = last1
  BY <1>2, <1>3, AppendProperties
<1>5. DOMAIN fetches' = 1..(Len(fetches) + 1) /\ DOMAIN fetches = 1..Len(fetches)
      /\ Len(fetches) \in Nat
  BY <1>1, <1>4, LenProperties
<1>6. \A i \in DOMAIN fetches : fetches[i] \in [at : 0..stabilityCount, found : BOOLEAN]
  BY <1>1, <1>5, ElementOfSeq
<1> QED BY <1>4, <1>5, <1>6

LEMMA InitHeld == Stability!Init => HeldSinceFetch
<1> SUFFICES ASSUME Stability!Init PROVE HeldSinceFetch
  OBVIOUS
<1>1. ~candidate /\ candidate \in BOOLEAN
  BY Zenon DEF Stability!Init
<1> QED BY <1>1, EmptySeq DEF Stability!Init, HeldSinceFetch

LEMMA NextHeld == HeldSinceFetch /\ [Stability!Next]_(Stability!vars) => HeldSinceFetch'
<1> SUFFICES ASSUME HeldSinceFetch, [Stability!Next]_(Stability!vars)
             PROVE  HeldSinceFetch'
  OBVIOUS
<1>1. ASSUME NEW result \in {"sticky", "fine", "none", "failed"},
             stabilityCount' = stabilityCount + 1, Stability!FetchUsteer(result)
      PROVE  HeldSinceFetch'
  <2> DEFINE found == result = "sticky"
  <2>1. /\ found \in BOOLEAN
        /\ fetches' = Append(fetches, [at |-> stabilityCount + 1, found |-> found])
    BY <1>1 DEF Stability!FetchUsteer
  <2>2. /\ fetches' \in Seq([at : 0..(stabilityCount + 1), found : BOOLEAN])
        /\ DOMAIN fetches' = DOMAIN fetches \cup {Len(fetches) + 1}
        /\ \A i \in DOMAIN fetches : /\ fetches'[i] = fetches[i]
                                     /\ fetches[i].at \in 0..stabilityCount
        /\ fetches'[Len(fetches) + 1] = [at |-> stabilityCount + 1, found |-> found]
    BY <2>1, FetchIsAppended
  <2>3. candidate' = found
    BY <1>1 DEF Stability!FetchUsteer, Stability!Keeps
  <2>4. since' = IF ~found THEN -1 ELSE IF since = -1 THEN stabilityCount + 1 ELSE since
    BY <1>1 DEF Stability!FetchUsteer, Stability!Keeps
  <2>5. CASE ~found
    <3>1. since' = -1 /\ ~candidate' /\ candidate' \in BOOLEAN
      BY <2>3, <2>4, <2>5
    <3> QED BY <1>1, <2>2, <3>1 DEF HeldSinceFetch
  <2>6. CASE found /\ since = -1
    <3>1. since' = stabilityCount + 1 /\ candidate' /\ candidate' \in BOOLEAN
      BY <2>3, <2>4, <2>6
    <3>2. since' \in Nat
      BY <3>1 DEF HeldSinceFetch
    <3>3. ASSUME NEW i \in DOMAIN fetches', fetches'[i].at >= since' PROVE fetches'[i].found
      BY <2>2, <2>6, <3>1, <3>3 DEF HeldSinceFetch
    <3>4. fetches'[Len(fetches) + 1].at = since' /\ fetches'[Len(fetches) + 1].found
      <4>1. PICK x : x = [at |-> stabilityCount + 1, found |-> found]
        OBVIOUS
      <4>2. x.at = stabilityCount + 1 /\ x.found = found
        BY <4>1
      <4>3. fetches'[Len(fetches) + 1] = x
        BY <2>2, <4>1
      <4> QED BY <2>6, <3>1, <4>2, <4>3
    <3> QED BY <1>1, <2>2, <3>1, <3>2, <3>3, <3>4 DEF HeldSinceFetch
  <2>7. CASE found /\ since # -1
    <3>1. since' = since /\ candidate' /\ candidate' \in BOOLEAN /\ candidate
      BY <2>3, <2>4, <2>7 DEF HeldSinceFetch
    <3>2. ASSUME NEW i \in DOMAIN fetches', fetches'[i].at >= since' PROVE fetches'[i].found
      BY <2>2, <2>7, <3>1, <3>2 DEF HeldSinceFetch
    <3>3. PICK i \in DOMAIN fetches : fetches[i].at = since /\ fetches[i].found
      BY <3>1 DEF HeldSinceFetch
    <3>4. i \in DOMAIN fetches' /\ fetches'[i].at = since' /\ fetches'[i].found
      BY <2>2, <3>1, <3>3
    <3>5. since' \in Nat /\ since' # -1
      BY <2>7, <3>1 DEF HeldSinceFetch
    <3> QED BY <1>1, <2>2, <3>1, <3>2, <3>4, <3>5 DEF HeldSinceFetch
  <2> QED BY <2>5, <2>6, <2>7
<1>2. ASSUME stabilityCount' \in {stabilityCount, stabilityCount + 1},
             UNCHANGED <<candidate, since, fetches>>
      PROVE  HeldSinceFetch'
  <2>1. stabilityCount' \in Nat /\ 0..stabilityCount \subseteq 0..stabilityCount'
    BY <1>2 DEF HeldSinceFetch
  <2>2. fetches' \in Seq([at : 0..stabilityCount', found : BOOLEAN])
    <3>1. [at : 0..stabilityCount, found : BOOLEAN]
            \subseteq [at : 0..stabilityCount', found : BOOLEAN]
      BY <2>1
    <3> QED BY <1>2, <3>1, SeqMonotonic DEF HeldSinceFetch
  <2> QED BY <1>2, <2>1, <2>2 DEF HeldSinceFetch
<1>3. CASE Stability!Poll
  BY <1>1, <1>2, <1>3 DEF Stability!Poll
<1>4. CASE Stability!PollFails
  BY <1>2, <1>4 DEF Stability!PollFails
<1>5. CASE UNCHANGED Stability!vars
  BY <1>2, <1>5 DEF Stability!vars
<1> QED BY <1>3, <1>4, <1>5 DEF Stability!Next

\* A poll that shows the client sticky has it a candidate for the hold time.
LEMMA ShownIsHeld ==
  ASSUME HeldSinceFetch, HeldSinceFetch', calm' > 0, shown',
         [Stability!Next]_(Stability!vars), ~UNCHANGED Stability!vars
  PROVE  candidate' /\ since' # -1 /\ stabilityCount' - since' >= StickyHold
<1>1. CASE Stability!Poll
  <2>1. PICK connected \in BOOLEAN :
          shown' = (/\ connected /\ candidate' /\ since' # -1
                    /\ stabilityCount + 1 - since' >= StickyHold)
    BY <1>1, Zenon DEF Stability!Poll
  <2>2. stabilityCount' = stabilityCount + 1
    BY <1>1 DEF Stability!Poll
  <2>3. candidate' /\ since' # -1 /\ stabilityCount + 1 - since' >= StickyHold
    BY <2>1, Zenon
  <2> QED BY <2>2, <2>3 DEF HeldSinceFetch
<1>2. CASE Stability!PollFails
  BY <1>2 DEF Stability!PollFails
<1> QED BY <1>1, <1>2 DEF Stability!Next

LEMMA SinceHold ==
  \A n, t, hold \in Nat :
    n - t >= hold => t <= n - hold /\ \A u \in Nat : u >= n - hold => u >= t
OBVIOUS

\* Nothing stale stays sticky: however polls fail or leave usteer out, a poll shows a
\* client as sticky only after the hold time in which each fetch has found it so, a
\* fetch at its start among them (_fetch_usteer, _client_stability_snapshot).
THEOREM StickyOnlyAfterHold == Stability!Spec => StickyIsHeld
<1>1. ASSUME HeldSinceFetch, HeldSinceFetch', calm' > 0, shown',
             [Stability!Next]_(Stability!vars), ~UNCHANGED Stability!vars
      PROVE  /\ \E i \in DOMAIN fetches' :
                  fetches'[i].at <= stabilityCount' - StickyHold /\ fetches'[i].found
             /\ \A i \in DOMAIN fetches' :
                  fetches'[i].at >= stabilityCount' - StickyHold => fetches'[i].found
  <2>1. candidate' /\ since' # -1 /\ stabilityCount' - since' >= StickyHold
    BY <1>1, ShownIsHeld
  <2>2. /\ stabilityCount' \in Nat /\ since' \in Nat
        /\ \A i \in DOMAIN fetches' : fetches'[i].at >= since' => fetches'[i].found
    BY <1>1, <2>1 DEF HeldSinceFetch
  <2>3. PICK i \in DOMAIN fetches' : fetches'[i].at = since' /\ fetches'[i].found
    BY <1>1, <2>1 DEF HeldSinceFetch
  <2>4. \A j \in DOMAIN fetches' : fetches'[j].at \in Nat
    <3>1. fetches' \in Seq([at : 0..stabilityCount', found : BOOLEAN])
      BY <1>1 DEF HeldSinceFetch
    <3>2. DOMAIN fetches' = 1..Len(fetches')
      BY <3>1, LenProperties
    <3>3. \A j \in 1..Len(fetches') : fetches'[j] \in [at : 0..stabilityCount', found : BOOLEAN]
      BY <3>1, ElementOfSeq
    <3> QED BY <2>2, <3>2, <3>3
  <2>5. fetches'[i].at <= stabilityCount' - StickyHold
    BY <2>1, <2>2, <2>3, StabilityFacts, SinceHold
  <2>6. \A j \in DOMAIN fetches' :
          fetches'[j].at >= stabilityCount' - StickyHold => fetches'[j].found
    BY <2>1, <2>2, <2>4, StabilityFacts, SinceHold
  <2> QED BY <2>3, <2>5, <2>6
<1>2. HeldSinceFetch /\ HeldSinceFetch' /\ [Stability!Next]_(Stability!vars) =>
        [calm' > 0 /\ shown' =>
           /\ \E i \in DOMAIN fetches' :
                fetches'[i].at <= stabilityCount' - StickyHold /\ fetches'[i].found
           /\ \A i \in DOMAIN fetches' :
                fetches'[i].at >= stabilityCount' - StickyHold =>
                  fetches'[i].found]_(Stability!vars)
  BY <1>1
<1> QED
  BY <1>2, InitHeld, NextHeld, PTL DEF Stability!Spec, StickyIsHeld, Stability!StickyIsHeld

--------------------------------------------------------------------------------
(* The memory watch: RaisedAfterHold for every hold time and all intervals.     *)

\* From the i-th on the readings are high and follow each other without a gap.
RunFrom(rs, i) ==
  \A j \in i..Len(rs) :
    /\ rs[j].high
    /\ j > i => rs[j].at - rs[j - 1].at <= 2 * rs[j].interval

Readings == [at : 0..MaxTime, high : BOOLEAN, interval : Intervals]

WatchTypes ==
  /\ now \in 0..MaxTime /\ memoryInterval \in Intervals /\ active \in BOOLEAN
  /\ lastCheck \in 0..now \cup {Memory!Absent} /\ highSince \in 0..now \cup {Memory!Absent}
  /\ readings \in Seq(Readings)

\* The earliest of the runs that reach to the last reading begins at this time, or
\* there is none.
EarliestRun(rs, time) ==
  IF time = Memory!Absent THEN \A i \in DOMAIN rs : ~RunFrom(rs, i)
  ELSE /\ \E i \in DOMAIN rs : rs[i].at = time /\ RunFrom(rs, i)
       /\ \A i \in DOMAIN rs : RunFrom(rs, i) => rs[i].at >= time

\* Before the issue is raised the coordinator knows the earliest run.
HighSinceRun ==
  ~active => /\ readings # <<>> => lastCheck = readings[Len(readings)].at
             /\ EarliestRun(readings, highSince)

WatchInv == WatchTypes /\ HighSinceRun

LEMMA WatchFacts ==
  /\ MemoryHold \in Nat /\ Intervals \in SUBSET Nat /\ MaxTime \in Nat
  /\ Memory!Absent = MaxTime + 1
  /\ \A a, b \in Nat : a <= b => Memory!Min({a, b}) = a /\ Memory!Min({b, a}) = a
<1>1. \A a, b \in Nat : a <= b => Memory!Min({a, b}) = a /\ Memory!Min({b, a}) = a
  BY DEF Memory!Min
<1> QED BY <1>1, PollAssumptions DEF Memory!WatchAssumptions, Memory!Absent

\* rs1 is rs with one more reading; what it does to the runs.
ReadingAdded(rs, last1, rs1) ==
  /\ rs1 \in Seq(Readings) /\ rs1 # rs /\ rs1 # <<>>
  /\ DOMAIN rs = 1..Len(rs) /\ Len(rs) \in Nat
  /\ DOMAIN rs1 = 1..Len(rs1) /\ Len(rs1) = Len(rs) + 1
  /\ \A i \in DOMAIN rs : rs1[i] = rs[i] /\ rs[i] \in Readings
  /\ rs1[Len(rs1)] = last1
  /\ RunFrom(rs1, Len(rs1)) <=> last1.high
  /\ \A i \in DOMAIN rs :
       RunFrom(rs1, i) <=> /\ RunFrom(rs, i) /\ last1.high
                           /\ last1.at - rs[Len(rs)].at <= 2 * last1.interval

LEMMA RunsAfterReading ==
  ASSUME NEW rs \in Seq(Readings), NEW last1 \in Readings,
         NEW rs1, rs1 = Append(rs, last1)
  PROVE  ReadingAdded(rs, last1, rs1)
<1>0. PICK n \in Nat : n = Len(rs)
  BY LenProperties
<1>1. /\ rs1 \in Seq(Readings) /\ Len(rs1) = n + 1 /\ rs1 # <<>>
      /\ \A i \in 1..n : rs1[i] = rs[i]
      /\ rs1[n + 1] = last1
  BY <1>0, AppendProperties
<1>2. DOMAIN rs = 1..n /\ DOMAIN rs1 = 1..(n + 1) /\ rs1 # rs
  BY <1>0, <1>1, LenProperties
<1>3. \A i \in 1..n : rs[i] \in Readings
  BY <1>0, ElementOfSeq
<1>4. RunFrom(rs1, n + 1) <=> last1.high
  <2>1. RunFrom(rs1, n + 1) <=> \A j \in (n + 1)..(n + 1) :
                                  /\ rs1[j].high
                                  /\ j > n + 1 => rs1[j].at - rs1[j - 1].at <= 2 * rs1[j].interval
    BY <1>1 DEF RunFrom
  <2>2. \A j : j \in (n + 1)..(n + 1) <=> j = n + 1
    OBVIOUS
  <2>3. ~(n + 1 > n + 1)
    OBVIOUS
  <2> QED BY <1>1, <2>1, <2>2, <2>3
<1>5. ASSUME NEW i \in 1..n
      PROVE  RunFrom(rs1, i) <=> /\ RunFrom(rs, i) /\ last1.high
                                 /\ last1.at - rs[n].at <= 2 * last1.interval
  <2> DEFINE Fits(r, j) == /\ r[j].high
                           /\ j > i => r[j].at - r[j - 1].at <= 2 * r[j].interval
  <2>1. RunFrom(rs1, i) <=> \A j \in i..(n + 1) : Fits(rs1, j)
    BY <1>1 DEF RunFrom
  <2>2. RunFrom(rs, i) <=> \A j \in i..n : Fits(rs, j)
    BY <1>0 DEF RunFrom
  <2>3. \A j \in i..n : Fits(rs1, j) <=> Fits(rs, j)
    <3> SUFFICES ASSUME NEW j \in i..n PROVE Fits(rs1, j) <=> Fits(rs, j)
      OBVIOUS
    <3>1. j \in 1..n /\ rs1[j] = rs[j]
      BY <1>1, <1>2
    <3>2. j > i => j - 1 \in 1..n /\ rs1[j - 1] = rs[j - 1]
      BY <1>1, <1>2
    <3> QED BY <3>1, <3>2
  <2>4. Fits(rs1, n + 1) <=> /\ last1.high
                             /\ last1.at - rs[n].at <= 2 * last1.interval
    <3>1. n + 1 > i /\ (n + 1) - 1 = n /\ rs1[n] = rs[n]
      BY <1>1, <1>2
    <3> QED BY <1>1, <3>1
  <2>5. i..(n + 1) = i..n \cup {n + 1}
    BY <1>2
  <2> HIDE DEF Fits
  <2> QED BY <2>1, <2>2, <2>3, <2>4, <2>5
<1> QED BY <1>0, <1>1, <1>2, <1>3, <1>4, <1>5 DEF ReadingAdded

LEMMA Same == \A t \in Nat : \A u : u = t => t <= u /\ u >= t
OBVIOUS

\* A reading before the issue is raised: HeldSince is the earliest run with it.
LEMMA HeldSinceIsEarliest ==
  ASSUME WatchTypes, HighSinceRun, ~active, NEW level \in Memory!Levels, Memory!Check(level)
  PROVE  /\ readings' \in Seq(Readings) /\ readings' # readings /\ readings' # <<>>
         /\ readings'[Len(readings')].at = now
         /\ Memory!HeldSince(level) \in 0..now \cup {Memory!Absent}
         /\ level # "high" <=> Memory!HeldSince(level) = Memory!Absent
         /\ EarliestRun(readings', Memory!HeldSince(level))
<1> DEFINE reading == [at |-> now, high |-> level = "high", interval |-> memoryInterval]
           n == Len(readings)
<1> USE WatchFacts
<1>1. readings' = Append(readings, reading)
  BY Zenon DEF Memory!Check
<1>2. readings \in Seq(Readings) /\ reading \in Readings
  BY DEF WatchTypes, Readings
<1>3. /\ reading.at = now /\ reading.interval = memoryInterval
      /\ reading.high <=> level = "high"
  BY Zenon
<1> HIDE DEF reading
<1>4. /\ readings' \in Seq(Readings) /\ readings' # readings /\ readings' # <<>>
      /\ DOMAIN readings = 1..n /\ n \in Nat
      /\ DOMAIN readings' = 1..Len(readings') /\ Len(readings') = n + 1
      /\ \A i \in DOMAIN readings : readings'[i] = readings[i] /\ readings[i] \in Readings
      /\ readings'[Len(readings')] = reading
      /\ RunFrom(readings', Len(readings')) <=> reading.high
      /\ \A i \in DOMAIN readings :
           RunFrom(readings', i) <=> /\ RunFrom(readings, i) /\ reading.high
                                     /\ reading.at - readings[n].at <= 2 * reading.interval
  <2>1. ReadingAdded(readings, reading, readings')
    BY <1>1, <1>2, RunsAfterReading
  <2> QED BY <2>1, Zenon DEF ReadingAdded
<1> HIDE DEF n
<1>5. DOMAIN readings' = DOMAIN readings \cup {Len(readings')}
  BY <1>4
<1>6. now \in Nat /\ now # Memory!Absent /\ now <= Memory!Absent
  BY DEF WatchTypes
<1>7. readings'[Len(readings')].at = now /\ now <= readings'[Len(readings')].at
  BY <1>3, <1>4, <1>6, Same
<1>8. CASE level # "high"
  <2>1. Memory!HeldSince(level) = Memory!Absent
    BY <1>8 DEF Memory!HeldSince
  <2>2. \A i \in DOMAIN readings' : ~RunFrom(readings', i)
    BY <1>3, <1>4, <1>5, <1>8
  <2> QED BY <1>3, <1>4, <1>8, <2>1, <2>2 DEF EarliestRun
<1>9. CASE level = "high" /\ lastCheck # Memory!Absent /\ now - lastCheck > 2 * memoryInterval
  <2>1. Memory!HeldSince(level) = now
    BY <1>9 DEF Memory!HeldSince
  <2>2. ASSUME NEW i \in DOMAIN readings PROVE ~RunFrom(readings', i)
    <3>1. lastCheck = readings[n].at
      BY <1>4, <2>2 DEF HighSinceRun, n
    <3>2. lastCheck \in Int /\ memoryInterval \in Int
      BY <1>9 DEF WatchTypes
    <3> QED BY <1>3, <1>4, <1>6, <1>9, <2>2, <3>1, <3>2
  <2>3. RunFrom(readings', Len(readings')) /\ readings'[Len(readings')].at = now
    BY <1>3, <1>4, <1>9
  <2>4. EarliestRun(readings', now)
    <3>1. \A i \in DOMAIN readings' : RunFrom(readings', i) => readings'[i].at >= now
      BY <1>5, <1>7, <2>2, <2>3
    <3>2. \E i \in DOMAIN readings' : readings'[i].at = now /\ RunFrom(readings', i)
      BY <1>5, <2>3
    <3> QED BY <1>6, <3>1, <3>2 DEF EarliestRun
  <2> QED BY <1>4, <1>6, <1>9, <2>1, <2>3, <2>4
<1>10. CASE level = "high" /\ ~(lastCheck # Memory!Absent /\ now - lastCheck > 2 * memoryInterval)
  <2>1. Memory!HeldSince(level) = Memory!Min({highSince, now})
    BY <1>10 DEF Memory!HeldSince
  <2>2. RunFrom(readings', Len(readings')) /\ readings'[Len(readings')].at = now
    BY <1>3, <1>4, <1>10
  <2>3. ASSUME NEW i \in DOMAIN readings
        PROVE  (RunFrom(readings', i) <=> RunFrom(readings, i)) /\ readings'[i].at = readings[i].at
    <3>1. lastCheck = readings[n].at /\ n \in DOMAIN readings
      BY <1>4, <2>3 DEF HighSinceRun, n
    <3>2. lastCheck \in Nat /\ lastCheck # Memory!Absent
      BY <1>4, <3>1 DEF Readings
    <3>3. memoryInterval \in Int
      BY DEF WatchTypes
    <3> QED BY <1>3, <1>4, <1>6, <1>10, <2>3, <3>1, <3>2, <3>3
  <2>4. CASE highSince = Memory!Absent
    <3>1. Memory!HeldSince(level) = now
      BY <1>6, <2>1, <2>4
    <3>2. \A i \in DOMAIN readings : ~RunFrom(readings, i)
      BY <2>4 DEF HighSinceRun, EarliestRun
    <3>3. EarliestRun(readings', now)
      <4>1. \A i \in DOMAIN readings' : RunFrom(readings', i) => readings'[i].at >= now
        BY <1>5, <1>7, <2>2, <2>3, <3>2
      <4>2. \E i \in DOMAIN readings' : readings'[i].at = now /\ RunFrom(readings', i)
        BY <1>5, <2>2
      <4> QED BY <1>6, <4>1, <4>2 DEF EarliestRun
    <3> QED BY <1>4, <1>6, <1>10, <2>2, <3>1, <3>3
  <2>5. CASE highSince # Memory!Absent
    <3>1. highSince \in 0..now
      BY <2>5 DEF WatchTypes
    <3>2. Memory!HeldSince(level) = highSince
      BY <1>6, <2>1, <3>1
    <3>3. /\ \E i \in DOMAIN readings : readings[i].at = highSince /\ RunFrom(readings, i)
          /\ \A i \in DOMAIN readings : RunFrom(readings, i) => readings[i].at >= highSince
      BY <2>5 DEF HighSinceRun, EarliestRun
    <3>4. \E i \in DOMAIN readings' : readings'[i].at = highSince /\ RunFrom(readings', i)
      BY <1>5, <2>3, <3>3
    <3>5. \A i \in DOMAIN readings' : RunFrom(readings', i) => readings'[i].at >= highSince
      <4>1. readings'[Len(readings')].at >= highSince
        BY <1>6, <1>7, <3>1
      <4> QED BY <1>5, <2>2, <2>3, <3>3, <4>1
    <3>6. EarliestRun(readings', highSince)
      BY <2>5, <3>4, <3>5 DEF EarliestRun
    <3> QED BY <1>4, <1>10, <2>2, <2>5, <3>1, <3>2, <3>6
  <2> QED BY <2>4, <2>5
<1> QED BY <1>8, <1>9, <1>10

LEMMA InitWatch == Memory!Init => WatchInv
<1> SUFFICES ASSUME Memory!Init PROVE WatchInv
  OBVIOUS
<1>1. ~active /\ active \in BOOLEAN
  BY Zenon DEF Memory!Init
<1> QED
  BY <1>1, WatchFacts, EmptySeq
  DEF Memory!Init, WatchInv, WatchTypes, HighSinceRun, EarliestRun

\* A reading keeps the invariant, whether the issue is raised or not.
LEMMA CheckKeepsWatch ==
  ASSUME WatchInv, NEW level \in Memory!Levels, Memory!Check(level),
         memoryInterval' \in Intervals, now' = now
  PROVE  WatchInv'
<1> USE WatchFacts
<1>1. WatchTypes /\ HighSinceRun /\ lastCheck' = now
  BY DEF WatchInv, Memory!Check
<1>2. CASE ~active
  <2>1. /\ readings' \in Seq(Readings) /\ readings' # <<>>
        /\ readings'[Len(readings')].at = now
        /\ Memory!HeldSince(level) \in 0..now \cup {Memory!Absent}
        /\ EarliestRun(readings', Memory!HeldSince(level))
    BY <1>1, <1>2, HeldSinceIsEarliest
  <2>2. highSince' = Memory!HeldSince(level)
    BY <1>2 DEF Memory!Check
  <2>3. active' \in BOOLEAN
    BY <1>2, Zenon DEF Memory!Check
  <2>4. EarliestRun(readings', highSince')
    BY <2>1, <2>2
  <2>5. lastCheck' \in 0..now' \cup {Memory!Absent} /\ now' \in 0..MaxTime
    BY <1>1 DEF WatchTypes
  <2>6. highSince' \in 0..now' \cup {Memory!Absent}
    BY <2>1, <2>2
  <2>7. lastCheck' = readings'[Len(readings')].at
    BY <1>1, <2>1
  <2>8. WatchTypes'
    BY <2>1, <2>3, <2>5, <2>6 DEF WatchTypes, Memory!Absent
  <2> QED BY <2>4, <2>7, <2>8 DEF WatchInv, HighSinceRun
<1>3. CASE active
  <2>1. active' \in BOOLEAN /\ (active' <=> level # "normal")
    BY <1>3, Zenon DEF Memory!Check
  <2>2. /\ readings' = IF level = "normal" THEN <<>> ELSE readings
        /\ highSince' \in {highSince, Memory!Absent}
        /\ level = "normal" => highSince' = Memory!Absent
    BY <1>3 DEF Memory!Check
  <2>3. readings' \in Seq(Readings)
    BY <1>1, <2>2, EmptySeq DEF WatchTypes
  <2>4. WatchTypes'
    BY <1>1, <2>1, <2>2, <2>3 DEF WatchTypes, Memory!Absent
  <2>5. ASSUME ~active'
        PROVE  readings' = <<>> /\ EarliestRun(readings', highSince')
    <3>1. readings' = <<>> /\ highSince' = Memory!Absent
      BY <2>1, <2>2, <2>5
    <3>2. EarliestRun(<<>>, Memory!Absent)
      BY EmptySeq DEF EarliestRun
    <3> QED BY <3>1, <3>2
  <2> QED BY <2>4, <2>5 DEF WatchInv, HighSinceRun
<1> QED BY <1>2, <1>3

LEMMA NextWatch == WatchInv /\ [Memory!Next]_(Memory!vars) => WatchInv'
<1> SUFFICES ASSUME WatchInv, [Memory!Next]_(Memory!vars) PROVE WatchInv'
  OBVIOUS
<1> USE WatchFacts
<1>1. CASE Memory!Poll
  <2>1. PICK level \in Memory!Levels : Memory!Check(level)
    BY <1>1 DEF Memory!Poll
  <2>2. memoryInterval' \in Intervals /\ now' = now
    BY <1>1 DEF Memory!Poll
  <2> QED BY <2>1, <2>2, CheckKeepsWatch
<1>2. CASE Memory!Tick
  <2>1. now' \in 0..MaxTime /\ 0..now \subseteq 0..now'
    BY <1>2 DEF Memory!Tick, WatchInv, WatchTypes
  <2> QED
    BY <1>2, <2>1
    DEF Memory!Tick, WatchInv, WatchTypes, HighSinceRun, Memory!Absent
<1>3. CASE Memory!Reload
  <2>1. ~active' /\ active' \in BOOLEAN
    BY <1>3, Zenon DEF Memory!Reload
  <2> QED
    BY <1>3, <2>1, EmptySeq
    DEF Memory!Reload, WatchInv, WatchTypes, HighSinceRun, EarliestRun, Memory!Absent
<1>4. CASE UNCHANGED Memory!vars
  BY <1>4 DEF Memory!vars, WatchInv, WatchTypes, HighSinceRun, Memory!Absent
<1> QED BY <1>1, <1>2, <1>3, <1>4 DEF Memory!Next

\* The issue is raised with a reading exactly when its run spans the hold time.
LEMMA RaisedExactly ==
  ASSUME WatchInv, [Memory!Next]_(Memory!vars), ~UNCHANGED Memory!vars, ~active
  PROVE  active' <=> Memory!HeldHigh(readings') /\ readings' # readings
<1> USE WatchFacts
<1>1. CASE Memory!Poll
  <2>1. PICK level \in Memory!Levels : Memory!Check(level)
    BY <1>1 DEF Memory!Poll
  <2> DEFINE held == Memory!HeldSince(level)
  <2>2. /\ readings' \in Seq(Readings) /\ readings' # readings
        /\ readings'[Len(readings')].at = now
        /\ held \in 0..now \cup {Memory!Absent}
        /\ level # "high" <=> held = Memory!Absent
        /\ EarliestRun(readings', held)
    BY <2>1, HeldSinceIsEarliest DEF WatchInv
  <2>3. active' <=> level = "high" /\ now - held >= MemoryHold
    BY <2>1, Zenon DEF Memory!Check
  <2>4. now \in Nat /\ \A i \in DOMAIN readings' : readings'[i].at \in Nat
    <3>1. DOMAIN readings' = 1..Len(readings')
      BY <2>2, LenProperties
    <3>2. \A i \in 1..Len(readings') : readings'[i] \in Readings
      BY <2>2, ElementOfSeq
    <3> QED BY <3>1, <3>2 DEF Readings, WatchInv, WatchTypes
  <2>5. Memory!HeldHigh(readings') <=>
          \E i \in DOMAIN readings' :
            now - readings'[i].at >= MemoryHold /\ RunFrom(readings', i)
    BY <2>2 DEF Memory!HeldHigh, RunFrom
  <2> HIDE DEF held
  <2>6. CASE held = Memory!Absent
    BY <2>2, <2>3, <2>5, <2>6 DEF EarliestRun
  <2>7. CASE held # Memory!Absent
    <3>1. held \in Nat
      BY <2>2, <2>4, <2>7
    <3>2. PICK i \in DOMAIN readings' : readings'[i].at = held /\ RunFrom(readings', i)
      BY <2>2, <2>7 DEF EarliestRun
    <3>3. \A j \in DOMAIN readings' : RunFrom(readings', j) => readings'[j].at >= held
      BY <2>2, <2>7 DEF EarliestRun
    <3>4. ASSUME now - held >= MemoryHold PROVE Memory!HeldHigh(readings')
      BY <2>5, <3>2, <3>4
    <3>5. ASSUME Memory!HeldHigh(readings') PROVE now - held >= MemoryHold
      BY <2>4, <2>5, <3>1, <3>3, <3>5
    <3> QED BY <2>2, <2>3, <2>7, <3>4, <3>5
  <2> QED BY <2>6, <2>7
<1>2. CASE Memory!Tick
  BY <1>2 DEF Memory!Tick
<1>3. CASE Memory!Reload
  <2>1. ~active' /\ readings' = <<>>
    BY <1>3, Zenon DEF Memory!Reload
  <2>2. ~Memory!HeldHigh(<<>>)
    BY EmptySeq DEF Memory!HeldHigh
  <2> QED BY <2>1, <2>2
<1> QED BY <1>1, <1>2, <1>3 DEF Memory!Next

\* The RAM issue is raised at the reading that completes the hold time, however polls
\* fail, intervals change and entries are reloaded meanwhile; it is cleared by a normal
\* reading or with the entry (_check_memory_pressure).
THEOREM RaisedExactlyAfterHold == Memory!Spec => RaisedAfterHold
<1>1. ASSUME [Memory!Next]_(Memory!vars), active, ~active' PROVE readings' = <<>>
  <2>1. ASSUME NEW level \in Memory!Levels, Memory!Check(level) PROVE readings' = <<>>
    <3>1. active' <=> level # "normal"
      BY <1>1, <2>1, Zenon DEF Memory!Check
    <3> QED BY <1>1, <2>1, <3>1 DEF Memory!Check
  <2> QED
    BY <1>1, <2>1 DEF Memory!Next, Memory!Poll, Memory!Tick, Memory!Reload, Memory!vars
<1>2. WatchInv /\ [Memory!Next]_(Memory!vars) =>
        [/\ ~active => (active' <=> Memory!HeldHigh(readings') /\ readings' # readings)
         /\ active /\ ~active' => readings' = <<>>]_(Memory!vars)
  BY <1>1, RaisedExactly
<1> QED
  BY <1>2, InitWatch, NextWatch, PTL DEF Memory!Spec, RaisedAfterHold, Memory!RaisedAfterHold

--------------------------------------------------------------------------------
(* The router log: HandsOnOnce, NewLinesAreHandedOn and LinesAddUp for every    *)
(* ring and every size of the reads.                                            *)

LogTypes ==
  /\ boot \in 1..MaxBoots /\ top \in 0..MaxId /\ lines \in Nat
  /\ last \in Nat \X Nat /\ handed \in Seq(Nat \X Nat)
  /\ total \in [processed : Nat, missed : Nat, baseline : Nat]

\* The router counts the lines of a boot from 1.
WrittenSoFar ==
  /\ \A x \in written : /\ x[1] \in Nat /\ x[2] \in Nat
                        /\ x[1] < boot \/ (x[1] = boot /\ x[2] <= top)
  /\ \A i \in 1..top : <<boot, i>> \in written

\* The cursor is at the line handed on last, which the router has written.
CursorIsLast ==
  IF last = Log!None THEN /\ handed = <<>> /\ lines = Start
                          /\ total = [processed |-> 0, missed |-> 0, baseline |-> 0]
  ELSE /\ last[1] \in 1..boot /\ (last[1] = boot => last[2] <= top)
       /\ handed # <<>> /\ handed[Len(handed)] = last

LogInv == LogTypes /\ WrittenSoFar /\ CursorIsLast /\ LinesAddUp

LEMMA LogConstants ==
  {Ring, Start, Least, Most, Slack, MaxId} \subseteq Nat /\ MaxBoots \in Nat \ {0}
BY PollAssumptions DEF Log!LogAssumptions

LEMMA Pairs ==
  ASSUME NEW a \in Int, NEW b \in Int
  PROVE  /\ Log!Min({a, b}) = IF a <= b THEN a ELSE b
         /\ Log!Max({a, b}) = IF a <= b THEN b ELSE a
BY DEF Log!Min, Log!Max

LEMMA LinesFromTo ==
  ASSUME NEW a \in Int, NEW b \in Int
  PROVE  /\ a <= b => Log!Min(a..b) = a /\ Log!Max(a..b) = b
         /\ a <= b + 1 => Log!Cardinality(a..b) = b - a + 1
<1>1. ASSUME a <= b PROVE Log!Min(a..b) = a
  <2>1. a \in a..b /\ \A y \in a..b : a <= y
    BY <1>1
  <2> QED BY <2>1 DEF Log!Min
<1>2. ASSUME a <= b PROVE Log!Max(a..b) = b
  <2>1. b \in a..b /\ \A y \in a..b : b >= y
    BY <1>2
  <2> QED BY <2>1 DEF Log!Max
<1>3. ASSUME a <= b + 1 PROVE Log!Cardinality(a..b) = b - a + 1
  <2>1. \A S : Log!IsFiniteSet(S) = IsFiniteSet(S)
    BY DEF Log!IsFiniteSet, IsFiniteSet
  <2>2. Log!Cardinality(a..b) = Cardinality(a..b)
    BY <2>1 DEF Log!Cardinality, Cardinality
  <2> QED BY <1>3, <2>2, FS_Interval
<1> QED BY <1>1, <1>2, <1>3

\* The newest n lines are the last ones of the boot.
LEMMA NewestLines ==
  ASSUME NEW n \in Nat, top \in Nat, Log!Newest(n) # {}
  PROVE  \E lo \in 1..top : Log!Newest(n) = lo..top /\ top - lo + 1 <= n
<1>1. PICK m \in Nat : m = Log!Min({n, Ring}) /\ m <= n
  BY Pairs, LogConstants
<1>2. PICK lo \in Nat : lo = Log!Max({1, top - m + 1}) /\ lo >= 1 /\ lo >= top - m + 1
  <2>1. PICK k \in Int : k = top - m + 1
    OBVIOUS
  <2>2. Log!Max({1, k}) = IF 1 <= k THEN k ELSE 1
    BY Pairs
  <2> QED BY <2>1, <2>2
<1>3. Log!Newest(n) = lo..top
  BY <1>1, <1>2 DEF Log!Newest
<1>4. lo <= top
  BY <1>3
<1> QED BY <1>1, <1>2, <1>3, <1>4

\* The fresh lines of an answer: those from the f-th on.
FreshFrom(ids, f) ==
  /\ f \in 1..(top + 1) /\ Log!Fresh(ids) = f..top
  /\ Log!Baseline(ids) => f <= top /\ f = Log!Min(ids) /\ last[1] < boot
  /\ Log!Baseline(ids) \/ f > last[2]
  /\ f = top + 1 => last = <<boot, top>>
  /\ \A i \in ids : i >= f \/ (last[1] = boot /\ i <= last[2])

LEMMA CursorTypes ==
  ASSUME LogInv
  PROVE  /\ boot \in Nat \ {0} /\ boot \in 1..MaxBoots /\ top \in Nat /\ lines \in Nat
         /\ last \in Nat \X Nat /\ last[1] \in Nat /\ last[2] \in Nat
         /\ last[1] <= boot /\ (last[1] = boot => last[2] <= top)
<1>1. /\ boot \in Nat \ {0} /\ boot \in 1..MaxBoots /\ top \in Nat /\ lines \in Nat
      /\ last \in Nat \X Nat /\ last[1] \in Nat /\ last[2] \in Nat
  BY LogConstants DEF LogInv, LogTypes
<1>2. CASE last = Log!None
  BY <1>1, <1>2 DEF Log!None
<1>3. CASE last # Log!None
  BY <1>1, <1>3 DEF LogInv, CursorIsLast
<1> QED BY <1>1, <1>2, <1>3

LEMMA FreshLines ==
  ASSUME LogInv, NEW lo \in 1..top
  PROVE  \E f \in lo..(top + 1) : FreshFrom(lo..top, f)
<1> DEFINE ids == lo..top
<1>1. /\ boot \in Nat \ {0} /\ top \in Nat /\ last \in Nat \X Nat
      /\ last[1] \in Nat /\ last[2] \in Nat
      /\ last[1] <= boot /\ (last[1] = boot => last[2] <= top)
  BY CursorTypes
<1>2. lo \in Nat /\ lo >= 1 /\ lo <= top
  BY <1>1
<1>3. Log!Min(ids) = lo /\ Log!Max(ids) = top
  <2>1. lo \in Int /\ top \in Int
    BY <1>1, <1>2
  <2> QED BY <1>2, <2>1, LinesFromTo
<1>4. \A i : i \in ids <=> i \in Nat /\ lo <= i /\ i <= top
  BY <1>1, <1>2
<1>5. lo \in lo..(top + 1)
  BY <1>1, <1>2
<1> HIDE DEF ids
<1>6. CASE Log!Baseline(ids)
  <2>1. last[1] < boot
    <3>1. CASE last = Log!None
      BY <1>1, <3>1 DEF Log!None
    <3>2. CASE last # Log!None
      <4> SUFFICES ASSUME last[1] = boot PROVE FALSE
        BY <1>1
      <4>1. last[2] <= top /\ (lo <= last[2] => last[2] \in ids)
        BY <1>1, <1>4
      <4> QED BY <1>1, <1>2, <1>3, <1>6, <3>2, <4>1 DEF Log!Baseline, Log!Restarted
    <3> QED BY <3>1, <3>2
  <2>2. Log!Fresh(ids) = lo..top
    BY <1>6 DEF Log!Fresh, ids
  <2>3. FreshFrom(ids, lo)
    BY <1>1, <1>2, <1>3, <1>4, <1>6, <2>1, <2>2 DEF FreshFrom
  <2> QED BY <1>5, <2>3 DEF ids
<1>7. CASE ~Log!Baseline(ids)
  <2>1. last # Log!None /\ last[2] <= top /\ (lo <= last[2] => last[1] = boot)
    BY <1>1, <1>2, <1>3, <1>7 DEF Log!Baseline, Log!Restarted
  <2>2. Log!Fresh(ids) = {i \in ids : i > last[2]}
    BY <1>7 DEF Log!Fresh
  <2>3. CASE last[2] < lo
    <3>1. Log!Fresh(ids) = ids
      BY <1>1, <1>2, <1>4, <2>2, <2>3
    <3>2. FreshFrom(ids, lo)
      BY <1>1, <1>2, <1>4, <1>7, <2>3, <3>1 DEF FreshFrom, ids
    <3> QED BY <1>5, <3>2 DEF ids
  <2>4. CASE lo <= last[2]
    <3>1. Log!Fresh(ids) = (last[2] + 1)..top
      BY <1>1, <1>2, <1>4, <2>2, <2>4
    <3>2. last = <<last[1], last[2]>>
      BY <1>1
    <3>3. last[2] + 1 = top + 1 => last = <<boot, top>>
      BY <1>1, <2>1, <2>4, <3>2
    <3>4. FreshFrom(ids, last[2] + 1)
      BY <1>1, <1>2, <1>4, <1>7, <2>1, <2>4, <3>1, <3>3 DEF FreshFrom
    <3>5. last[2] + 1 \in lo..(top + 1)
      BY <1>1, <1>2, <2>1, <2>4
    <3> QED BY <3>4, <3>5 DEF ids
  <2> QED BY <1>1, <1>2, <2>3, <2>4
<1> QED BY <1>6, <1>7

\* hs1 is hs with the lines of boot b from the f-th on, k of them.
LinesAdded(hs, b, f, k, hs1) ==
  /\ hs1 \in Seq(Nat \X Nat) /\ Len(hs) \in Nat /\ Len(hs1) = Len(hs) + k
  /\ DOMAIN hs1 = 1..Len(hs1) /\ DOMAIN hs = 1..Len(hs)
  /\ \A i \in 1..Len(hs) : hs1[i] = hs[i]
  /\ \A i \in 1..k : hs1[Len(hs) + i] = <<b, f + i - 1>>

LEMMA LinesAreAdded ==
  ASSUME NEW hs \in Seq(Nat \X Nat), NEW b \in Nat, NEW f \in Nat, NEW k \in Nat,
         NEW hs1, hs1 = hs \o [i \in 1..k |-> <<b, f + i - 1>>]
  PROVE  LinesAdded(hs, b, f, k, hs1)
<1> DEFINE new == [i \in 1..k |-> <<b, f + i - 1>>]
<1>1. new \in Seq(Nat \X Nat) /\ Len(new) = k
  <2>1. new \in [1..k -> Nat \X Nat]
    OBVIOUS
  <2>2. new \in Seq(Nat \X Nat)
    BY <2>1, SeqDef
  <2>3. DOMAIN new = 1..k /\ DOMAIN new = 1..Len(new) /\ Len(new) \in Nat
    BY <2>2, LenProperties
  <2> QED BY <2>2, <2>3
<1>2. \A i \in 1..k : new[i] = <<b, f + i - 1>>
  OBVIOUS
<1> HIDE DEF new
<1>3. hs1 = hs \o new
  BY DEF new
<1>4. /\ hs1 \in Seq(Nat \X Nat) /\ Len(hs1) = Len(hs) + k
      /\ \A i \in 1..(Len(hs) + k) : hs1[i] = IF i <= Len(hs) THEN hs[i] ELSE new[i - Len(hs)]
  <2>1. /\ hs \o new \in Seq(Nat \X Nat) /\ Len(hs \o new) = Len(hs) + Len(new)
        /\ \A i \in 1..(Len(hs) + Len(new)) :
             (hs \o new)[i] = IF i <= Len(hs) THEN hs[i] ELSE new[i - Len(hs)]
    BY <1>1, ConcatProperties
  <2> QED BY <1>1, <1>3, <2>1
<1>5. Len(hs) \in Nat /\ DOMAIN hs1 = 1..Len(hs1) /\ DOMAIN hs = 1..Len(hs)
  BY <1>4, LenProperties
<1>6. \A i \in 1..Len(hs) : hs1[i] = hs[i]
  BY <1>4, <1>5
<1>7. \A i \in 1..k : hs1[Len(hs) + i] = <<b, f + i - 1>>
  BY <1>2, <1>4, <1>5
<1> QED BY <1>4, <1>5, <1>6, <1>7 DEF LinesAdded

\* What an answer that is not empty does.
ReadFrom(f) ==
  LET ids == Log!Newest(lines)
      k == top - f + 1
      missed == IF Log!Baseline(ids) \/ f > top THEN 0 ELSE f - last[2] - 1 IN
  /\ FreshFrom(ids, f) /\ k \in Nat /\ k <= lines /\ missed \in Nat
  /\ LinesAdded(handed, boot, f, k, handed')
  /\ last' = <<boot, top>> /\ lines' \in Nat
  /\ total' = [processed |-> total.processed + k, missed |-> total.missed + missed,
               baseline |-> total.baseline + IF Log!Baseline(ids) THEN k ELSE 0]

LEMMA NextReadSize ==
  ASSUME NEW ids, lines \in Nat, Log!Cardinality(Log!Fresh(ids)) \in Nat
  PROVE  Log!NextLines(ids) \in Nat
<1> DEFINE n == Log!Cardinality(Log!Fresh(ids))
<1>1. PICK size \in Nat : size = (3 * n) \div 2 + Slack
  BY LogConstants
<1>2. PICK low \in Nat : low = Log!Max({Least, size})
  <2>1. Least \in Int /\ size \in Int /\ Least \in Nat
    BY LogConstants
  <2>2. Log!Max({Least, size}) = IF Least <= size THEN size ELSE Least
    BY <2>1, Pairs
  <2> QED BY <2>1, <2>2
<1>3. Log!Min({Most, low}) \in Nat
  BY Pairs, LogConstants
<1>4. Log!Min({Most, Log!Max({Least, (3 * n) \div 2 + Slack})}) \in Nat
  BY <1>1, <1>2, <1>3
<1> QED BY <1>4, LogConstants DEF Log!NextLines

LEMMA ReadHandsOn ==
  ASSUME LogInv, Log!ReadLog, Log!Newest(lines) # {}
  PROVE  \E f \in 1..(top + 1) : ReadFrom(f)
<1> DEFINE ids == Log!Newest(lines)
           fresh == Log!Fresh(ids)
<1>1. /\ boot \in Nat \ {0} /\ top \in Nat /\ lines \in Nat
      /\ last[1] \in Nat /\ last[2] \in Nat
  BY CursorTypes
<1>2. PICK lo \in 1..top : ids = lo..top /\ top - lo + 1 <= lines
  BY <1>1, NewestLines
<1>3. lo \in Nat /\ 1 <= lo /\ lo <= top
  BY <1>1
<1>4. PICK f \in lo..(top + 1) : FreshFrom(lo..top, f)
  BY FreshLines
<1>5. PICK k \in Nat : k = top - f + 1 /\ k <= lines /\ f \in Nat /\ 1 <= f /\ f <= top + 1
  BY <1>1, <1>2, <1>3
<1>6. FreshFrom(ids, f) /\ fresh = f..top
  BY <1>2, <1>4 DEF FreshFrom
<1>7. Log!Max(ids) = top /\ Log!Cardinality(fresh) = k /\ (f <= top => Log!Min(fresh) = f)
  <2>1. lo \in Int /\ top \in Int /\ f \in Int
    BY <1>1, <1>3, <1>5
  <2>2. Log!Max(lo..top) = top
    BY <1>3, <2>1, LinesFromTo
  <2>3. Log!Cardinality(f..top) = top - f + 1
    BY <1>5, <2>1, LinesFromTo
  <2>4. f <= top => Log!Min(f..top) = f
    BY <2>1, LinesFromTo
  <2> QED BY <1>2, <1>5, <1>6, <2>2, <2>3, <2>4
<1>8. fresh = {} <=> f > top
  BY <1>1, <1>5, <1>6
<1> DEFINE missed == IF Log!Baseline(ids) \/ f > top THEN 0 ELSE f - last[2] - 1
<1>9. Log!Missed(ids) = missed /\ missed \in Nat
  <2>1. Log!Missed(ids) = missed
    BY <1>1, <1>5, <1>7, <1>8 DEF Log!Missed
  <2>2. Log!Baseline(ids) \/ f > last[2]
    BY <1>6 DEF FreshFrom
  <2> QED BY <1>1, <1>5, <2>1, <2>2
<1> HIDE DEF missed
<1>10. /\ handed' = handed \o [i \in 1..k |-> <<boot, Log!Min(fresh) + i - 1>>]
       /\ last' = <<boot, top>> /\ lines' = Log!NextLines(ids)
       /\ total' = [processed |-> total.processed + k, missed |-> total.missed + missed,
                    baseline |-> total.baseline + IF Log!Baseline(ids) THEN k ELSE 0]
  BY <1>7, <1>9 DEF Log!ReadLog
<1>11. handed' = handed \o [i \in 1..k |-> <<boot, f + i - 1>>]
  <2>1. ASSUME NEW i \in 1..k PROVE Log!Min(fresh) = f
    BY <1>1, <1>5, <1>7
  <2>2. [i \in 1..k |-> <<boot, Log!Min(fresh) + i - 1>>] = [i \in 1..k |-> <<boot, f + i - 1>>]
    BY <2>1
  <2> QED BY <1>10, <2>2
<1>12. LinesAdded(handed, boot, f, k, handed')
  BY <1>1, <1>5, <1>11, LinesAreAdded DEF LogInv, LogTypes
<1>13. lines' \in Nat
  BY <1>1, <1>5, <1>7, <1>10, NextReadSize
<1>14. ReadFrom(f)
  BY <1>5, <1>6, <1>9, <1>10, <1>12, <1>13 DEF ReadFrom, missed
<1> QED BY <1>1, <1>5, <1>14

\* After an answer the cursor is at the last line handed on.
LEMMA CursorAfterRead ==
  ASSUME LogInv, NEW f \in 1..(top + 1), ReadFrom(f), boot' = boot, top' = top
  PROVE  LogTypes' /\ CursorIsLast'
<1> DEFINE n == Len(handed)
           k == top - f + 1
<1>1. /\ boot \in Nat \ {0} /\ boot \in 1..MaxBoots /\ top \in Nat
      /\ last \in Nat \X Nat /\ f \in Nat /\ f <= top + 1
  BY CursorTypes
<1>2. /\ k \in Nat /\ last' = <<boot, top>> /\ lines' \in Nat
      /\ f = top + 1 => last = <<boot, top>>
      /\ total' \in [processed : Nat, missed : Nat, baseline : Nat]
  <2>1. /\ k \in Nat /\ last' = <<boot, top>> /\ lines' \in Nat
        /\ f = top + 1 => last = <<boot, top>>
    BY DEF ReadFrom, FreshFrom
  <2>2. total \in [processed : Nat, missed : Nat, baseline : Nat]
    BY DEF LogInv, LogTypes
  <2>3. total' \in [processed : Nat, missed : Nat, baseline : Nat]
    BY <2>2 DEF ReadFrom
  <2> QED BY <2>1, <2>3
<1>3. /\ handed' \in Seq(Nat \X Nat) /\ n \in Nat /\ Len(handed') = n + k
      /\ \A i \in 1..n : handed'[i] = handed[i]
      /\ \A i \in 1..k : handed'[n + i] = <<boot, f + i - 1>>
  BY DEF ReadFrom, LinesAdded
<1>4. LogTypes'
  BY <1>1, <1>2, <1>3 DEF LogInv, LogTypes
<1>5. last' # Log!None /\ last'[1] = boot /\ last'[2] = top
  BY <1>1, <1>2 DEF Log!None
<1>6. handed' # <<>> /\ handed'[Len(handed')] = last'
  <2>1. CASE f <= top
    <3>1. k \in 1..k /\ f + k - 1 = top /\ n + k > 0
      BY <1>1, <1>3, <2>1
    <3>2. handed'[n + k] = <<boot, top>>
      BY <1>3, <3>1
    <3> QED BY <1>2, <1>3, <3>1, <3>2, EmptySeq
  <2>2. CASE f > top
    <3>1. k = 0 /\ last = <<boot, top>>
      BY <1>1, <1>2, <2>2
    <3>2. last # Log!None
      BY <1>1, <3>1 DEF Log!None
    <3>3. handed # <<>> /\ handed[n] = last /\ handed \in Seq(Nat \X Nat)
      BY <3>2 DEF LogInv, LogTypes, CursorIsLast
    <3>4. n \in 1..n /\ Len(handed') = n
      BY <1>3, <3>1, <3>3, EmptySeq
    <3>5. handed'[n] = handed[n]
      BY <1>3, <3>4
    <3> QED BY <1>2, <1>3, <3>1, <3>3, <3>4, <3>5, EmptySeq
  <2> QED BY <1>1, <2>1, <2>2
<1> QED BY <1>1, <1>4, <1>5, <1>6 DEF CursorIsLast

\* In the first boot an answer counts every line it does not hand on.
LEMMA CountsAfterRead ==
  ASSUME LogInv, NEW f \in 1..(top + 1), ReadFrom(f), boot' = boot, boot = 1
  PROVE  LinesAddUp'
<1> DEFINE n == Len(handed)
           k == top - f + 1
           baseline == Log!Baseline(Log!Newest(lines))
           missed == IF baseline \/ f > top THEN 0 ELSE f - last[2] - 1
<1>1. /\ top \in Nat /\ last[1] \in Nat /\ last[2] \in Nat /\ last[1] <= boot
      /\ last \in Nat \X Nat /\ f \in Nat /\ 1 <= f /\ f <= top + 1 /\ lines \in Nat
  BY CursorTypes
<1>2. /\ k \in Nat /\ k <= lines /\ last' = <<boot, top>>
      /\ baseline => f <= top /\ last[1] < boot
      /\ baseline \/ f > last[2]
      /\ f = top + 1 => last = <<boot, top>>
      /\ total' = [processed |-> total.processed + k, missed |-> total.missed + missed,
                   baseline |-> total.baseline + IF baseline THEN k ELSE 0]
  BY DEF ReadFrom, FreshFrom
<1>3. /\ n \in Nat /\ Len(handed') = n + k
      /\ \A i \in 1..n : handed'[i] = handed[i]
      /\ \A i \in 1..k : handed'[n + i] = <<boot, f + i - 1>>
  BY DEF ReadFrom, LinesAdded
<1>4. /\ total.processed \in Nat /\ total.missed \in Nat /\ total.baseline \in Nat
      /\ handed \in Seq(Nat \X Nat)
  BY DEF LogInv, LogTypes
<1>5. last'[2] = top
  BY <1>2
<1> HIDE DEF baseline
<1>6. CASE last = Log!None
  <2>1. /\ handed = <<>> /\ lines = Start /\ n = 0
        /\ total = [processed |-> 0, missed |-> 0, baseline |-> 0]
    BY <1>6, EmptySeq DEF LogInv, CursorIsLast
  <2>2. last[2] = 0 /\ last[1] = 0
    BY <1>6 DEF Log!None
  <2>3. f <= top
    BY <1>1, <1>2, <2>2
  <2>4. handed'[1] = <<boot, f>> /\ 1 \in 1..k
    <3>1. 1 \in 1..k /\ n + 1 = 1 /\ f + 1 - 1 = f
      BY <1>1, <2>1, <2>3
    <3>2. handed'[n + 1] = <<boot, f + 1 - 1>>
      BY <1>3, <3>1
    <3> QED BY <3>1, <3>2
  <2>5. baseline
    BY <1>6 DEF baseline, Log!Baseline
  <2>6. total'.processed = k /\ total'.missed = 0 /\ total'.baseline = k
    BY <1>2, <2>1, <2>5
  <2>7. Len(handed') = k /\ handed'[1][2] = f
    BY <1>2, <1>3, <2>1, <2>4
  <2>8. top - f + 1 = k + 0 /\ k <= Start
    BY <1>2, <2>1
  <2> QED BY <1>5, <2>6, <2>7, <2>8 DEF LinesAddUp, Log!LinesAddUp
<1>7. CASE last # Log!None
  <2>1. /\ handed # <<>> /\ last[1] = boot /\ ~baseline /\ n > 0
    BY <1>1, <1>2, <1>4, <1>7, EmptySeq DEF LogInv, CursorIsLast
  <2>2. /\ total.processed = n
        /\ last[2] - handed[1][2] + 1 = total.processed + total.missed
        /\ total.baseline <= Start
    BY <2>1 DEF LogInv, LinesAddUp, Log!LinesAddUp
  <2>3. PICK h \in Nat : h = handed[1][2]
    <3>1. handed[1] \in Nat \X Nat
      BY <1>3, <1>4, <2>1, ElementOfSeq
    <3> QED BY <3>1
  <2>4. handed'[1][2] = h
    BY <1>3, <2>1, <2>3
  <2>5. /\ total'.processed = n + k /\ total'.missed = total.missed + missed
        /\ total'.baseline = total.baseline
    BY <1>2, <1>4, <2>1, <2>2
  <2>6. missed \in Nat /\ missed + k = top - last[2]
    <3>1. CASE f <= top
      BY <1>1, <1>2, <2>1, <3>1
    <3>2. CASE f > top
      <4>1. f = top + 1 /\ last[2] = top
        BY <1>1, <1>2, <3>2
      <4> QED BY <1>1, <3>2, <4>1
    <3> QED BY <1>1, <3>1, <3>2
  <2> HIDE DEF missed, k
  <2>7. top - h + 1 = (n + k) + (total.missed + missed)
    <3>1. k \in Nat
      BY <1>2 DEF k
    <3>2. last[2] - h + 1 = n + total.missed
      BY <2>2, <2>3
    <3>3. n \in Nat /\ last[2] \in Nat /\ top \in Nat /\ total.missed \in Nat
      BY <1>1, <1>3, <1>4
    <3>4. missed \in Nat /\ missed + k = top - last[2]
      BY <2>6 DEF missed, k
    <3> HIDE DEF n
    <3>5. (last[2] - h + 1) + (missed + k) = top - h + 1
      BY <3>1, <3>3, <3>4
    <3>6. (n + total.missed) + (missed + k) = (n + k) + (total.missed + missed)
      BY <3>1, <3>3, <3>4
    <3> QED BY <3>2, <3>5, <3>6
  <2> QED BY <1>3, <1>5, <2>2, <2>4, <2>5, <2>7 DEF LinesAddUp, Log!LinesAddUp
<1> QED BY <1>6, <1>7

LEMMA InitLog == Log!Init => LogInv
<1> SUFFICES ASSUME Log!Init PROVE LogInv
  OBVIOUS
<1>1. last = <<0, 0>> /\ last \in Nat \X Nat /\ handed \in Seq(Nat \X Nat)
  BY EmptySeq DEF Log!Init, Log!None
<1>2. LogTypes
  BY <1>1, LogConstants DEF Log!Init, LogTypes
<1> QED
  BY <1>2 DEF Log!Init, LogInv, WrittenSoFar, CursorIsLast, LinesAddUp, Log!LinesAddUp

LEMMA NextLog == LogInv /\ [Log!Next]_(Log!vars) => LogInv'
<1> SUFFICES ASSUME LogInv, [Log!Next]_(Log!vars) PROVE LogInv'
  OBVIOUS
<1>1. /\ boot \in Nat \ {0} /\ boot \in 1..MaxBoots /\ top \in Nat /\ lines \in Nat
      /\ last \in Nat \X Nat /\ last[1] \in Nat /\ last[2] \in Nat
      /\ last[1] <= boot /\ (last[1] = boot => last[2] <= top)
      /\ MaxBoots \in Nat /\ MaxId \in Nat /\ top <= MaxId
  BY CursorTypes, LogConstants DEF LogInv, LogTypes
<1>2. CASE Log!WriteLine
  <2>1. top' = top + 1 /\ top' \in 0..MaxId /\ boot' = boot
    BY <1>1, <1>2 DEF Log!WriteLine
  <2>2. WrittenSoFar'
    BY <1>1, <1>2, <2>1 DEF Log!WriteLine, LogInv, WrittenSoFar
  <2>3. CursorIsLast'
    BY <1>1, <1>2, <2>1 DEF Log!WriteLine, LogInv, CursorIsLast, Log!None
  <2> QED
    BY <1>2, <2>1, <2>2, <2>3 DEF Log!WriteLine, LogInv, LogTypes, LinesAddUp, Log!LinesAddUp
<1>3. CASE Log!Reboot
  <2>1. top' = 0 /\ boot' = boot + 1 /\ boot' \in 1..MaxBoots /\ boot' # 1 /\ 0 \in 0..MaxId
    BY <1>1, <1>3 DEF Log!Reboot
  <2>2. WrittenSoFar'
    BY <1>1, <1>3, <2>1 DEF Log!Reboot, LogInv, WrittenSoFar
  <2>3. CursorIsLast'
    BY <1>1, <1>3, <2>1 DEF Log!Reboot, LogInv, CursorIsLast, Log!None
  <2> QED
    BY <1>3, <2>1, <2>2, <2>3 DEF Log!Reboot, LogInv, LogTypes, LinesAddUp, Log!LinesAddUp
<1>4. ASSUME UNCHANGED <<boot, top, written, last, lines, total, handed>> PROVE LogInv'
  BY <1>4
  DEF LogInv, LogTypes, WrittenSoFar, CursorIsLast, LinesAddUp, Log!LinesAddUp, Log!None
<1>5. CASE Log!ReadLog
  <2>1. boot' = boot /\ top' = top /\ written' = written
    BY <1>5 DEF Log!ReadLog
  <2>2. CASE Log!Newest(lines) = {}
    BY <1>4, <1>5, <2>2 DEF Log!ReadLog
  <2>3. CASE Log!Newest(lines) # {}
    <3>1. PICK f \in 1..(top + 1) : ReadFrom(f)
      BY <1>5, <2>3, ReadHandsOn
    <3>2. LogTypes' /\ CursorIsLast'
      BY <2>1, <3>1, CursorAfterRead
    <3>3. boot = 1 => LinesAddUp'
      BY <2>1, <3>1, CountsAfterRead
    <3>4. boot # 1 => LinesAddUp'
      BY <2>1 DEF LinesAddUp, Log!LinesAddUp
    <3>5. WrittenSoFar'
      BY <2>1 DEF LogInv, WrittenSoFar
    <3> QED BY <3>2, <3>3, <3>4, <3>5 DEF LogInv
  <2> QED BY <2>2, <2>3
<1>6. CASE Log!ReadFails
  BY <1>4, <1>6 DEF Log!ReadFails
<1>7. CASE UNCHANGED Log!vars
  BY <1>4, <1>7 DEF Log!vars
<1> QED BY <1>2, <1>3, <1>5, <1>6, <1>7 DEF Log!Next

\* Up to the first reboot every line from the first one handed on is handed on or counted
\* as missed, whatever the ring overwrites and however reads fail (LogCursor.ingest).
THEOREM LinesAlwaysAddUp == Log!Spec => []LinesAddUp
<1>1. LogInv => LinesAddUp
  BY DEF LogInv
<1> QED BY <1>1, InitLog, NextLog, PTL DEF Log!Spec

LEMMA WriteIsWrite ==
  ASSUME LogInv, Log!WriteLine
  PROVE  Log!Stream!Write
<1> DEFINE x == <<boot, top + 1>>
<1>1. /\ boot \in 1..MaxBoots /\ top \in Nat /\ top + 1 \in 1..MaxId /\ boot \in Nat
      /\ handed' = handed /\ written' = written \cup {x}
  BY CursorTypes, LogConstants DEF Log!WriteLine
<1>2. x \in (1..MaxBoots) \X (1..MaxId)
  BY <1>1
<1>3. ASSUME NEW y \in written PROVE Log!Stream!Later(x, y)
  <2>1. /\ y[1] \in Nat /\ y[2] \in Nat
        /\ y[1] < boot \/ (y[1] = boot /\ y[2] <= top)
    BY DEF LogInv, WrittenSoFar
  <2>2. x[1] = boot /\ x[2] = top + 1
    OBVIOUS
  <2>3. boot > y[1] \/ (boot = y[1] /\ top + 1 > y[2])
    BY <1>1, <2>1
  <2> HIDE DEF x
  <2> QED BY <2>2, <2>3 DEF Log!Stream!Later
<1> QED BY <1>1, <1>2, <1>3 DEF Log!Stream!Write

\* The lines of an answer come in order, after those handed on before.
LEMMA ReadIsHandOn ==
  ASSUME LogInv, NEW f \in 1..(top + 1), ReadFrom(f), written' = written
  PROVE  Log!Stream!HandOn
<1>1. PICK n \in Nat : n = Len(handed)
  BY LenProperties DEF LogInv, LogTypes
<1>2. PICK k \in Nat : k = top - f + 1
  BY DEF ReadFrom
<1>3. /\ handed' \in Seq(Nat \X Nat) /\ Len(handed') = n + k
      /\ DOMAIN handed' = 1..(n + k) /\ DOMAIN handed = 1..n
      /\ \A i \in 1..n : handed'[i] = handed[i]
      /\ \A i \in 1..k : handed'[n + i] = <<boot, f + i - 1>>
  BY <1>1, <1>2 DEF ReadFrom, LinesAdded
<1>4. /\ boot \in Nat \ {0} /\ top \in Nat /\ last[1] \in Nat /\ last[2] \in Nat
      /\ last[1] <= boot /\ f \in Nat /\ 1 <= f /\ f <= top + 1
  BY CursorTypes
<1>5. SubSeq(handed', 1, Len(handed)) = handed
  <2>1. handed \in Seq(Nat \X Nat) /\ Len(handed) = n
    BY <1>1 DEF LogInv, LogTypes
  <2>2. \A i \in 1..n : handed[i] \in Nat \X Nat
    BY <2>1, ElementOfSeq
  <2>3. \A i \in 1..n : handed'[i] \in Nat \X Nat
    BY <1>3, <2>2
  <2>4. /\ SubSeq(handed', 1, n) \in Seq(Nat \X Nat)
        /\ Len(SubSeq(handed', 1, n)) = n
        /\ \A i \in 1..n : SubSeq(handed', 1, n)[i] = handed'[i]
    <3>1. /\ SubSeq(handed', 1, n) \in Seq(Nat \X Nat)
          /\ Len(SubSeq(handed', 1, n)) = IF 1 <= n THEN n - 1 + 1 ELSE 0
          /\ \A i \in 1..(n - 1 + 1) : SubSeq(handed', 1, n)[i] = handed'[1 + i - 1]
      BY <2>3, SubSeqProperties
    <3>2. n - 1 + 1 = n /\ \A i \in 1..n : 1 + i - 1 = i
      OBVIOUS
    <3> QED BY <3>1, <3>2
  <2>5. SubSeq(handed', 1, n) = handed
    BY <1>3, <2>1, <2>4, SeqEqual
  <2> QED BY <1>1, <2>5
<1>6. ASSUME NEW j \in 1..k
      PROVE  /\ handed'[n + j] \in written
             /\ n + j > 1 => Log!Stream!Later(handed'[n + j], handed'[n + j - 1])
  <2>1. handed'[n + j] = <<boot, f + j - 1>>
    BY <1>3
  <2>2. f + j - 1 \in 1..top
    BY <1>2, <1>4
  <2>3. handed'[n + j] \in written
    BY <2>1, <2>2 DEF LogInv, WrittenSoFar
  <2>4. CASE j > 1
    <3>1. j - 1 \in 1..k /\ n + (j - 1) = n + j - 1 /\ f + (j - 1) - 1 \in Int
      BY <2>4
    <3>2. handed'[n + j - 1] = <<boot, f + (j - 1) - 1>>
      BY <1>3, <3>1
    <3>3. f + j - 1 > f + (j - 1) - 1
      BY <1>4
    <3> QED BY <2>1, <2>3, <3>2, <3>3 DEF Log!Stream!Later
  <2>5. CASE j = 1 /\ n > 0
    <3>1. handed'[n + j - 1] = handed[n] /\ n \in 1..n
      BY <1>3, <2>5
    <3>2. handed # <<>>
      BY <1>1, <2>5, EmptySeq
    <3>3. handed[n] = last
      BY <1>1, <3>2 DEF LogInv, CursorIsLast
    <3>4. Log!Baseline(Log!Newest(lines)) => last[1] < boot
      BY DEF ReadFrom, FreshFrom
    <3>5. Log!Baseline(Log!Newest(lines)) \/ f > last[2]
      BY DEF ReadFrom, FreshFrom
    <3>6. handed'[n + j] = <<boot, f>>
      BY <1>4, <2>1, <2>5
    <3>7. boot > last[1] \/ (boot = last[1] /\ f > last[2])
      BY <1>4, <3>4, <3>5
    <3>8. Log!Stream!Later(<<boot, f>>, last)
      BY <3>7 DEF Log!Stream!Later
    <3> QED BY <2>3, <3>1, <3>3, <3>6, <3>8
  <2>6. CASE j = 1 /\ n = 0
    BY <2>3, <2>6
  <2> QED BY <2>4, <2>5, <2>6
<1>7. ASSUME NEW i \in (Len(handed) + 1)..Len(handed')
      PROVE  /\ handed'[i] \in written
             /\ i > 1 => Log!Stream!Later(handed'[i], handed'[i - 1])
  <2>1. PICK j \in 1..k : i = n + j
    <3>1. Len(handed) + 1 = n + 1 /\ Len(handed') = n + k
      BY <1>1, <1>3
    <3>2. i \in (n + 1)..(n + k)
      BY <3>1
    <3>3. i - n \in 1..k /\ i = n + (i - n)
      BY <3>2
    <3> QED BY <3>3
  <2>2. /\ handed'[n + j] \in written
        /\ n + j > 1 => Log!Stream!Later(handed'[n + j], handed'[n + j - 1])
    BY <1>6
  <2>3. n + j - 1 = i - 1 /\ (i > 1 => n + j > 1)
    BY <2>1
  <2>4. handed'[n + j] = handed'[i] /\ handed'[n + j - 1] = handed'[i - 1]
    BY <2>1, <2>3
  <2> QED BY <2>2, <2>3, <2>4
<1>8. Len(handed') >= Len(handed)
  BY <1>1, <1>3
<1> QED BY <1>5, <1>7, <1>8 DEF Log!Stream!HandOn

\* An answer hands on every line that the cursor has not passed in this boot.
LEMMA NothingNewIsLeft ==
  ASSUME LogInv, NEW f \in 1..(top + 1), ReadFrom(f), NEW i \in Log!Newest(lines)
  PROVE  \/ last[1] = boot /\ i <= last[2]
         \/ \E k \in DOMAIN handed' : handed'[k] = <<boot, i>>
<1>1. /\ boot \in Nat \ {0} /\ top \in Nat /\ f \in Nat /\ 1 <= f /\ f <= top + 1
  BY CursorTypes
<1>2. i >= f \/ (last[1] = boot /\ i <= last[2])
  BY DEF ReadFrom, FreshFrom
<1>3. ASSUME i >= f PROVE \E k \in DOMAIN handed' : handed'[k] = <<boot, i>>
  <2>1. i \in Int /\ i <= top
    BY <1>1, LogConstants, CursorTypes DEF Log!Newest
  <2>2. PICK n \in Nat : n = Len(handed)
    BY DEF ReadFrom, LinesAdded
  <2>3. /\ DOMAIN handed' = 1..(n + (top - f + 1))
        /\ \A j \in 1..(top - f + 1) : handed'[n + j] = <<boot, f + j - 1>>
    BY <2>2 DEF ReadFrom, LinesAdded
  <2>4. PICK j \in 1..(top - f + 1) : j = i - f + 1 /\ f + j - 1 = i
    BY <1>1, <1>3, <2>1
  <2>5. n + j \in DOMAIN handed' /\ handed'[n + j] = <<boot, i>>
    <3>1. n + j \in 1..(n + (top - f + 1))
      BY <1>1, <2>2, <2>4
    <3>2. handed'[n + j] = <<boot, i>>
      BY <2>3, <2>4
    <3> QED BY <2>3, <3>1, <3>2
  <2> QED BY <2>5
<1> QED BY <1>2, <1>3

\* Each line is handed on at most once and in the order of writing, whatever reboots, the
\* ring and failed reads do; and a reboot does not make new lines look old (LogCursor).
THEOREM LogImplementsStream == Log!Spec => LogIsHandedOn
<1>1. Log!Init => Log!Stream!Init
  BY DEF Log!Init, Log!Stream!Init
<1>2. ASSUME LogInv, Log!ReadLog, Log!Newest(lines) # {}
      PROVE  \E f \in 1..(top + 1) : ReadFrom(f)
  BY <1>2, ReadHandsOn
<1>3. LogInv /\ [Log!Next]_(Log!vars) =>
        [Log!Stream!Write \/ Log!Stream!HandOn]_<<written, handed>>
  <2> SUFFICES ASSUME LogInv, [Log!Next]_(Log!vars)
               PROVE  \/ Log!Stream!Write \/ Log!Stream!HandOn
                      \/ UNCHANGED <<written, handed>>
    OBVIOUS
  <2>1. CASE Log!WriteLine
    BY <2>1, WriteIsWrite
  <2>2. CASE Log!ReadLog
    <3>1. written' = written /\ (Log!Newest(lines) = {} => handed' = handed)
      BY <2>2 DEF Log!ReadLog
    <3> QED BY <1>2, <2>2, <3>1, ReadIsHandOn
  <2> QED
    BY <2>1, <2>2 DEF Log!Next, Log!Reboot, Log!ReadFails, Log!vars
<1>4. LogInv /\ [Log!Next]_(Log!vars) =>
        [last' # last =>
           \A i \in Log!Newest(lines) :
             \/ last[1] = boot /\ i <= last[2]
             \/ \E k \in DOMAIN handed' : handed'[k] = <<boot, i>>]_(Log!vars)
  <2> SUFFICES ASSUME LogInv, [Log!Next]_(Log!vars), last' # last,
                      NEW i \in Log!Newest(lines)
               PROVE  \/ last[1] = boot /\ i <= last[2]
                      \/ \E k \in DOMAIN handed' : handed'[k] = <<boot, i>>
    OBVIOUS
  <2>1. Log!ReadLog
    BY DEF Log!Next, Log!WriteLine, Log!Reboot, Log!ReadFails, Log!vars
  <2> QED BY <1>2, <2>1, NothingNewIsLeft
<1> QED
  BY <1>1, <1>3, <1>4, InitLog, NextLog, PTL
  DEF Log!Spec, LogIsHandedOn, Log!HandsOnOnce, Log!Stream!Spec, Log!NewLinesAreHandedOn

--------------------------------------------------------------------------------
(* The poll at set-up: SetupSurvivesAcl for every field, whatever its fetcher   *)
(* remembers and the router answers.                                            *)

Errors == {"blocked", "missing", "auth", "response", "timeout", "connection"}

\* A fetcher whose error can fail a poll raises what one of its requests met.
LEMMA ErrorsAreMet ==
  ASSUME NEW f \in Fetch!Core, NEW m, NEW a \in Fetch!Answers(f),
         Fetch!Fetch(f, m, a).error # "none"
  PROVE  /\ Fetch!Fetch(f, m, a).error \in Errors
         /\ \E r \in DOMAIN a : a[r] = Fetch!Fetch(f, m, a).error
         /\ f = "info" => Fetch!Fetch(f, m, a).error \notin {"blocked", "missing"}
<1> USE DEF Errors, Fetch!Give, Fetch!Raise, Fetch!NotFound, Fetch!Refused, Fetch!Answered,
            Fetch!Ubus, Fetch!Coarse, Fetch!Shell, Fetch!Found
<1>1. CASE f = "info"
  <2>1. a \in [board : Fetch!Ubus]
    BY <1>1, Zenon DEF Fetch!Answers
  <2>2. Fetch!Fetch(f, m, a) = Fetch!GetRouterInfo(m, a)
    BY <1>1, Zenon DEF Fetch!Fetch
  <2> QED BY <2>1, <2>2 DEF Fetch!GetRouterInfo
<1>2. CASE f = "status"
  <2>1. a \in [info : Fetch!Ubus, shell : Fetch!Shell]
    BY <1>2, Zenon DEF Fetch!Answers
  <2>2. Fetch!Fetch(f, m, a) = Fetch!GetRouterStatus(m, a)
    BY <1>2, Zenon DEF Fetch!Fetch
  <2>3. f # "info"
    BY <1>2
  <2> QED BY <2>1, <2>2, <2>3 DEF Fetch!GetRouterStatus, Fetch!StatusViaSsh, Fetch!Degraded
<1>3. CASE f = "leases"
  <2>1. a \in [file : Fetch!Ubus, luci : Fetch!Ubus]
    BY <1>3, Zenon DEF Fetch!Answers
  <2>2. Fetch!Fetch(f, m, a) = Fetch!GetDhcpLeases(m, a)
    BY <1>3, Zenon DEF Fetch!Fetch
  <2>3. f # "info"
    BY <1>3
  <2> QED BY <2>1, <2>2, <2>3 DEF Fetch!GetDhcpLeases
<1>4. CASE f = "ssid"
  <2>1. a \in [status : Fetch!Coarse, info : Fetch!Coarse, luci : Fetch!Ubus]
    BY <1>4, Zenon DEF Fetch!Answers
  <2>2. Fetch!Fetch(f, m, a) = Fetch!GetSsid(m, a)
    BY <1>4, Zenon DEF Fetch!Fetch
  <2>3. f # "info"
    BY <1>4
  <2> QED BY <2>1, <2>2, <2>3 DEF Fetch!GetSsid
<1>5. CASE f = "wan"
  <2>1. a \in [dump : Fetch!Ubus, device : {"ok", "blocked", "timeout", "connection"},
               files : Fetch!Coarse \cup {"connection"}, shell : Fetch!Shell]
    BY <1>5, Zenon DEF Fetch!Answers
  <2>2. Fetch!Fetch(f, m, a) = Fetch!GetWanStatus(m, a)
    BY <1>5, Zenon DEF Fetch!Fetch
  <2>3. f # "info"
    BY <1>5
  <2> QED BY <2>1, <2>2, <2>3 DEF Fetch!GetWanStatus,
      Fetch!ReadWanCounters, Fetch!WanViaSsh, Fetch!Degraded
<1>6. CASE f = "clients"
  <2>1. a \in [devices : Fetch!Coarse, probe : Fetch!Coarse, radios : Fetch!Found,
               reported : {"ok", "new"}, ssid : {"ok", "timeout"},
               stations : {"ok", "blocked", "timeout"}, assoc : {"ok", "blocked", "timeout"}]
    BY <1>6, Zenon DEF Fetch!Answers
  <2>2. Fetch!Fetch(f, m, a) = Fetch!GetConnectedClients(m, a)
    BY <1>6, Zenon DEF Fetch!Fetch
  <2>3. f # "info"
    BY <1>6
  <2> QED BY <2>1, <2>2, <2>3 DEF Fetch!GetConnectedClients,
      Fetch!DiscoverInterfaces, Fetch!GetStations
<1> QED BY <1>1, <1>2, <1>3, <1>4, <1>5, <1>6 DEF Fetch!Core

\* An error that fails a first poll is none of those of a router that refuses or lacks
\* something.
LEMMA FailureIsOther ==
  ASSUME Fetch!First, NEW a \in Fetch!Answers(field), Fetch!Met(a),
         Fetch!Fails(Fetch!Fetch(field, read, a).error)
  PROVE  Fetch!Served(a) = "other"
<1> DEFINE e == Fetch!Fetch(field, read, a).error
<1>1. /\ field \in Fetch!Core /\ e # "none"
      /\ field \in Fetch!OptionalFirst => e \notin {"blocked", "missing"}
  BY DEF Fetch!Fails, Fetch!NotFound
<1>2. /\ e \in Errors /\ \E r \in DOMAIN a : a[r] = e
      /\ field = "info" => e \notin {"blocked", "missing"}
  BY <1>1, ErrorsAreMet
<1>3. e \notin {"blocked", "missing"}
  BY <1>1, <1>2 DEF Fetch!OptionalFirst
<1> HIDE DEF e
<1>4. PICK r \in DOMAIN a : a[r] = e
  BY <1>2
<1>5. r \notin blocked
  BY <1>3, <1>4 DEF Fetch!Met
<1> DEFINE got == {a[q] : q \in DOMAIN a \ blocked} \ {"uci", "ssh", "new", "cut"}
<1>6. e \in got
  BY <1>2, <1>4, <1>5 DEF Errors
<1>7. ~(got \subseteq {"ok"}) /\ ~(got \subseteq Fetch!Answered \cup Fetch!NotFound \cup {"fail"})
  BY <1>2, <1>3, <1>6 DEF Errors, Fetch!Answered, Fetch!NotFound
<1> QED BY <1>7 DEF Fetch!Served

\* Whatever the ACL refuses and the router lacks, a set-up fails only by another error
\* (_first_poll_optional, get_router_info).
THEOREM SetupNeverFailsByAcl == Fetch!Spec => []SetupSurvivesAcl
<1> USE DEF SetupSurvivesAcl, Fetch!SetupSurvivesAcl
<1>1. Fetch!Init => SetupSurvivesAcl
  BY DEF Fetch!Init
<1>2. ASSUME SetupSurvivesAcl, [Fetch!Next]_(Fetch!vars) PROVE SetupSurvivesAcl'
  <2>1. ASSUME NEW a \in Fetch!Answers(field), NEW load, Fetch!PollEnds(a, load)
        PROVE  SetupSurvivesAcl'
    <3>1. CASE Fetch!Fails(Fetch!Fetch(field, read, a).error)
      <4>1. Fetch!PollFails(Fetch!Served(a)) /\ Fetch!Met(a)
        BY <2>1, <3>1 DEF Fetch!PollEnds
      <4>2. Fetch!First => Fetch!Served(a) = "other"
        BY <3>1, <4>1, FailureIsOther
      <4> QED BY <4>1, <4>2 DEF Fetch!PollFails
    <3>2. CASE ~Fetch!Fails(Fetch!Fetch(field, read, a).error)
      BY <2>1, <3>2 DEF Fetch!PollEnds, Fetch!PollSucceeds
    <3> QED BY <3>1, <3>2
  <2>2. ASSUME NEW a, Fetch!PollAborts(a) PROVE SetupSurvivesAcl'
    BY <2>2 DEF Fetch!PollAborts, Fetch!PollFails
  <2>3. ASSUME NEW connected, Fetch!PollSkips(connected) PROVE SetupSurvivesAcl'
    BY <2>3 DEF Fetch!PollSkips, Fetch!PollSucceeds
  <2>4. CASE Fetch!SetupRetried
    BY <2>4 DEF Fetch!SetupRetried, Fetch!Fresh
  <2>5. CASE Fetch!PollBegins
    BY <2>5 DEF Fetch!PollBegins
  <2>6. CASE Fetch!IntervalEnds \/ Fetch!WifiChanges \/ Fetch!RouterChanges
    BY <1>2, <2>6 DEF Fetch!IntervalEnds, Fetch!WifiChanges, Fetch!RouterChanges
  <2>7. CASE UNCHANGED Fetch!vars
    BY <1>2, <2>7 DEF Fetch!vars
  <2> QED
    BY <1>2, <2>1, <2>2, <2>3, <2>4, <2>5, <2>6, <2>7 DEF Fetch!Next, Fetch!Poll
<1> QED BY <1>1, <1>2, PTL DEF Fetch!Spec
================================================================================
