-------------------------------- MODULE MCPolls --------------------------------
(*****************************************************************************)
(* What one coordinator does poll by poll: its schedule and the update check,*)
(* the fetchers and caches of its API object, the router log, the client     *)
(* stability and the memory watch. They share a run, not state: in a         *)
(* behaviour one of them runs (part) while the others stay where they are.   *)
(*****************************************************************************)
EXTENDS PollSchedule

CONSTANTS RefreshCycles,                                          \* the poll
          Ring, Start, Least, Most, Slack, MaxId, MaxBoots,       \* the router log
          Interval, Retry, StickyHold, MaxPolls,                  \* the client stability
          MemoryHold, Intervals, MaxTime                          \* the memory watch

VARIABLES
  part, field, healthy, stage, count, mem, read, changed, value, kept, services, ssh,
  throttled, interval, blocked, served, boot, top, written, last, lines, status, total, handed,
  stabilityCount, lastLog, lastUsteer, usteer, candidate, since, shown, calm, fetches, now,
  memoryInterval, lastCheck, highSince, active, readings

Fetch == INSTANCE RouterPoll WITH
  RefreshCycles <- RefreshCycles,
  field <- field, healthy <- healthy, stage <- stage, count <- count,
  mem <- mem, read <- read, changed <- changed, value <- value, kept <- kept,
  services <- services, ssh <- ssh, throttled <- throttled, interval <- interval,
  blocked <- blocked, served <- served

Log == INSTANCE LogIngest WITH
  Ring <- Ring, Start <- Start, Least <- Least, Most <- Most, Slack <- Slack,
  MaxId <- MaxId, MaxBoots <- MaxBoots,
  boot <- boot, top <- top, written <- written, last <- last, lines <- lines,
  status <- status, total <- total, handed <- handed

Stability == INSTANCE ClientStability WITH
  Interval <- Interval, Retry <- Retry, Hold <- StickyHold, MaxPolls <- MaxPolls,
  count <- stabilityCount,
  lastLog <- lastLog, lastUsteer <- lastUsteer, usteer <- usteer, candidate <- candidate,
  since <- since, shown <- shown, calm <- calm, fetches <- fetches

Memory == INSTANCE MemoryWatch WITH
  Hold <- MemoryHold, Intervals <- Intervals, MaxTime <- MaxTime, now <- now,
  interval <- memoryInterval,
  lastCheck <- lastCheck, highSince <- highSince, active <- active, readings <- readings

fetchVars == <<field, healthy, stage, count, mem, read, changed, value, kept, services,
                ssh, throttled, interval, blocked, served>>
logVars == <<boot, top, written, last, lines, status, total, handed>>
stabilityVars == <<stabilityCount, lastLog, lastUsteer, usteer, candidate, since, shown,
                    calm, fetches>>
memoryVars == <<now, memoryInterval, lastCheck, highSince, active, readings>>

\* A part that does not run stays at one of its initial states.
MCInit ==
  /\ part \in {"schedule", "fetch", "log", "stability", "memory"}
  /\ Init
  /\ part # "schedule" =>
       ~stagger
  /\ Fetch!Init
  /\ part # "fetch" =>
       /\ field = "wifi"
       /\ ~healthy
  /\ Log!Init
  /\ Stability!Init
  /\ Memory!Init
  /\ part # "memory" =>
       memoryInterval = CHOOSE i \in Intervals : TRUE

OnlySchedule ==
  /\ part = "schedule"
  /\ UNCHANGED <<part, fetchVars, logVars, stabilityVars, memoryVars>>

OnlyFetch ==
  /\ part = "fetch"
  /\ UNCHANGED <<part, vars, logVars, stabilityVars, memoryVars>>

OnlyLog ==
  /\ part = "log"
  /\ UNCHANGED <<part, vars, fetchVars, stabilityVars, memoryVars>>

OnlyStability ==
  /\ part = "stability"
  /\ UNCHANGED <<part, vars, fetchVars, logVars, memoryVars>>

OnlyMemory ==
  /\ part = "memory"
  /\ UNCHANGED <<part, vars, fetchVars, logVars, stabilityVars>>

MCNext ==
  \/ OnlySchedule /\ Next
  \/ OnlyFetch /\ Fetch!Next
  \/ OnlyLog /\ Log!Next
  \/ OnlyStability /\ Stability!Next
  \/ OnlyMemory /\ Memory!Next

allVars == <<part, vars, fetchVars, logVars, stabilityVars, memoryVars>>

MCSpec == MCInit /\ [][MCNext]_allVars

MCLiveSpec ==
  /\ MCSpec
  /\ WF_vars(part = "schedule" /\ Delay)
  /\ WF_vars(part = "schedule" /\ (\E s \in Slots : TimerFires(s) \/ DelayEnds(s)))
  /\ \A s \in Slots : WF_vars(part = "schedule" /\ Ends(s))
  /\ \A s \in Slots : SF_vars(part = "schedule" /\ PollSucceeds(s))
  /\ WF_fetchVars(part = "fetch" /\ Fetch!SetupRetried)
  /\ WF_fetchVars(part = "fetch" /\ Fetch!Poll)
  /\ SF_fetchVars(part = "fetch" /\ Fetch!IntervalEnds)

--------------------------------------------------------------------------------
ASSUME PollAssumptions ==
  /\ Fetch!PollAssumptions /\ Log!LogAssumptions
  /\ Stability!StabilityAssumptions /\ Memory!WatchAssumptions

\* A poll that fails at set-up fails for another reason than what the ACL refuses.
SetupSurvivesAcl == Fetch!SetupSurvivesAcl

\* A field is complete in the end once the router serves every request, however its
\* fetchers and caches were left, and the interval of the SSH fallback is left.
PollRecovers == []Fetch!TypeOK /\ Fetch!SourceRecovers /\ Fetch!IntervalRecovers

\* Every log line is handed on at most once and in order (refinement of LogStream), and
\* a reboot does not make new lines look old.
LogIsHandedOn == Log!HandsOnOnce /\ Log!NewLinesAreHandedOn

\* Every line is handed on or counted as missed.
LinesAddUp == Log!LinesAddUp

\* usteer comes to its turn although the log goes first.
UsteerHasItsTurn == Stability!UsteerHasItsTurn

\* A client is shown as sticky only after the hold time.
StickyIsHeld == Stability!StickyIsHeld

\* The RAM issue is raised after the hold time, exactly then.
RaisedAfterHold == Memory!RaisedAfterHold
================================================================================
