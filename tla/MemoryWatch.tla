------------------------------- MODULE MemoryWatch ------------------------------
(***************************************************************************)
(* The RAM pressure issue of one router (coordinator.py,                     *)
(* _check_memory_pressure).                                                  *)
(***************************************************************************)
EXTENDS FiniteSetsExt, Naturals, Sequences

CONSTANTS Hold,        \* RAM_PRESSURE_HOLD_SECONDS, in ticks
          Intervals,   \* update intervals, in ticks
          MaxTime      \* bound: ticks

WatchAssumptions == Hold \in Nat /\ Intervals \in SUBSET Nat /\ MaxTime \in Nat

Absent == MaxTime + 1   \* None

VARIABLES
  now,         \* the time
  interval,    \* update_interval
  lastCheck,   \* _mem_last_check, or Absent
  highSince,   \* _mem_high_since, or Absent
  active,      \* _ram_issue_active
  readings     \* those since the start or the last clear until the issue is raised, with
               \* the interval in force

vars == <<now, interval, lastCheck, highSince, active, readings>>

Levels == {"normal", "between", "high"}   \* between: neither high nor clear

\* Fault: a gap in the readings keeps the hold time.
HeldSinceGap(level) == IF level # "high" THEN Absent ELSE Min({highSince, now})

\* _mem_high_since, after the gap and the level are seen.
HeldSince(level) ==
  IF level # "high" THEN Absent
  ELSE IF lastCheck # Absent /\ now - lastCheck > 2 * interval THEN now
  ELSE Min({highSince, now})

Check(level) ==
  /\ lastCheck' = now
  /\ readings' = IF ~active
                 THEN Append(readings, [at |-> now, high |-> level = "high", interval |-> interval])
                 ELSE IF level = "normal" THEN <<>> ELSE readings
  /\ IF active
     THEN /\ active' = (level # "normal")
          /\ highSince' = IF level = "normal" \/ now - lastCheck > 2 * interval
                          THEN Absent ELSE highSince
     ELSE /\ highSince' = HeldSince(level)
          /\ active' = (level = "high" /\ now - HeldSince(level) >= Hold)

\* A poll with memory stats; afterwards the coordinator may change its interval.
Poll ==
  /\ lastCheck = Absent \/ now > lastCheck
  /\ \E level \in Levels : Check(level)
  /\ interval' \in Intervals
  /\ UNCHANGED now

\* Time passes; polls may fail, or bring no stats.
Tick ==
  /\ now < MaxTime /\ now' = now + 1
  /\ UNCHANGED <<interval, lastCheck, highSince, active, readings>>

\* The entry is set up again: the issue is cleared, the coordinator is a new one.
Reload ==
  /\ lastCheck' = Absent /\ highSince' = Absent /\ active' = FALSE /\ readings' = <<>>
  /\ interval' \in Intervals
  /\ UNCHANGED now

Init ==
  /\ now = 0 /\ interval \in Intervals
  /\ lastCheck = Absent /\ highSince = Absent /\ active = FALSE /\ readings = <<>>

Next == Tick \/ Poll \/ Reload

Spec == Init /\ [][Next]_vars

-------------------------------------------------------------------------------
(* Property                                                                 *)

\* The readings end in a run of high ones that spans the hold time without a gap.
HeldHigh(rs) ==
  \E i \in DOMAIN rs :
    /\ rs[Len(rs)].at - rs[i].at >= Hold
    /\ \A j \in i..Len(rs) :
         /\ rs[j].high
         /\ j > i => rs[j].at - rs[j - 1].at <= 2 * rs[j].interval

\* "after the router stayed high for RAM_PRESSURE_HOLD_SECONDS without a single normal
\* reading in between", and not over a gap (docstring): the issue is raised exactly
\* then, and cleared by a normal reading or with the entry only.
RaisedAfterHold ==
  [][/\ ~active => (active' <=> HeldHigh(readings') /\ readings' # readings)
     /\ active /\ ~active' => readings' = <<>>]_vars
================================================================================
