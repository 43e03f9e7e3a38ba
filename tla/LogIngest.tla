-------------------------------- MODULE LogIngest -------------------------------
(***************************************************************************)
(* The router log of one coordinator: the cursor over the ring buffer of     *)
(* logd (log_parser.py, LogCursor) and the size of the next read             *)
(* (coordinator.py, _ingest_log and _process_log).                           *)
(***************************************************************************)
EXTENDS FiniteSetsExt, Integers, Sequences

CONSTANTS Ring,                \* lines that logd keeps
          Start, Least, Most,  \* LOG_READ_LINES, _MIN and _MAX
          Slack,               \* the 20 lines on top of a read
          MaxId, MaxBoots      \* bounds: lines of a boot, boots

LogAssumptions ==
  /\ {Ring, Start, Least, Most, Slack, MaxId} \subseteq Nat
  /\ MaxBoots \in Nat \ {0}

VARIABLES
  boot, top,   \* the router: its boot, the id of its last line
  written,     \* all lines written
  last,        \* last_id and last_time of the cursor, as the line; <<0, 0>>: None
  lines,       \* _log_lines
  status,      \* _log_status; "failed" for not_permitted and error
  total,       \* _log_totals: processed, missed, baseline
  handed       \* the lines handed on so far

vars == <<boot, top, written, last, lines, status, total, handed>>

None == <<0, 0>>

-------------------------------------------------------------------------------
(* The router.                                                              *)

WriteLine ==
  /\ top < MaxId
  /\ top' = top + 1 /\ written' = written \cup {<<boot, top + 1>>}
  /\ UNCHANGED <<boot, last, lines, status, total, handed>>

\* The ring is in RAM: logd starts over.
Reboot ==
  /\ boot < MaxBoots
  /\ boot' = boot + 1 /\ top' = 0
  /\ UNCHANGED <<written, last, lines, status, total, handed>>

\* get_log_entries: the ids of the newest n lines.
Newest(n) == Max({1, top - Min({n, Ring}) + 1})..top

-------------------------------------------------------------------------------
(* LogCursor.ingest                                                         *)

\* The remembered line has changed or vanished while older ids are in the answer.
Restarted(ids) == Min(ids) <= last[2] /\ (last[2] \notin ids \/ last[1] # boot)

Baseline(ids) == last = None \/ Max(ids) < last[2] \/ Restarted(ids)

\* Fault: the remembered line counts as new.
FreshFromLast(ids) == IF Baseline(ids) THEN ids ELSE {i \in ids : i >= last[2]}

Fresh(ids) == IF Baseline(ids) THEN ids ELSE {i \in ids : i > last[2]}

\* Fault: a gap is not counted.
MissedNone(ids) == 0

Missed(ids) ==
  IF Baseline(ids) \/ Fresh(ids) = {} THEN 0 ELSE Min(Fresh(ids)) - last[2] - 1

\* _log_lines after a read with new and missed lines.
NextLines(ids) ==
  IF Missed(ids) > 0 THEN Most
  ELSE IF Baseline(ids) THEN lines
  ELSE Min({Most, Max({Least, (3 * Cardinality(Fresh(ids))) \div 2 + Slack})})

\* An answer: _process_log hands the fresh lines on and sizes the next read.
ReadLog ==
  LET ids == Newest(lines) IN
  /\ status' = "ok"
  /\ IF ids = {} THEN UNCHANGED <<last, lines, total, handed>>
     ELSE /\ handed' = handed \o [i \in 1..Cardinality(Fresh(ids)) |->
                                    <<boot, Min(Fresh(ids)) + i - 1>>]
          /\ last' = <<boot, Max(ids)>>
          /\ lines' = NextLines(ids)
          /\ total' = [processed |-> total.processed + Cardinality(Fresh(ids)),
                       missed |-> total.missed + Missed(ids),
                       baseline |-> total.baseline
                                    + IF Baseline(ids) THEN Cardinality(Fresh(ids)) ELSE 0]
  /\ UNCHANGED <<boot, top, written>>

\* The read is refused or fails; the cursor stays.
ReadFails ==
  /\ status' = "failed"
  /\ UNCHANGED <<boot, top, written, last, lines, total, handed>>

-------------------------------------------------------------------------------
Init ==
  /\ boot = 1 /\ top = 0 /\ written = {}
  /\ last = None /\ lines = Start /\ status = "pending"
  /\ total = [processed |-> 0, missed |-> 0, baseline |-> 0] /\ handed = <<>>

Next == WriteLine \/ Reboot \/ ReadLog \/ ReadFails

Spec == Init /\ [][Next]_vars

-------------------------------------------------------------------------------
(* Properties                                                               *)

\* Every line is handed on at most once and in order, whatever the router reboots,
\* the ring overwrites or a read misses (docstring of LogCursor: "hand out only new
\* lines").
Stream == INSTANCE LogStream WITH Lines <- (1..MaxBoots) \X (1..MaxId),
                                  written <- written, handed <- handed
HandsOnOnce == Stream!Spec

\* Of an answer every line that the cursor has not passed in this boot is handed on: a
\* reboot does not make new lines look old (LogCursor._restarted).
NewLinesAreHandedOn ==
  [][last' # last =>
       \A i \in Newest(lines) :
         \/ last[1] = boot /\ i <= last[2]
         \/ \E k \in DOMAIN handed' : handed'[k] = <<boot, i>>]_vars

\* While the router has not rebooted, every line from the first one handed on to the
\* last was either handed on or counted as missed; the first read alone is a baseline.
LinesAddUp ==
  boot = 1 /\ handed # <<>> =>
    /\ total.processed = Len(handed)
    /\ last[2] - handed[1][2] + 1 = total.processed + total.missed
    /\ total.baseline <= Start
================================================================================
