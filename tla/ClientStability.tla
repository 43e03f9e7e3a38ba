----------------------------- MODULE ClientStability ----------------------------
(***************************************************************************)
(* Which polls of a coordinator fetch the router log and which the usteer    *)
(* clients (coordinator.py, _async_poll), and the sticky state of a Wi-Fi    *)
(* client that follows from it (_fetch_usteer, _client_stability_snapshot,   *)
(* client_stability.py).                                                     *)
(*                                                                          *)
(* Time is counted in polls, which come at a fixed interval.                 *)
(***************************************************************************)
EXTENDS Integers, Sequences

CONSTANTS Interval,   \* LOG_READ_INTERVAL_CYCLES
          Retry,      \* USTEER_RETRY_CYCLES
          Hold,       \* STICKY_HOLD_SECONDS, in polls
          MaxPolls    \* bound

\* There are polls between two reads of the log, and usteer is asked again.
StabilityAssumptions == Interval \in Nat \ {0, 1} /\ Retry \in Nat \ {0} /\ Hold \in Nat

VARIABLES
  count,       \* _board_poll_count
  lastLog,     \* _last_log_poll; -1: None
  lastUsteer,  \* _last_usteer_poll; -1: None
  usteer,      \* _usteer_status
  candidate,   \* the client is in _sticky_now
  since,       \* its time in _sticky_timer; -1: not there
  shown,       \* the client is in the sticky list of the data
  calm,        \* polls in a row that succeeded without a channel change
  fetches      \* the usteer fetches: the poll and what was found

vars == <<count, lastLog, lastUsteer, usteer, candidate, since, shown, calm, fetches>>

-------------------------------------------------------------------------------
(* One poll.                                                                *)

LogDue == lastLog = -1 \/ count + 1 - lastLog >= Interval

ReadsLog(change) == count + 1 > 1 /\ (change \/ LogDue)

UsteerInterval == IF usteer = "not_available" THEN Retry ELSE Interval

\* Fault: usteer keeps to the polls at its interval since the log.
UsteerDueLate(change) ==
  /\ count + 1 > 1 /\ ~ReadsLog(change) /\ count + 1 - lastLog >= Interval
  /\ lastUsteer = -1 \/ count + 1 - lastUsteer >= UsteerInterval

\* Never in the same poll as the log.
UsteerDue(change) ==
  /\ count + 1 > 1 /\ ~ReadsLog(change)
  /\ lastUsteer = -1 \/ count + 1 - lastUsteer >= UsteerInterval

\* Fault: a failed fetch leaves the candidates.
DropsNone(result) == result = "sticky" \/ (result = "failed" /\ candidate)

\* The client is a candidate after a fetch; any error drops the candidates.
Keeps(result) == result = "sticky"

\* _fetch_usteer: the client is sticky or not, there is no usteer, or it fails.
FetchUsteer(result) ==
  /\ usteer' = IF result = "failed" THEN usteer
               ELSE IF result = "none" THEN "not_available" ELSE "ok"
  /\ candidate' = Keeps(result)
  /\ since' = IF ~Keeps(result) THEN -1 ELSE IF since = -1 THEN count + 1 ELSE since
  /\ fetches' = Append(fetches, [at |-> count + 1, found |-> result = "sticky"])

\* A poll that succeeds, while the client is connected or not.
Poll ==
  /\ count < MaxPolls
  /\ count' = count + 1
  /\ \E change, connected \in BOOLEAN :
       /\ lastLog' = IF ReadsLog(change) THEN count + 1 ELSE lastLog
       /\ calm' = IF change THEN 0 ELSE calm + 1
       /\ IF UsteerDue(change)
          THEN /\ lastUsteer' = count + 1
               /\ \E result \in {"sticky", "fine", "none", "failed"} : FetchUsteer(result)
          ELSE UNCHANGED <<lastUsteer, usteer, candidate, since, fetches>>
       /\ shown' = (connected /\ candidate' /\ since' # -1 /\ count + 1 - since' >= Hold)

\* A poll that fails before it comes to the log; the data stay.
PollFails ==
  /\ count < MaxPolls
  /\ count' = count + 1 /\ calm' = 0
  /\ UNCHANGED <<lastLog, lastUsteer, usteer, candidate, since, shown, fetches>>

Init ==
  /\ count = 0 /\ lastLog = -1 /\ lastUsteer = -1 /\ usteer = "pending"
  /\ candidate = FALSE /\ since = -1 /\ shown = FALSE /\ calm = 0 /\ fetches = <<>>

Next == Poll \/ PollFails

Spec == Init /\ [][Next]_vars

-------------------------------------------------------------------------------
(* Properties                                                               *)

\* usteer comes to its turn although the log goes first: after calm polls for two
\* intervals its last fetch is not longer ago than its interval and one poll.
UsteerHasItsTurn ==
  calm > 2 * Interval => lastUsteer # -1 /\ count - lastUsteer <= UsteerInterval

\* A poll shows a client as sticky only if every fetch has found it so for the hold
\* time, and there was one such fetch at its start ("so nothing stale stays sticky",
\* docstring of _fetch_usteer).
StickyIsHeld ==
  [][calm' > 0 /\ shown' =>
       /\ \E i \in DOMAIN fetches' : fetches'[i].at <= count' - Hold /\ fetches'[i].found
       /\ \A i \in DOMAIN fetches' : fetches'[i].at >= count' - Hold => fetches'[i].found]_vars
================================================================================
