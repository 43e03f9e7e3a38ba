------------------------------- MODULE ChannelPlan ------------------------------
(***************************************************************************)
(* The channel plan monitor of the fleet (fleet.py, ChannelPlanMonitor): one *)
(* Repairs issue for the channel conflicts between routers (channel_plan.py),*)
(* judged after every poll of a router.                                      *)
(*                                                                          *)
(* Each router has one 2.4 GHz radio of 20 MHz, which is no backhaul.        *)
(***************************************************************************)
EXTENDS FiniteSetsExt, Integers

CONSTANTS Entries,    \* config entries, one per router
          Channels,   \* channel numbers below 14
          Polls,      \* CHANNEL_CONFLICT_POLLS
          MaxEvents   \* bound: what happens to the routers

VARIABLES
  loaded,    \* entries that are loaded
  up,        \* routers that answer a poll
  plan,      \* the channel of each radio
  radio,     \* the channel the last successful poll reported; 0: none
  success,   \* entries with last_update_success
  streak,    \* _streak, up to Polls
  clean,     \* _clean_streak, up to Polls
  issue,     \* the findings of the raised issue; {}: none is raised
  partial,   \* the number of polls with a gap since the plan or the fleet changed
  events     \* counts to MaxEvents

vars == <<loaded, up, plan, radio, success, streak, clean, issue, partial, events>>

-------------------------------------------------------------------------------
(* channel_plan.py                                                          *)

\* The spans of two channels of 20 MHz at a spacing of 5 MHz meet (analyze).
Overlap(c, d) == 5 * (c - d) \in -19..19

\* STANDARD_24_CHANNELS
Standard == {1, 6, 11}

\* The findings for these routers that are conflicts (analyze), each with its radios and
\* their channels, which tell its type: two of the same channel, two that overlap, one
\* off the standard channels.
Findings(routers, channel) ==
  {[e \in p |-> channel[e]] :
     p \in {q \in kSubset(2, routers) : \A c, d \in {channel[e] : e \in q} : Overlap(c, d)}
           \cup {{e} : e \in {r \in routers : channel[r] \notin Standard}}}

\* collect_radios, for what the entries show.
Radios(entries, channel) == {e \in entries : channel[e] # 0}

Conflicts(entries, channel) == Findings(Radios(entries, channel), channel)

-------------------------------------------------------------------------------
(* ChannelPlanMonitor                                                       *)

\* Fault: a raised issue keeps its findings.
EvaluateOnce(e, found) ==
  IF found = {}
  THEN /\ streak' = [x \in Entries |-> 0]
       /\ clean' = Min({clean + 1, Polls})
       /\ issue' = IF clean + 1 >= Polls THEN {} ELSE issue
  ELSE /\ clean' = 0
       /\ streak' = [streak EXCEPT ![e] =
                       IF \E f \in found : e \in DOMAIN f THEN Min({@ + 1, Polls}) ELSE 0]
       /\ issue' = IF issue # {} \/ \A x \in Entries : streak'[x] < Polls THEN issue ELSE found

Evaluate(e, found) ==
  IF found = {}
  THEN /\ streak' = [x \in Entries |-> 0]
       /\ clean' = Min({clean + 1, Polls})
       /\ issue' = IF clean + 1 >= Polls THEN {} ELSE issue
  ELSE /\ clean' = 0
       /\ streak' = [streak EXCEPT ![e] =
                       IF \E f \in found : e \in DOMAIN f THEN Min({@ + 1, Polls}) ELSE 0]
       /\ issue' = IF issue = {} /\ \A x \in Entries : streak'[x] < Polls THEN {} ELSE found

\* A poll succeeds; its radio data may be missing.
PollSucceeds(e) ==
  /\ e \in loaded /\ e \in up
  /\ radio' = [radio EXCEPT ![e] = plan[e]]
  /\ success' = success \cup {e}
  /\ Evaluate(e, Conflicts(loaded \cap success', radio'))
  /\ UNCHANGED <<loaded, up, plan, partial, events>>

PollIsPartial(e) ==
  /\ e \in loaded /\ e \in up /\ events < MaxEvents
  /\ radio' = [radio EXCEPT ![e] = 0]
  /\ success' = success \cup {e}
  /\ Evaluate(e, Conflicts(loaded \cap success', radio'))
  /\ partial' = partial + 1 /\ events' = events + 1
  /\ UNCHANGED <<loaded, up, plan>>

\* evaluate() returns at once.
PollFails(e) ==
  /\ e \in loaded /\ e \notin up
  /\ success' = success \ {e}
  /\ UNCHANGED <<loaded, up, plan, radio, streak, clean, issue, partial, events>>

\* The first refresh of a setup comes before the listener.
Load(e) ==
  /\ e \notin loaded /\ e \in up /\ events < MaxEvents
  /\ loaded' = loaded \cup {e} /\ success' = success \cup {e}
  /\ radio' = [radio EXCEPT ![e] = plan[e]]
  /\ partial' = 0 /\ events' = events + 1
  /\ UNCHANGED <<up, plan, streak, clean, issue>>

\* The findings that unregister() leaves, while the entry still counts as loaded.
Unregister(e) ==
  IF issue = {} THEN {} ELSE {f \in Conflicts(loaded \cap success, radio) : e \notin DOMAIN f}

Unload(e) ==
  /\ e \in loaded /\ events < MaxEvents
  /\ streak' = [x \in Entries |-> 0] /\ clean' = 0
  /\ issue' = Unregister(e)
  /\ loaded' = loaded \ {e}
  /\ partial' = 0 /\ events' = events + 1
  /\ UNCHANGED <<up, plan, radio, success>>

\* What happens to the routers.
Rechannel(e) ==
  /\ events < MaxEvents
  /\ \E c \in Channels \ {plan[e]} : plan' = [plan EXCEPT ![e] = c]
  /\ partial' = 0 /\ events' = events + 1
  /\ UNCHANGED <<loaded, up, radio, success, streak, clean, issue>>

Turn(e) ==
  /\ events < MaxEvents
  /\ up' = (up \ {e}) \cup ({e} \ up)
  /\ partial' = 0 /\ events' = events + 1
  /\ UNCHANGED <<loaded, plan, radio, success, streak, clean, issue>>

-------------------------------------------------------------------------------
Init ==
  /\ loaded = Entries /\ up = Entries /\ success = Entries
  /\ plan \in [Entries -> Channels] /\ radio = plan
  /\ streak = [e \in Entries |-> 0] /\ clean = 0 /\ issue = {}
  /\ partial = 0 /\ events = 0

Next ==
  \E e \in Entries :
    \/ PollSucceeds(e) \/ PollIsPartial(e) \/ PollFails(e)
    \/ Load(e) \/ Unload(e) \/ Rechannel(e) \/ Turn(e)

Spec == Init /\ [][Next]_vars

\* Every loaded router is polled again and again.
LiveSpec == Spec /\ \A e \in Entries : WF_vars(PollSucceeds(e) \/ PollFails(e))

-------------------------------------------------------------------------------
(* Properties                                                               *)

\* Once the fleet and its plan are stable the issue comes to name exactly the conflicts
\* of the routers that answer, if any does.
Real == Findings(loaded \cap up, plan)
IssueSettles == <>[](loaded \cap up = {} \/ issue = Real)

\* "one partial poll without radio data does not drop (and re-raise) it" (docstring of
\* ChannelPlanMonitor): one such poll, in a fleet that answers, keeps its conflicts
\* and does not change, does not clear the issue.
OneGapKeepsIssue ==
  [][issue # {} /\ Real # {} /\ loaded \subseteq up /\ partial' <= 1 /\ loaded' = loaded
       => issue' # {}]_vars
================================================================================
