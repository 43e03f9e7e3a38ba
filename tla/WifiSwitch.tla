------------------------------- MODULE WifiSwitch -------------------------------
(***************************************************************************)
(* Switching an SSID on or off (api.py, set_wifi_state): the change is      *)
(* staged in the rpcd session of the API object, committed, and announced   *)
(* with network.reload; when rpcd refuses, uci/apply, uci/revert and at last *)
(* the uci command line over SSH are tried.                                 *)
(*                                                                          *)
(* All switches of a router share the session, so they share what is staged *)
(* in it: a commit, apply or revert of one command takes the staged changes *)
(* of the others along.  An action is one answered request of one command.  *)
(* An answer is                                                             *)
(*   ok, blocked (OpenWrtMethodNotFoundError, which is also what _call makes *)
(*   of an ACL refusal), denied (OpenWrtAuthError: the re-login or the       *)
(*   backoff refused), failed (OpenWrtResponseError, OpenWrtTimeoutError) or *)
(*   offline (OpenWrtConnectionError).                                       *)
(* A failed or offline request may have been executed, its answer lost; one *)
(* that the router executes after the client gave up is left out.           *)
(***************************************************************************)
EXTENDS Naturals, FiniteSets

CONSTANTS Tasks,     \* commands that may run at the same time
          Sections,  \* wifi-iface sections of the wireless config
          Nothing,   \* no staged value
          Nobody

WifiAssumptions ==
  /\ Nothing \notin BOOLEAN
  /\ Nobody \notin Tasks
  /\ Sections # {}

VARIABLES
  staged,     \* router: the uncommitted values of the rpcd session
  owner,      \* history: the running command that staged it
  committed,  \* router: the values of /etc/config/wireless
  cmd,        \* for each task, the command it executes, or its last one
  landed,     \* history: commands whose value was committed since they began
  lost        \* history: commands whose staged value was discarded or replaced

router == <<staged, owner, committed>>
vars == <<router, cmd, landed, lost>>

Answers == {"ok", "blocked", "denied", "failed", "offline"}

\* Errors after which the request may have been executed all the same.
Unclear == {"failed", "offline"}

Stage == {"set", "commit", "apply", "revert", "reload", "ssh"}

Command == [at      : {"idle"} \cup Stage,  \* the request it awaits
            section : Sections,
            enabled : BOOLEAN,
            result  : {"none", "true", "raised"},
            blocked : BOOLEAN,   \* the commit was answered "blocked"
            ssh     : BOOLEAN,   \* it went over to SSH
            dirty   : BOOLEAN]   \* the set or the revert was not answered "ok"

TypeOK ==
  /\ staged \in [Sections -> BOOLEAN \cup {Nothing}]
  /\ owner \in [Sections -> Tasks \cup {Nobody}]
  /\ committed \in [Sections -> BOOLEAN]
  /\ cmd \in [Tasks -> Command]
  /\ landed \subseteq Tasks
  /\ lost \subseteq Tasks

Fresh(at, s, e) == [at |-> at, section |-> s, enabled |-> e, result |-> "none",
                    blocked |-> FALSE, ssh |-> FALSE, dirty |-> FALSE]

NothingStaged == [s \in Sections |-> Nothing]
NoOwner == [s \in Sections |-> Nobody]

Init ==
  /\ staged = NothingStaged
  /\ owner = NoOwner
  /\ committed \in [Sections -> BOOLEAN]
  /\ cmd = [t \in Tasks |-> Fresh("idle", CHOOSE s \in Sections : TRUE, TRUE)]
  /\ landed = {}
  /\ lost = {}

-------------------------------------------------------------------------------
(* What the requests do on the router (external).                           *)

Owners == {owner[s] : s \in Sections} \ {Nobody}

StageChange(t) ==
  LET s == cmd[t].section IN
  /\ staged' = [staged EXCEPT ![s] = cmd[t].enabled]
  /\ owner' = [owner EXCEPT ![s] = t]
  /\ lost' = lost \cup ({owner[s]} \ {Nobody, t})
  /\ UNCHANGED <<committed, landed>>

\* uci/commit and uci/apply: everything the session staged.
CommitStaged ==
  /\ committed' = [s \in Sections |->
                     IF staged[s] = Nothing THEN committed[s] ELSE staged[s]]
  /\ landed' = landed \cup Owners
  /\ staged' = NothingStaged
  /\ owner' = NoOwner
  /\ UNCHANGED lost

\* uci/revert, and the end of the session.
DiscardStaged ==
  /\ lost' = lost \cup Owners
  /\ staged' = NothingStaged
  /\ owner' = NoOwner
  /\ UNCHANGED <<committed, landed>>

\* uci set && uci commit && wifi reload: the command line has a delta of its own.
CommitDirectly(t) ==
  /\ committed' = [committed EXCEPT ![cmd[t].section] = cmd[t].enabled]
  /\ landed' = landed \cup {t}
  /\ UNCHANGED <<staged, owner, lost>>

NoEffect == UNCHANGED <<staged, owner, committed, landed, lost>>

\* The request has its effect, or has none, as the answer allows.
Request(answer, effect) ==
  \/ answer = "ok" /\ effect
  \/ answer \in Unclear /\ effect
  \/ answer # "ok" /\ NoEffect

-------------------------------------------------------------------------------
(* set_wifi_state.                                                          *)

Goto(t, stage) == cmd' = [cmd EXCEPT ![t].at = stage]

ToSsh(t, dirty) ==
  cmd' = [cmd EXCEPT ![t].at = "ssh", ![t].ssh = TRUE, ![t].dirty = @ \/ dirty]

End(t, result) == cmd' = [cmd EXCEPT ![t].at = "idle", ![t].result = result]

\* A command of a switch.  What an ended command left staged is nobody's.
Start(t, s, e) ==
  /\ cmd[t].at = "idle"
  /\ cmd' = [cmd EXCEPT ![t] = Fresh("set", s, e)]
  /\ owner' = [x \in Sections |-> IF owner[x] = t THEN Nobody ELSE owner[x]]
  /\ landed' = landed \ {t}
  /\ lost' = lost \ {t}
  /\ UNCHANGED <<staged, committed>>

\* An authentication error leaves set_wifi_state, other errors lead to SSH.
SetAnswered(t, answer) ==
  /\ cmd[t].at = "set"
  /\ Request(answer, StageChange(t))
  /\ CASE answer = "ok"     -> Goto(t, "commit")
       [] answer = "denied" -> End(t, "raised")
       [] OTHER             -> ToSsh(t, TRUE)

\* Fault: the answer to the commit is not looked at.
CommitAnsweredUnchecked(t, answer) ==
  /\ cmd[t].at = "commit"
  /\ Request(answer, CommitStaged)
  /\ Goto(t, "reload")

\* Only an authentication error counts as a blocked commit; the text of an ACL
\* refusal ("method not permitted") has neither of the words looked for.
CommitAnswered(t, answer) ==
  /\ cmd[t].at = "commit"
  /\ Request(answer, CommitStaged)
  /\ CASE answer = "ok"     -> Goto(t, "reload")
       [] answer = "denied" -> Goto(t, "apply")
       [] OTHER -> cmd' = [cmd EXCEPT ![t].at = "idle", ![t].result = "raised",
                                      ![t].blocked = (answer = "blocked")]

\* A connection error is not caught here.
ApplyAnswered(t, answer) ==
  /\ cmd[t].at = "apply"
  /\ Request(answer, CommitStaged)
  /\ CASE answer = "ok"      -> End(t, "true")
       [] answer = "offline" -> End(t, "raised")
       [] OTHER              -> Goto(t, "revert")

\* The revert is best effort.
RevertAnswered(t, answer) ==
  /\ cmd[t].at = "revert"
  /\ Request(answer, DiscardStaged)
  /\ ToSsh(t, answer # "ok")

\* reload_wifi(applied_by_commit=True): whatever comes of it, the commit counts.
ReloadAnswered(t, answer) ==
  /\ cmd[t].at = "reload"
  /\ NoEffect
  /\ End(t, "true")

\* _set_wifi_state_ssh: a timeout, a missing connection and an exit status other
\* than 0 (which a failing "wifi reload" after the commit gives too) raise.
SshAnswered(t, ok) ==
  /\ cmd[t].at = "ssh"
  /\ Request(IF ok THEN "ok" ELSE "failed", CommitDirectly(t))
  /\ End(t, IF ok THEN "true" ELSE "raised")

\* The session ends: it expired or rpcd restarted, and some call logs in again.
Relogin ==
  /\ DiscardStaged
  /\ UNCHANGED cmd

Next ==
  \/ \E t \in Tasks :
       \/ \E s \in Sections, e \in BOOLEAN : Start(t, s, e)
       \/ \E a \in Answers :
            \/ SetAnswered(t, a) \/ CommitAnswered(t, a) \/ ApplyAnswered(t, a)
            \/ RevertAnswered(t, a) \/ ReloadAnswered(t, a)
       \/ \E ok \in BOOLEAN : SshAnswered(t, ok)
  \/ Relogin

Spec == Init /\ [][Next]_vars

-------------------------------------------------------------------------------
(* Properties.                                                              *)

Ended(t, result) == cmd[t].at = "idle" /\ cmd[t].result = result

\* "Returns: True on success" (set_wifi_state): the router has committed the
\* value, unless the session, another command or a revert took it away.
SuccessIsCommitted ==
  \A t \in Tasks : Ended(t, "true") => t \in landed \cup lost

\* "Revert the staged-but-uncommitted change to keep router clean": a command
\* that returns True leaves nothing of its own in the session for a later commit
\* of another switch to apply, unless the set or the revert went unanswered.
LeavesNothingStaged ==
  \A t \in Tasks : Ended(t, "true") /\ ~cmd[t].dirty
                     => \A s \in Sections : owner[s] # t

\* README "ACL Fallback Support": a blocked uci/commit is followed by uci/apply
\* and SSH; a command does not fail before it has tried SSH.
BlockedCommitFallsBack ==
  \A t \in Tasks : Ended(t, "raised") /\ cmd[t].blocked => cmd[t].ssh
================================================================================
