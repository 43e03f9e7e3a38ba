----------------------------- MODULE SshConnection -----------------------------
(***************************************************************************)
(* The SSH connection of one OpenWrtAPI object (api.py, _asyncssh_run).  All *)
(* commands of a poll, and those of switches and buttons, share one         *)
(* connection.  The coordinator releases it at the end of every poll; a     *)
(* release under a running command is deferred to the end of the last one.  *)
(*                                                                          *)
(* An action is the code between two awaits.  A task waits for the lock     *)
(* that serialises connecting, for the connect, for its command, or for a   *)
(* dropped connection to be gone.  Output and exit codes are abstracted to  *)
(* the result of _asyncssh_run.  An identifier of a connection that nobody  *)
(* refers to any more may be used again.                                    *)
(***************************************************************************)
EXTENDS Naturals, FiniteSets

CONSTANTS Tasks,    \* users of the API object
          Poller,   \* the task of the coordinator, which also releases
          Conns,    \* connections
          NoConn, Nobody

SshAssumptions ==
  /\ Poller \in Tasks
  /\ NoConn \notin Conns
  /\ Nobody \notin Tasks
  /\ IsFiniteSet(Tasks)

Auth == {"password", "key"}

VARIABLES
  conn,      \* self._ssh_conn
  open,      \* the connections that are not closed
  lock,      \* holder of self._ssh_conn_lock
  useKey,    \* self._ssh_use_key
  inflight,  \* self._ssh_inflight
  pending,   \* self._ssh_release_pending
  closing,   \* async_close: not called, before or after it dropped the connection
  cmd,       \* for each task, the command it executes or its last result
  accepts,   \* router (external): the authentication it accepts
  used       \* history: a command began since the connection was last released

vars == <<conn, open, lock, useKey, inflight, pending, closing, cmd, accepts, used>>

Result == {"none", "ok", "failed", "timeout", "denied"}

\* "lock", "connect", "run" and "reconnect" are inside _asyncssh_exec_once;
\* "again" is the second attempt, "release" the release after a timeout.
Inside == {"lock", "connect", "run", "reconnect"}

CmdState == [at     : {"idle", "again", "release"} \cup Inside,
             auth   : Auth,               \* the password argument
             on     : Conns \cup {NoConn},
             first  : BOOLEAN,            \* the command was not repeated yet
             result : Result]

Active == {t \in Tasks : cmd[t].at \in Inside}

TypeOK ==
  /\ conn \in Conns \cup {NoConn}
  /\ open \subseteq Conns
  /\ lock \in Tasks \cup {Nobody}
  /\ useKey \in BOOLEAN
  /\ inflight \in Nat
  /\ pending \in BOOLEAN
  /\ closing \in {"no", "closing", "closed"}
  /\ cmd \in [Tasks -> CmdState]
  /\ accepts \subseteq Auth
  /\ used \in BOOLEAN

Done(result, auth) ==
  [at |-> "idle", auth |-> auth, on |-> NoConn, first |-> TRUE, result |-> result]

Init ==
  /\ conn = NoConn
  /\ open = {}
  /\ lock = Nobody
  /\ useKey = FALSE
  /\ inflight = 0
  /\ pending = FALSE
  /\ closing = "no"
  /\ cmd = [t \in Tasks |-> Done("none", "password")]
  /\ accepts \in SUBSET Auth
  /\ used = FALSE

-------------------------------------------------------------------------------
(* The connection.                                                          *)

\* _asyncssh_drop_connection, up to the wait for the connection to be gone.
Drop ==
  /\ conn' = NoConn
  /\ open' = open \ {conn}

\* Fault: the release does not ask whether a command is running.
ReleaseAtOnce == pending' = FALSE /\ Drop

\* _asyncssh_request_release: now, or after the last running command.
Release ==
  IF inflight > 0
    THEN pending' = TRUE /\ UNCHANGED <<conn, open>>
    ELSE pending' = FALSE /\ Drop

\* The finally clause of _asyncssh_exec_once.
Leave ==
  /\ inflight' = inflight - 1
  /\ IF inflight = 1 /\ pending
       THEN pending' = FALSE /\ Drop
       ELSE UNCHANGED <<pending, conn, open>>

\* _asyncssh_get_connection once the lock is held: the open connection is
\* shared, otherwise a new one is made under the lock.
Obtain(t, c) ==
  IF conn \in open
    THEN /\ cmd' = [cmd EXCEPT ![t] = [c EXCEPT !.at = "run", !.on = conn]]
         /\ UNCHANGED <<conn, lock>>
    ELSE /\ cmd' = [cmd EXCEPT ![t] = [c EXCEPT !.at = "connect", !.on = NoConn]]
         /\ conn' = NoConn
         /\ lock' = t

\* Fault: nobody waits for the lock.
EnterUnlocked(t, c) == Obtain(t, c)

\* A task that finds the lock taken, or others waiting for it, waits too.
Enter(t, c) ==
  IF lock = Nobody /\ \A u \in Tasks : cmd[u].at # "lock"
    THEN Obtain(t, c)
    ELSE /\ cmd' = [cmd EXCEPT ![t] = [c EXCEPT !.at = "lock", !.on = NoConn]]
         /\ UNCHANGED <<conn, lock>>

\* An attempt of _asyncssh_run.
Attempt(t) ==
  /\ inflight' = inflight + 1
  /\ Enter(t, [at |-> "lock", on |-> NoConn, first |-> TRUE, result |-> "none",
               auth |-> IF useKey THEN "key" ELSE "password"])

-------------------------------------------------------------------------------
(* The tasks.                                                               *)

Start(t) ==
  /\ cmd[t].at = "idle"
  /\ closing = "no"
  /\ Attempt(t)
  /\ used' = TRUE
  /\ UNCHANGED <<open, useKey, pending, closing, accepts>>

LockGranted(t) ==
  /\ cmd[t].at = "lock"
  /\ lock = Nobody
  /\ Obtain(t, cmd[t])
  /\ UNCHANGED <<open, useKey, inflight, pending, closing, accepts, used>>

Connected(t) ==
  /\ cmd[t].at = "connect"
  /\ cmd[t].auth \in accepts
  /\ \E c \in Conns \ (open \cup {cmd[u].on : u \in Tasks}) :
       /\ conn' = c
       /\ open' = open \cup {c}
       /\ cmd' = [cmd EXCEPT ![t].at = "run", ![t].on = c]
  /\ lock' = Nobody
  /\ UNCHANGED <<useKey, inflight, pending, closing, accepts, used>>

\* PermissionDenied: the first one on password-auth switches the API object to
\* key-auth and tries again.
Denied(t) ==
  /\ cmd[t].at = "connect"
  /\ cmd[t].auth \notin accepts
  /\ lock' = Nobody
  /\ Leave
  /\ useKey' = TRUE
  /\ cmd' = [cmd EXCEPT ![t] = IF useKey THEN Done("denied", @.auth)
                                         ELSE [@ EXCEPT !.at = "again"]]
  /\ UNCHANGED <<closing, accepts, used>>

Again(t) ==
  /\ cmd[t].at = "again"
  /\ Attempt(t)
  /\ used' = TRUE
  /\ UNCHANGED <<open, useKey, pending, closing, accepts>>

ConnectFails(t) ==
  /\ cmd[t].at = "connect"
  /\ lock' = Nobody
  /\ Leave
  /\ cmd' = [cmd EXCEPT ![t] = Done("failed", @.auth)]
  /\ UNCHANGED <<useKey, closing, accepts, used>>

CommandEnds(t) ==
  /\ cmd[t].at = "run" /\ cmd[t].on \in open
  /\ Leave
  /\ cmd' = [cmd EXCEPT ![t] = Done("ok", @.auth)]
  /\ UNCHANGED <<lock, useKey, closing, accepts, used>>

\* The connection was closed under the command: it ends without an exit status.
CommandCut(t) ==
  /\ cmd[t].at = "run" /\ cmd[t].on \notin open
  /\ Leave
  /\ cmd' = [cmd EXCEPT ![t] = Done("failed", @.auth)]
  /\ UNCHANGED <<lock, useKey, closing, accepts, used>>

\* The channel was refused, or the connection was lost: the current connection
\* is dropped and the command repeated once.
ChannelFails(t) ==
  /\ cmd[t].at = "run" /\ cmd[t].first
  /\ Drop
  /\ cmd' = [cmd EXCEPT ![t].at = "reconnect", ![t].on = NoConn, ![t].first = FALSE]
  /\ UNCHANGED <<lock, useKey, inflight, pending, closing, accepts, used>>

Reconnect(t) ==
  /\ cmd[t].at = "reconnect"
  /\ Enter(t, cmd[t])
  /\ UNCHANGED <<open, useKey, inflight, pending, closing, accepts, used>>

ChannelFailsAgain(t) ==
  /\ cmd[t].at = "run" /\ ~cmd[t].first
  /\ Leave
  /\ cmd' = [cmd EXCEPT ![t] = Done("failed", @.auth)]
  /\ UNCHANGED <<lock, useKey, closing, accepts, used>>

\* The time limit of the command is over, wherever it waits.
Timeout(t) ==
  /\ cmd[t].at \in Inside
  /\ lock' = IF lock = t THEN Nobody ELSE lock
  /\ Leave
  /\ cmd' = [cmd EXCEPT ![t] = [@ EXCEPT !.at = "release", !.on = NoConn]]
  /\ UNCHANGED <<useKey, closing, accepts, used>>

ReleaseAfterTimeout(t) ==
  /\ cmd[t].at = "release"
  /\ Release
  /\ cmd' = [cmd EXCEPT ![t] = Done("timeout", @.auth)]
  /\ used' = FALSE
  /\ UNCHANGED <<lock, useKey, inflight, closing, accepts>>

\* async_release_ssh at the end of a poll.
PollEnds ==
  /\ cmd[Poller].at = "idle"
  /\ Release
  /\ used' = FALSE
  /\ UNCHANGED <<lock, useKey, inflight, closing, cmd, accepts>>

\* async_close: no further command; the connection is dropped.
Close ==
  /\ closing = "no"
  /\ closing' = "closing"
  /\ UNCHANGED <<conn, open, lock, useKey, inflight, pending, cmd, accepts, used>>

CloseDrops ==
  /\ closing = "closing"
  /\ closing' = "closed"
  /\ Drop
  /\ UNCHANGED <<lock, useKey, inflight, pending, cmd, accepts, used>>

-------------------------------------------------------------------------------
(* The router (external).                                                   *)
ServerCloses ==
  /\ \E c \in open : open' = open \ {c}
  /\ UNCHANGED <<conn, lock, useKey, inflight, pending, closing, cmd, accepts, used>>

Command(t) ==
  \/ LockGranted(t) \/ Connected(t) \/ Denied(t) \/ Again(t) \/ ConnectFails(t)
  \/ CommandEnds(t) \/ CommandCut(t) \/ ChannelFails(t) \/ Reconnect(t)
  \/ ChannelFailsAgain(t) \/ Timeout(t) \/ ReleaseAfterTimeout(t)

Next ==
  \/ \E t \in Tasks : Start(t) \/ Command(t)
  \/ PollEnds \/ Close \/ CloseDrops \/ ServerCloses

Spec == Init /\ [][Next]_vars

-------------------------------------------------------------------------------
(* Properties.                                                              *)

\* The counter that defers a release is the number of commands under way,
\* whatever error, retry or timeout ended the others (_asyncssh_exec_once).
InflightIsExact == inflight = Cardinality(Active)

\* The router never holds a second SSH session of this API object: an open
\* connection is the one the next command will use.
OneConnection == open \subseteq {conn}

\* "The router only holds an SSH session while commands actually run"
\* (async_release_ssh): a deferred release is carried out by the last command.
ReleasedWhenIdle == Active = {} /\ ~used => open = {}

\* A release never cuts a command off (_asyncssh_request_release): the API
\* closes the connection of a running command only on unload, or when another
\* command found the connection unusable.
ReleaseSparesCommands ==
  [][(/\ conn \in open /\ conn' # conn
      /\ closing = "no"
      /\ \A t \in Tasks : cmd'[t].at = "reconnect" => cmd[t].at = "reconnect")
     => \A t \in Tasks : cmd[t].at = "run" /\ cmd'[t].at = "run" => cmd[t].on # conn]_vars

\* A command that is refused for its credentials has tried the key
\* (_asyncssh_run: "password-auth first, then - on PermissionDenied - key-auth").
KeyWasTried == \A t \in Tasks : cmd[t].result = "denied" => cmd[t].auth = "key"
================================================================================
