------------------------------- MODULE MCClient --------------------------------
(*****************************************************************************)
(* What runs concurrently in the API object of one router: its rpcd session, *)
(* its SSH connection and the Wi-Fi switch commands. They share a run, not   *)
(* state: in a behaviour one of them runs (part) while the others stay where *)
(* they are.                                                                 *)
(*****************************************************************************)
EXTENDS RpcdSession, FiniteSets, TLC

CONSTANTS SshTasks, Poller, Conns,  \* the users of the SSH connection
          WifiTasks, Sections       \* the Wi-Fi switch commands

CONSTANTS poll, command, button, s1, s2, s3, s4, board, reboot, home, guest

TwoTasks    == {poll, command}
ThreeTasks  == {poll, command, button}
TwoSwitches == {command, button}
Granted     == {board}
OneMethod   == {board}
FourIds     == {s1, s2, s3, s4}
TwoNetworks == {home, guest}

Symmetry == Permutations(FourIds)

VARIABLES
  part, conn, open, lock, useKey, inflight, pending, sshClosing, cmd, accepts, used, staged,
  owner, committed, wifiCmd, landed, lost

Ssh == INSTANCE SshConnection WITH
  Tasks <- SshTasks, Poller <- Poller, Conns <- Conns, NoConn <- NoSession,
  Nobody <- Closer, conn <- conn, open <- open, lock <- lock, useKey <- useKey,
  inflight <- inflight, pending <- pending, closing <- sshClosing, cmd <- cmd,
  accepts <- accepts, used <- used

Wifi == INSTANCE WifiSwitch WITH
  Tasks <- WifiTasks, Sections <- Sections, Nothing <- NoSession,
  Nobody <- Closer, staged <- staged, owner <- owner, committed <- committed,
  cmd <- wifiCmd, landed <- landed, lost <- lost

sshVars == <<conn, open, lock, useKey, inflight, pending, sshClosing, cmd, accepts, used>>
wifiVars == <<staged, owner, committed, wifiCmd, landed, lost>>

\* A part that does not run stays at one of its initial states.
MCInit ==
  /\ part \in {"session", "ssh", "wifi"}
  /\ Init
  /\ Ssh!Init
  /\ part # "ssh" =>
       accepts = {}
  /\ Wifi!Init
  /\ part # "wifi" =>
       committed = [x \in Sections |-> FALSE]

OnlySession ==
  /\ part = "session"
  /\ UNCHANGED <<part, sshVars, wifiVars>>

OnlySsh ==
  /\ part = "ssh"
  /\ UNCHANGED <<part, vars, wifiVars>>

OnlyWifi ==
  /\ part = "wifi"
  /\ UNCHANGED <<part, vars, sshVars>>

MCNext ==
  \/ OnlySession /\ Next
  \/ OnlySsh /\ Ssh!Next
  \/ OnlyWifi /\ Wifi!Next

allVars == <<part, vars, sshVars, wifiVars>>

MCSpec == MCInit /\ [][MCNext]_allVars

--------------------------------------------------------------------------------
ASSUME ClientAssumptions == Ssh!SshAssumptions /\ Wifi!WifiAssumptions

\* The commands share at most one SSH session, whose users are counted exactly and which
\* is closed when a release was asked for and none is left.
ConnectionIsShared ==
  Ssh!TypeOK /\ Ssh!InflightIsExact /\ Ssh!OneConnection /\ Ssh!ReleasedWhenIdle

\* A release never cuts off a running command.
ReleaseSparesCommands == Ssh!ReleaseSparesCommands

\* A Wi-Fi command that reports success has its value committed, unless another command
\* or the session took it away, and leaves nothing staged behind.
CommandsAreSound == Wifi!TypeOK /\ Wifi!SuccessIsCommitted /\ Wifi!LeavesNothingStaged
================================================================================
