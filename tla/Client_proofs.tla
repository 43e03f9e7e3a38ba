------------------------------ MODULE Client_proofs ------------------------------
(***************************************************************************)
(* Proofs about the SSH connection and the Wi-Fi switch commands of one     *)
(* router, for any tasks, connections and sections.                         *)
(***************************************************************************)
EXTENDS MCClient, FiniteSetTheorems, TLAPS

(***************************************************************************)
(* The SSH connection.                                                      *)
(*                                                                          *)
(* That the count of running commands is exact is inductive with the types  *)
(* alone.  That a new connection replaces no open one needs the lock: who   *)
(* connects holds it, and meanwhile there is no connection.  That an idle   *)
(* router holds no session needs to know of every deferred release that     *)
(* some command is left to carry it out.                                    *)
(***************************************************************************)
Connecting == {t \in SshTasks : cmd[t].at = "connect"}

ConnectsUnderLock == \A t \in Connecting : lock = t /\ conn = NoSession

DeferredToSomebody == pending => Ssh!Active # {}

ReleaseHeeded == ~used => pending \/ (Ssh!Active = {} /\ open = {})

SshInv == /\ ConnectionIsShared
          /\ ConnectsUnderLock
          /\ DeferredToSomebody
          /\ ReleaseHeeded

\* The instance has finite sets and cardinalities of its own; they are the same.
LEMMA SameCount ==
  \A S : Ssh!IsFiniteSet(S) = IsFiniteSet(S) /\ Ssh!Cardinality(S) = Cardinality(S)
<1>1. \A S : Ssh!IsFiniteSet(S) = IsFiniteSet(S)
  BY DEF Ssh!IsFiniteSet, IsFiniteSet
<1>2. \A S : Ssh!Cardinality(S) = Cardinality(S)
  BY DEF Ssh!Cardinality, Cardinality
<1> QED
  BY <1>1, <1>2

LEMMA SshFacts == IsFiniteSet(SshTasks) /\ NoSession \notin Conns /\ Closer \notin SshTasks
  BY ClientAssumptions, SameCount DEF Ssh!SshAssumptions

LEMMA ActiveCount ==
  /\ IsFiniteSet(Ssh!Active) /\ Cardinality(Ssh!Active) \in Nat
  /\ Cardinality(Ssh!Active) = 0 <=> Ssh!Active = {}
  /\ \A t : t \notin Ssh!Active =>
       Cardinality(Ssh!Active \cup {t}) = Cardinality(Ssh!Active) + 1
  /\ \A t : t \in Ssh!Active =>
       Cardinality(Ssh!Active \ {t}) = Cardinality(Ssh!Active) - 1
<1>1. IsFiniteSet(Ssh!Active)
  BY SshFacts, FS_Subset DEF Ssh!Active
<1> QED
  BY <1>1, FS_CardinalityType, FS_EmptySet, FS_AddElement, FS_RemoveElement

\* One command changes.
LEMMA Moved ==
  ASSUME Ssh!TypeOK, NEW t \in SshTasks, NEW d \in Ssh!CmdState,
         cmd' = [cmd EXCEPT ![t] = d]
  PROVE  /\ cmd' \in [SshTasks -> Ssh!CmdState]
         /\ cmd'[t] = d
         /\ \A u \in SshTasks \ {t} : cmd'[u] = cmd[u]
         /\ d.at \in Ssh!Inside => Ssh!Active' = Ssh!Active \cup {t}
         /\ d.at \notin Ssh!Inside => Ssh!Active' = Ssh!Active \ {t}
<1>1. /\ cmd' \in [SshTasks -> Ssh!CmdState]
      /\ cmd'[t] = d
      /\ \A u \in SshTasks \ {t} : cmd'[u] = cmd[u]
  BY DEF Ssh!TypeOK
<1> QED
  BY <1>1 DEF Ssh!Active

\* A command enters, with the lock taken or not.
LEMMA Entered ==
  ASSUME Ssh!TypeOK, NEW t \in SshTasks, NEW c \in Ssh!CmdState,
         \/ Ssh!Enter(t, c)
         \/ Ssh!Obtain(t, c) /\ lock = Closer
  PROVE  \E d \in Ssh!CmdState :
           /\ cmd' = [cmd EXCEPT ![t] = d]
           /\ d.at \in {"run", "connect", "lock"}
           /\ d.at = "connect" =>
                lock = Closer /\ lock' = t /\ conn' = NoSession /\ conn \notin open
           /\ d.at # "connect" => UNCHANGED <<conn, lock>>
           /\ d.at = "run" => conn \in open
<1>1. ASSUME Ssh!Obtain(t, c), lock = Closer
      PROVE  \E d \in Ssh!CmdState :
               /\ cmd' = [cmd EXCEPT ![t] = d]
               /\ d.at \in {"run", "connect", "lock"}
               /\ d.at = "connect" =>
                    lock = Closer /\ lock' = t /\ conn' = NoSession /\ conn \notin open
               /\ d.at # "connect" => UNCHANGED <<conn, lock>>
               /\ d.at = "run" => conn \in open
  <2>1. CASE conn \in open
    <3> DEFINE d == [c EXCEPT !.at = "run", !.on = conn]
    <3>1. d \in Ssh!CmdState /\ d.at = "run"
      BY DEF Ssh!TypeOK, Ssh!CmdState, Ssh!Inside
    <3> QED
      BY <1>1, <2>1, <3>1 DEF Ssh!Obtain
  <2>2. CASE conn \notin open
    <3> DEFINE d == [c EXCEPT !.at = "connect", !.on = NoSession]
    <3>1. d \in Ssh!CmdState /\ d.at = "connect"
      BY DEF Ssh!TypeOK, Ssh!CmdState, Ssh!Inside
    <3> QED
      BY <1>1, <2>2, <3>1 DEF Ssh!Obtain
  <2> QED
    BY <2>1, <2>2
<1>2. ASSUME Ssh!Enter(t, c), ~(Ssh!Obtain(t, c) /\ lock = Closer)
      PROVE  \E d \in Ssh!CmdState :
               cmd' = [cmd EXCEPT ![t] = d] /\ d.at = "lock" /\ UNCHANGED <<conn, lock>>
  <2>1. [c EXCEPT !.at = "lock", !.on = NoSession] \in Ssh!CmdState
    BY DEF Ssh!CmdState, Ssh!Inside
  <2> QED
    BY <1>2, <2>1 DEF Ssh!Enter, Ssh!CmdState
<1> QED
  BY <1>1, <1>2

\* Every connection that is not closed is the current one, so dropping that one
\* leaves none.
LEMMA Dropped ==
  ASSUME Ssh!OneConnection, Ssh!Drop
  PROVE  conn' = NoSession /\ open' = {}
BY DEF Ssh!OneConnection, Ssh!Drop

\* A command leaves.
LEMMA Left ==
  ASSUME SshInv, NEW t \in Ssh!Active, Ssh!Leave, Ssh!Active' = Ssh!Active \ {t}
  PROVE  /\ inflight' \in Nat /\ Ssh!InflightIsExact'
         /\ pending' \in BOOLEAN /\ DeferredToSomebody'
         /\ \/ UNCHANGED <<conn, open>>
            \/ conn' = NoSession /\ open' = {} /\ Ssh!Active' = {}
         /\ used' = used => ReleaseHeeded'
<1> USE DEF SshInv, ConnectionIsShared
<1>1. inflight = Cardinality(Ssh!Active) /\ inflight' = inflight - 1
  BY SameCount DEF Ssh!InflightIsExact, Ssh!Leave
<1>2. /\ Cardinality(Ssh!Active') = inflight' /\ inflight' \in Nat
      /\ inflight = 1 <=> Ssh!Active' = {}
  <2>1. Cardinality(Ssh!Active') = inflight'
    BY <1>1, ActiveCount
  <2>2. IsFiniteSet(Ssh!Active')
    BY ActiveCount, FS_RemoveElement
  <2>3. Cardinality(Ssh!Active') \in Nat /\ (Cardinality(Ssh!Active') = 0 <=> Ssh!Active' = {})
    BY <2>2, FS_CardinalityType, FS_EmptySet
  <2> QED
    BY <2>1, <2>3, <1>1, ActiveCount
<1>3. CASE inflight = 1 /\ pending
  <2>1. pending' = FALSE /\ conn' = NoSession /\ open' = {}
    BY <1>3, Dropped DEF Ssh!Leave
  <2> QED
    BY <2>1, <1>2, <1>3, SameCount
    DEF Ssh!InflightIsExact, DeferredToSomebody, ReleaseHeeded
<1>4. CASE ~(inflight = 1 /\ pending)
  <2>1. UNCHANGED <<pending, conn, open>>
    BY <1>4 DEF Ssh!Leave
  <2> QED
    BY <2>1, <1>2, <1>4, SameCount
    DEF Ssh!InflightIsExact, DeferredToSomebody, ReleaseHeeded, Ssh!TypeOK
<1> QED
  BY <1>3, <1>4

LEMMA EnteredKeeps ==
  ASSUME SshInv, NEW t \in SshTasks, NEW c \in Ssh!CmdState,
         \/ Ssh!Enter(t, c)
         \/ Ssh!Obtain(t, c) /\ lock = Closer,
         UNCHANGED <<open, useKey, pending, sshClosing, accepts>>,
         inflight' \in Nat, used' \in BOOLEAN
  PROVE  /\ Ssh!TypeOK' /\ Ssh!OneConnection' /\ ConnectsUnderLock'
         /\ Ssh!Active' = Ssh!Active \cup {t}
<1> USE DEF SshInv, ConnectionIsShared
<1>1. PICK d \in Ssh!CmdState :
        /\ cmd' = [cmd EXCEPT ![t] = d]
        /\ d.at \in {"run", "connect", "lock"}
        /\ d.at = "connect" =>
             lock = Closer /\ lock' = t /\ conn' = NoSession /\ conn \notin open
        /\ d.at # "connect" => UNCHANGED <<conn, lock>>
  BY Entered
<1>2. /\ cmd' \in [SshTasks -> Ssh!CmdState]
      /\ cmd'[t] = d
      /\ \A u \in SshTasks \ {t} : cmd'[u] = cmd[u]
      /\ Ssh!Active' = Ssh!Active \cup {t}
  BY <1>1, Moved DEF Ssh!Inside
<1>3. conn' \in {conn, NoSession} /\ lock' \in {lock, t}
  BY <1>1
<1>4. Ssh!TypeOK'
  BY <1>2, <1>3 DEF Ssh!TypeOK
<1>5. Ssh!OneConnection'
  BY <1>1 DEF Ssh!OneConnection
<1>6. ConnectsUnderLock'
  BY <1>1, <1>2, SshFacts DEF ConnectsUnderLock, Connecting
<1> QED
  BY <1>2, <1>4, <1>5, <1>6

\* What remains to be shown of the invariant: an idle router follows.
LEMMA SshInvFrom ==
  ASSUME Ssh!TypeOK', Ssh!InflightIsExact', Ssh!OneConnection', ConnectsUnderLock',
         DeferredToSomebody', ReleaseHeeded'
  PROVE  SshInv'
BY DEF SshInv, ConnectionIsShared, DeferredToSomebody, ReleaseHeeded, Ssh!ReleasedWhenIdle

\* An attempt of a command that is not under way.
LEMMA AttemptKeeps ==
  ASSUME SshInv, NEW t \in SshTasks, cmd[t].at \notin Ssh!Inside, Ssh!Attempt(t),
         used' = TRUE, UNCHANGED <<open, useKey, pending, sshClosing, accepts>>
  PROVE  SshInv'
<1> DEFINE c == [at |-> "lock", on |-> NoSession, first |-> TRUE, result |-> "none",
                 auth |-> IF useKey THEN "key" ELSE "password"]
<1>1. c \in Ssh!CmdState
  BY DEF Ssh!CmdState, Ssh!Inside, Ssh!Auth, Ssh!Result
<1>2. Ssh!Enter(t, c) /\ inflight' = inflight + 1
  BY DEF Ssh!Attempt
<1>3. t \notin Ssh!Active /\ inflight = Cardinality(Ssh!Active) /\ inflight \in Nat
  BY SameCount
  DEF Ssh!Active, SshInv, ConnectionIsShared, Ssh!InflightIsExact, Ssh!TypeOK
<1>4. /\ Ssh!TypeOK' /\ Ssh!OneConnection' /\ ConnectsUnderLock'
      /\ Ssh!Active' = Ssh!Active \cup {t}
  <2> HIDE DEF c
  <2> QED
    BY <1>1, <1>2, <1>3, EnteredKeeps
<1>5. Ssh!InflightIsExact'
  BY <1>2, <1>3, <1>4, ActiveCount, SameCount DEF Ssh!InflightIsExact
<1>6. DeferredToSomebody' /\ ReleaseHeeded'
  BY <1>4 DEF DeferredToSomebody, ReleaseHeeded
<1> QED
  BY <1>4, <1>5, <1>6, SshInvFrom

\* A command that is under way asks for the connection again.
LEMMA EntryKeeps ==
  ASSUME SshInv, NEW t \in Ssh!Active,
         \/ Ssh!Enter(t, cmd[t])
         \/ Ssh!Obtain(t, cmd[t]) /\ lock = Closer,
         UNCHANGED <<open, useKey, inflight, pending, sshClosing, accepts, used>>
  PROVE  SshInv'
<1>1. t \in SshTasks /\ cmd[t] \in Ssh!CmdState /\ inflight' \in Nat /\ used' \in BOOLEAN
  BY DEF Ssh!Active, SshInv, ConnectionIsShared, Ssh!TypeOK
<1>2. /\ Ssh!TypeOK' /\ Ssh!OneConnection' /\ ConnectsUnderLock'
      /\ Ssh!Active' = Ssh!Active \cup {t}
  BY <1>1, EnteredKeeps
<1>3. Ssh!InflightIsExact' /\ DeferredToSomebody' /\ ReleaseHeeded'
  BY <1>2
  DEF SshInv, ConnectionIsShared, Ssh!InflightIsExact, DeferredToSomebody, ReleaseHeeded
<1> QED
  BY <1>2, <1>3, SshInvFrom

\* A command ends, or leaves before it goes on elsewhere.
LEMMA LeaveKeeps ==
  ASSUME SshInv, NEW t \in Ssh!Active, Ssh!Leave,
         NEW d \in Ssh!CmdState, d.at \notin Ssh!Inside, cmd' = [cmd EXCEPT ![t] = d],
         lock' \in {lock, Closer}, lock' # lock => lock = t \/ cmd[t].at = "connect",
         useKey' \in BOOLEAN, UNCHANGED <<sshClosing, accepts, used>>
  PROVE  SshInv'
<1> USE DEF SshInv, ConnectionIsShared
<1>1. t \in SshTasks
  BY DEF Ssh!Active
<1>2. /\ cmd' \in [SshTasks -> Ssh!CmdState]
      /\ cmd'[t] = d
      /\ \A u \in SshTasks \ {t} : cmd'[u] = cmd[u]
      /\ Ssh!Active' = Ssh!Active \ {t}
  BY <1>1, Moved
<1>3. /\ inflight' \in Nat /\ Ssh!InflightIsExact'
      /\ pending' \in BOOLEAN /\ DeferredToSomebody' /\ ReleaseHeeded'
      /\ \/ UNCHANGED <<conn, open>>
         \/ conn' = NoSession /\ open' = {}
  BY <1>2, Left
<1>4. Ssh!TypeOK'
  BY <1>2, <1>3 DEF Ssh!TypeOK
<1>5. Ssh!OneConnection'
  BY <1>3 DEF Ssh!OneConnection
<1>6. lock' # lock => lock = t
  BY <1>1 DEF ConnectsUnderLock, Connecting
<1>7. ConnectsUnderLock'
  <2> SUFFICES ASSUME NEW u \in Connecting' PROVE lock' = u /\ conn' = NoSession
    BY DEF ConnectsUnderLock
  <2>1. u \in SshTasks \ {t} /\ u \in Connecting
    BY <1>2 DEF Connecting, Ssh!Inside
  <2>2. lock = u /\ conn = NoSession
    BY <2>1 DEF ConnectsUnderLock
  <2> QED
    BY <2>1, <2>2, <1>3, <1>6
<1> QED
  BY <1>3, <1>4, <1>5, <1>7, SshInvFrom

\* The steps of a command, by what they do to it.
LEMMA DoneType ==
  \A r \in Ssh!Result, a \in Ssh!Auth :
    Ssh!Done(r, a) \in Ssh!CmdState /\ Ssh!Done(r, a).at = "idle"
BY DEF Ssh!Done, Ssh!CmdState, Ssh!Inside

LEMMA EndKeeps ==
  ASSUME SshInv, NEW t \in SshTasks,
         \/ Ssh!Denied(t) \/ Ssh!ConnectFails(t) \/ Ssh!CommandEnds(t) \/ Ssh!CommandCut(t)
         \/ Ssh!ChannelFailsAgain(t) \/ Ssh!Timeout(t)
  PROVE  SshInv'
<1>1. cmd[t] \in Ssh!CmdState /\ cmd[t].auth \in Ssh!Auth
  BY DEF SshInv, ConnectionIsShared, Ssh!TypeOK, Ssh!CmdState
<1>2. t \in Ssh!Active
  BY DEF Ssh!Active, Ssh!Inside, Ssh!Denied, Ssh!ConnectFails, Ssh!CommandEnds,
     Ssh!CommandCut, Ssh!ChannelFailsAgain, Ssh!Timeout
<1>3. \A r \in {"denied", "failed", "ok"} :
        /\ Ssh!Done(r, cmd[t].auth) \in Ssh!CmdState
        /\ Ssh!Done(r, cmd[t].auth).at \notin Ssh!Inside
  BY <1>1, DoneType DEF Ssh!Result, Ssh!Inside
<1>4. \E d \in Ssh!CmdState :
        d.at \notin Ssh!Inside /\ cmd' = [cmd EXCEPT ![t] = d]
  <2>1. CASE Ssh!Denied(t)
    <3>1. [cmd[t] EXCEPT !.at = "again"] \in Ssh!CmdState
      BY <1>1 DEF Ssh!CmdState, Ssh!Inside
    <3> QED
      BY <2>1, <3>1, <1>1, <1>3 DEF Ssh!Denied, Ssh!CmdState, Ssh!Inside
  <2>2. CASE Ssh!Timeout(t)
    <3>1. [cmd[t] EXCEPT !.at = "release", !.on = NoSession] \in Ssh!CmdState
      BY <1>1 DEF Ssh!CmdState, Ssh!Inside
    <3> QED
      BY <2>2, <3>1, <1>1 DEF Ssh!Timeout, Ssh!CmdState, Ssh!Inside
  <2>3. CASE ~Ssh!Denied(t) /\ ~Ssh!Timeout(t)
    BY <2>3, <1>3 DEF Ssh!ConnectFails, Ssh!CommandEnds, Ssh!CommandCut,
       Ssh!ChannelFailsAgain
  <2> QED
    BY <2>1, <2>2, <2>3
<1>5. /\ Ssh!Leave
      /\ lock' \in {lock, Closer}
      /\ lock' # lock => lock = t \/ cmd[t].at = "connect"
      /\ useKey' \in BOOLEAN
      /\ UNCHANGED <<sshClosing, accepts, used>>
  BY DEF SshInv, ConnectionIsShared, Ssh!TypeOK, Ssh!Denied, Ssh!ConnectFails,
     Ssh!CommandEnds, Ssh!CommandCut, Ssh!ChannelFailsAgain, Ssh!Timeout
<1> QED
  BY <1>2, <1>4, <1>5, LeaveKeeps

\* A new connection is made while there is none.
LEMMA ConnectedKeeps ==
  ASSUME SshInv, NEW t \in SshTasks, Ssh!Connected(t) PROVE SshInv'
<1> USE DEF SshInv, ConnectionIsShared
<1>1. PICK c \in Conns : /\ conn' = c /\ open' = open \cup {c}
                         /\ cmd' = [cmd EXCEPT ![t].at = "run", ![t].on = c]
  BY DEF Ssh!Connected
<1>2. [cmd[t] EXCEPT !.at = "run", !.on = c] \in Ssh!CmdState
  BY DEF Ssh!TypeOK, Ssh!CmdState, Ssh!Inside
<1>3. cmd' = [cmd EXCEPT ![t] = [cmd[t] EXCEPT !.at = "run", !.on = c]]
  BY <1>1
<1>4. t \in Ssh!Active /\ t \in Connecting
  BY DEF Ssh!Connected, Ssh!Active, Ssh!Inside, Connecting
<1>5. [cmd[t] EXCEPT !.at = "run", !.on = c].at = "run"
  BY DEF Ssh!TypeOK, Ssh!CmdState
<1>6. /\ cmd' \in [SshTasks -> Ssh!CmdState]
      /\ cmd'[t].at = "run"
      /\ \A u \in SshTasks \ {t} : cmd'[u] = cmd[u]
      /\ Ssh!Active' = Ssh!Active \cup {t}
  BY <1>2, <1>3, <1>5, Moved DEF Ssh!Inside
<1>7. lock = t /\ conn = NoSession /\ open = {}
  BY <1>4, SshFacts DEF ConnectsUnderLock, Ssh!OneConnection, Ssh!TypeOK
<1>8. Ssh!TypeOK'
  BY <1>1, <1>6 DEF Ssh!Connected, Ssh!TypeOK
<1>9. Ssh!OneConnection'
  BY <1>1, <1>7 DEF Ssh!OneConnection
<1>10. ConnectsUnderLock'
  BY <1>6, <1>7 DEF ConnectsUnderLock, Connecting
<1>11. Ssh!InflightIsExact' /\ DeferredToSomebody' /\ ReleaseHeeded'
  BY <1>4, <1>6 DEF Ssh!Connected, Ssh!InflightIsExact, DeferredToSomebody, ReleaseHeeded
<1> QED
  BY <1>8, <1>9, <1>10, <1>11, SshInvFrom

LEMMA ChannelFailsKeeps ==
  ASSUME SshInv, NEW t \in SshTasks, Ssh!ChannelFails(t) PROVE SshInv'
<1> USE DEF SshInv, ConnectionIsShared
<1> DEFINE d == [cmd[t] EXCEPT !.at = "reconnect", !.on = NoSession, !.first = FALSE]
<1>1. d \in Ssh!CmdState /\ d.at = "reconnect" /\ cmd' = [cmd EXCEPT ![t] = d]
  BY DEF Ssh!ChannelFails, Ssh!TypeOK, Ssh!CmdState, Ssh!Inside
<1> HIDE DEF d
<1>2. /\ cmd' \in [SshTasks -> Ssh!CmdState]
      /\ cmd'[t].at = "reconnect"
      /\ \A u \in SshTasks \ {t} : cmd'[u] = cmd[u]
      /\ Ssh!Active' = Ssh!Active \cup {t}
  BY <1>1, Moved DEF Ssh!Inside
<1>3. t \in Ssh!Active
  BY DEF Ssh!ChannelFails, Ssh!Active, Ssh!Inside
<1>4. conn' = NoSession /\ open' = {}
  BY Dropped DEF Ssh!ChannelFails
<1>5. Ssh!TypeOK' /\ Ssh!OneConnection'
  BY <1>2, <1>4 DEF Ssh!ChannelFails, Ssh!TypeOK, Ssh!OneConnection
<1>6. ConnectsUnderLock'
  BY <1>2, <1>4 DEF Ssh!ChannelFails, ConnectsUnderLock, Connecting
<1>7. Ssh!InflightIsExact' /\ DeferredToSomebody' /\ ReleaseHeeded'
  BY <1>2, <1>3, <1>4
  DEF Ssh!ChannelFails, Ssh!InflightIsExact, DeferredToSomebody, ReleaseHeeded
<1> QED
  BY <1>5, <1>6, <1>7, SshInvFrom

\* A release, after a timeout or at the end of a poll.
LEMMA ReleaseKeeps ==
  ASSUME SshInv, Ssh!Release, used' = FALSE, Ssh!Active' = Ssh!Active,
         cmd' \in [SshTasks -> Ssh!CmdState],
         \A t \in SshTasks : cmd'[t].at = "connect" => cmd[t].at = "connect",
         UNCHANGED <<lock, useKey, inflight, sshClosing, accepts>>
  PROVE  SshInv'
<1> USE DEF SshInv, ConnectionIsShared
<1>1. inflight \in Nat /\ (inflight > 0 <=> Ssh!Active # {})
  BY ActiveCount, SameCount DEF Ssh!InflightIsExact, Ssh!TypeOK
<1>2. /\ inflight > 0 => pending' = TRUE /\ UNCHANGED <<conn, open>>
      /\ ~(inflight > 0) => pending' = FALSE /\ conn' = NoSession /\ open' = {}
  BY Dropped DEF Ssh!Release
<1>3. Ssh!TypeOK' /\ Ssh!OneConnection'
  BY <1>1, <1>2 DEF Ssh!TypeOK, Ssh!OneConnection
<1>4. ConnectsUnderLock'
  BY <1>1, <1>2 DEF ConnectsUnderLock, Connecting
<1>5. Ssh!InflightIsExact' /\ DeferredToSomebody' /\ ReleaseHeeded'
  BY <1>1, <1>2 DEF Ssh!InflightIsExact, DeferredToSomebody, ReleaseHeeded
<1> QED
  BY <1>3, <1>4, <1>5, SshInvFrom

LEMMA SshStep == SshInv /\ [Ssh!Next]_(Ssh!vars) => SshInv'
<1> SUFFICES ASSUME SshInv, [Ssh!Next]_(Ssh!vars) PROVE SshInv'
  OBVIOUS
<1> USE DEF SshInv, ConnectionIsShared
<1>1. ASSUME NEW t \in SshTasks, Ssh!Start(t) PROVE SshInv'
  BY <1>1, AttemptKeeps DEF Ssh!Start, Ssh!Inside
<1>2. ASSUME NEW t \in SshTasks, Ssh!Command(t) PROVE SshInv'
  <2>1. CASE Ssh!LockGranted(t) \/ Ssh!Reconnect(t)
    <3>1. t \in Ssh!Active
      BY <2>1 DEF Ssh!LockGranted, Ssh!Reconnect, Ssh!Active, Ssh!Inside
    <3> QED
      BY <2>1, <3>1, EntryKeeps DEF Ssh!LockGranted, Ssh!Reconnect
  <2>2. CASE Ssh!Connected(t)
    BY <2>2, ConnectedKeeps
  <2>3. CASE Ssh!Again(t)
    BY <2>3, AttemptKeeps DEF Ssh!Again, Ssh!Inside
  <2>4. CASE \/ Ssh!Denied(t) \/ Ssh!ConnectFails(t) \/ Ssh!CommandEnds(t)
             \/ Ssh!CommandCut(t) \/ Ssh!ChannelFailsAgain(t) \/ Ssh!Timeout(t)
    BY <2>4, EndKeeps
  <2>5. CASE Ssh!ChannelFails(t)
    BY <2>5, ChannelFailsKeeps
  <2>6. CASE Ssh!ReleaseAfterTimeout(t)
    <3> DEFINE d == Ssh!Done("timeout", cmd[t].auth)
    <3>1. cmd[t].auth \in Ssh!Auth
      BY DEF Ssh!TypeOK, Ssh!CmdState
    <3>2. d \in Ssh!CmdState /\ d.at = "idle" /\ cmd' = [cmd EXCEPT ![t] = d]
      BY <2>6, <3>1, DoneType DEF Ssh!ReleaseAfterTimeout, Ssh!Result
    <3> HIDE DEF d
    <3>3. /\ cmd' \in [SshTasks -> Ssh!CmdState]
          /\ cmd'[t].at = "idle"
          /\ \A u \in SshTasks \ {t} : cmd'[u] = cmd[u]
          /\ Ssh!Active' = Ssh!Active \ {t}
      BY <3>2, Moved DEF Ssh!Inside
    <3>4. t \notin Ssh!Active
      BY <2>6 DEF Ssh!ReleaseAfterTimeout, Ssh!Active, Ssh!Inside
    <3> QED
      BY <2>6, <3>3, <3>4, ReleaseKeeps DEF Ssh!ReleaseAfterTimeout
  <2> QED
    BY <1>2, <2>1, <2>2, <2>3, <2>4, <2>5, <2>6 DEF Ssh!Command
<1>3. CASE Ssh!PollEnds
  <2>1. Ssh!Active' = Ssh!Active /\ cmd' \in [SshTasks -> Ssh!CmdState]
    BY <1>3 DEF Ssh!PollEnds, Ssh!Active, Ssh!TypeOK
  <2> QED
    BY <1>3, <2>1, ReleaseKeeps DEF Ssh!PollEnds
<1>4. ASSUME UNCHANGED <<lock, useKey, inflight, pending, cmd, accepts, used>>,
             sshClosing' \in {"no", "closing", "closed"},
             conn' \in {conn, NoSession}, open' \subseteq open, open' \subseteq {conn'}
      PROVE  SshInv'
  <2>1. Ssh!TypeOK' /\ Ssh!OneConnection' /\ ConnectsUnderLock'
    BY <1>4 DEF Ssh!TypeOK, Ssh!OneConnection, ConnectsUnderLock, Connecting
  <2>2. Ssh!InflightIsExact' /\ DeferredToSomebody' /\ ReleaseHeeded'
    BY <1>4 DEF Ssh!InflightIsExact, Ssh!Active, DeferredToSomebody, ReleaseHeeded
  <2> QED
    BY <2>1, <2>2, SshInvFrom
<1>5. CASE Ssh!Close
  BY <1>5, <1>4 DEF Ssh!Close, Ssh!OneConnection
<1>6. CASE Ssh!CloseDrops
  BY <1>6, <1>4, Dropped DEF Ssh!CloseDrops
<1>7. CASE Ssh!ServerCloses
  BY <1>7, <1>4 DEF Ssh!ServerCloses, Ssh!TypeOK, Ssh!OneConnection
<1>8. CASE UNCHANGED Ssh!vars
  BY <1>8, <1>4 DEF Ssh!vars, Ssh!TypeOK, Ssh!OneConnection
<1> QED
  BY <1>1, <1>2, <1>3, <1>5, <1>6, <1>7, <1>8 DEF Ssh!Next

LEMMA SshInit == Ssh!Init => SshInv
<1> SUFFICES ASSUME Ssh!Init PROVE SshInv
  OBVIOUS
<1>1. \A t \in SshTasks : cmd[t] \in Ssh!CmdState /\ cmd[t].at = "idle"
  BY DoneType DEF Ssh!Init, Ssh!Result, Ssh!Auth
<1>2. Ssh!Active = {} /\ Connecting = {}
  BY <1>1 DEF Ssh!Active, Ssh!Inside, Connecting
<1>3. Ssh!TypeOK
  BY <1>1 DEF Ssh!Init, Ssh!TypeOK
<1>4. Ssh!InflightIsExact
  BY <1>2, SameCount, FS_EmptySet DEF Ssh!Init, Ssh!InflightIsExact
<1> QED
  BY <1>2, <1>3, <1>4
  DEF Ssh!Init, SshInv, ConnectionIsShared, Ssh!OneConnection, Ssh!ReleasedWhenIdle,
      ConnectsUnderLock, DeferredToSomebody, ReleaseHeeded

\* However the commands of a router interleave, fail, time out and try again, they hold
\* one SSH session between them, count its users exactly and close it when the last one
\* is done after a release was asked for.
THEOREM ConnectionStaysShared == Ssh!Spec => []ConnectionIsShared
<1>1. SshInv => ConnectionIsShared
  BY DEF SshInv
<1> QED
  BY <1>1, SshInit, SshStep, PTL DEF Ssh!Spec

LEMMA ReleaseSparesStep ==
  ASSUME SshInv, [Ssh!Next]_(Ssh!vars),
         conn \in open, conn' # conn, sshClosing = "no",
         \A t \in SshTasks : cmd'[t].at = "reconnect" => cmd[t].at = "reconnect",
         NEW t \in SshTasks, cmd[t].at = "run", cmd'[t].at = "run"
  PROVE  cmd[t].on # conn
<1> USE DEF SshInv, ConnectionIsShared
<1>0. t \in Ssh!Active /\ conn # NoSession /\ cmd[t] \in Ssh!CmdState
  BY SshFacts DEF Ssh!Active, Ssh!Inside, Ssh!TypeOK
<1>1. inflight \in Nat /\ inflight = Cardinality(Ssh!Active) /\ inflight > 0
  BY <1>0, ActiveCount, SameCount DEF Ssh!InflightIsExact, Ssh!TypeOK
\* A command that leaves does not drop the connection while this one stays.
<1>2. ASSUME NEW u \in SshTasks \ {t}, u \in Ssh!Active, Ssh!Leave PROVE conn' = conn
  <2>1. Ssh!Active \ {u} # {}
    BY <1>0, <1>2
  <2>2. Cardinality(Ssh!Active \ {u}) = inflight - 1 /\ IsFiniteSet(Ssh!Active \ {u})
    BY <1>1, <1>2, ActiveCount, FS_RemoveElement
  <2>3. inflight # 1
    BY <2>1, <2>2, FS_EmptySet
  <2> QED
    BY <2>3, <1>2 DEF Ssh!Leave
<1>3. Ssh!Release => conn' = conn
  BY <1>1 DEF Ssh!Release
<1>4. \A u \in SshTasks : \A c : Ssh!Obtain(u, c) \/ Ssh!Enter(u, c) => conn' = conn
  BY DEF Ssh!Obtain, Ssh!Enter
<1>5. \A u \in SshTasks : ~Ssh!Connected(u)
  BY <1>0 DEF Ssh!Connected, ConnectsUnderLock, Connecting
<1>6. \A u \in SshTasks : ~Ssh!ChannelFails(u)
  BY DEF Ssh!ChannelFails, Ssh!TypeOK, Ssh!CmdState
<1>7. ASSUME NEW u \in SshTasks,
             \/ Ssh!Denied(u) \/ Ssh!ConnectFails(u) \/ Ssh!CommandEnds(u)
             \/ Ssh!CommandCut(u) \/ Ssh!ChannelFailsAgain(u) \/ Ssh!Timeout(u)
      PROVE  conn' = conn
  <2>1. u \in Ssh!Active /\ Ssh!Leave
    BY <1>7 DEF Ssh!Active, Ssh!Inside, Ssh!Denied, Ssh!ConnectFails, Ssh!CommandEnds,
       Ssh!CommandCut, Ssh!ChannelFailsAgain, Ssh!Timeout
  <2>2. cmd'[u].at # "run"
    <3>1. cmd[u] \in Ssh!CmdState
      BY DEF Ssh!TypeOK
    <3>2. \A r : Ssh!Done(r, cmd[u].auth).at # "run"
      BY DEF Ssh!Done
    <3>3. CASE Ssh!Denied(u)
      BY <3>1, <3>2, <3>3 DEF Ssh!Denied, Ssh!TypeOK, Ssh!CmdState
    <3>4. CASE Ssh!Timeout(u)
      BY <3>1, <3>4 DEF Ssh!Timeout, Ssh!TypeOK, Ssh!CmdState
    <3>5. CASE ~Ssh!Denied(u) /\ ~Ssh!Timeout(u)
      BY <1>7, <3>2, <3>5 DEF Ssh!ConnectFails, Ssh!CommandEnds, Ssh!CommandCut,
         Ssh!ChannelFailsAgain, Ssh!TypeOK
    <3> QED
      BY <3>3, <3>4, <3>5
  <2> QED
    BY <2>1, <2>2, <1>2
<1>8. ASSUME NEW u \in SshTasks, Ssh!Start(u) \/ Ssh!Command(u) PROVE FALSE
  BY <1>8, <1>3, <1>4, <1>5, <1>6, <1>7
  DEF Ssh!Start, Ssh!Command, Ssh!Attempt, Ssh!LockGranted, Ssh!Again, Ssh!Reconnect,
      Ssh!ReleaseAfterTimeout
<1> QED
  BY <1>3, <1>8
  DEF Ssh!Next, Ssh!vars, Ssh!PollEnds, Ssh!Close, Ssh!CloseDrops, Ssh!ServerCloses

\* The connection of a running command is closed by the API object only on unload, or
\* when another command found it unusable: a release never does it.
THEOREM ReleaseNeverCutsOff == Ssh!Spec => ReleaseSparesCommands
<1>1. SshInv /\ [Ssh!Next]_(Ssh!vars) =>
        [(/\ conn \in open /\ conn' # conn
          /\ sshClosing = "no"
          /\ \A t \in SshTasks : cmd'[t].at = "reconnect" => cmd[t].at = "reconnect")
         => \A t \in SshTasks :
              cmd[t].at = "run" /\ cmd'[t].at = "run" => cmd[t].on # conn]_(Ssh!vars)
  BY ReleaseSparesStep
<1> QED
  BY <1>1, SshInit, SshStep, PTL DEF Ssh!Spec, ReleaseSparesCommands, Ssh!ReleaseSparesCommands

(***************************************************************************)
(* The Wi-Fi switch commands.                                               *)
(*                                                                          *)
(* A command that reports success either still owns what it staged when its *)
(* commit or apply is carried out, or the books say where its change went.  *)
(* So between the answer to its set and that to its commit it owns a        *)
(* section, or its change has landed or is lost.                            *)
(***************************************************************************)
Owns(t) == \E s \in Sections : owner[s] = t

Accounted(t) == t \in landed \cup lost

Books(t) ==
  LET c == wifiCmd[t] IN
  /\ c.at = "set" => ~Owns(t)
  /\ c.at \in {"commit", "apply"} => Owns(t) \/ Accounted(t)
  /\ c.at = "reload" => Accounted(t) /\ ~Owns(t)
  /\ c.at = "ssh" /\ ~c.dirty => ~Owns(t)
  /\ c.at = "idle" /\ c.result = "true" => Accounted(t) /\ (~c.dirty => ~Owns(t))

WifiInv == Wifi!TypeOK /\ \A t \in WifiTasks : Books(t)

LEMMA WifiFacts == Closer \notin WifiTasks /\ NoSession \notin BOOLEAN /\ Sections # {}
  BY ClientAssumptions DEF Wifi!WifiAssumptions

\* What the router does for t leaves the books of everybody else right.
Others(t) ==
  \A u \in WifiTasks \ {t} : /\ Accounted(u) => Accounted(u)'
                             /\ ~Owns(u) => ~Owns(u)'
                             /\ Owns(u) => Owns(u)' \/ Accounted(u)'

\* The types of what a request changes on the router.
RouterTypes == /\ staged' \in [Sections -> BOOLEAN \cup {NoSession}]
               /\ owner' \in [Sections -> WifiTasks \cup {Closer}]
               /\ committed' \in [Sections -> BOOLEAN]
               /\ landed' \subseteq WifiTasks /\ lost' \subseteq WifiTasks

\* Committing and discarding settle what everybody owns.
LEMMA Settles ==
  ASSUME Wifi!TypeOK, Wifi!CommitStaged \/ Wifi!DiscardStaged
  PROVE  /\ RouterTypes
         /\ \A u \in WifiTasks : ~Owns(u)' /\ (Owns(u) \/ Accounted(u) => Accounted(u)')
<1>1. \A u \in WifiTasks : Owns(u) => u \in Wifi!Owners
  BY WifiFacts DEF Owns, Wifi!Owners
<1>2. owner' = [s \in Sections |-> Closer] /\ staged' = [s \in Sections |-> NoSession]
  BY DEF Wifi!CommitStaged, Wifi!DiscardStaged, Wifi!NoOwner, Wifi!NothingStaged
<1>3. Wifi!Owners \subseteq WifiTasks
  BY DEF Wifi!Owners, Wifi!TypeOK
<1>4. RouterTypes
  BY <1>2, <1>3 DEF RouterTypes, Wifi!CommitStaged, Wifi!DiscardStaged, Wifi!TypeOK
<1>5. \A u \in WifiTasks : ~Owns(u)'
  BY <1>2, WifiFacts DEF Owns
<1>6. \A u \in WifiTasks : Owns(u) \/ Accounted(u) => Accounted(u)'
  BY <1>1 DEF Accounted, Wifi!CommitStaged, Wifi!DiscardStaged
<1> QED
  BY <1>4, <1>5, <1>6

\* Staging a change takes the section from whoever owned it.
LEMMA Stages ==
  ASSUME Wifi!TypeOK, NEW t \in WifiTasks, Wifi!StageChange(t)
  PROVE  RouterTypes /\ Owns(t)' /\ Others(t)
<1> DEFINE s == wifiCmd[t].section
<1>1. s \in Sections /\ wifiCmd[t].enabled \in BOOLEAN
  BY DEF Wifi!TypeOK, Wifi!Command
<1>2. /\ staged' = [staged EXCEPT ![s] = wifiCmd[t].enabled]
      /\ owner' = [owner EXCEPT ![s] = t]
      /\ lost' = lost \cup ({owner[s]} \ {Closer, t})
      /\ UNCHANGED <<committed, landed>>
  BY DEF Wifi!StageChange
<1> HIDE DEF s
<1>3. owner'[s] = t /\ \A x \in Sections \ {s} : owner'[x] = owner[x]
  BY <1>1, <1>2 DEF Wifi!TypeOK
<1>4. Others(t)
  <2> SUFFICES ASSUME NEW u \in WifiTasks \ {t}
               PROVE  /\ Accounted(u) => Accounted(u)'
                      /\ ~Owns(u) => ~Owns(u)'
                      /\ Owns(u) => Owns(u)' \/ Accounted(u)'
    BY DEF Others
  <2>1. Accounted(u) => Accounted(u)'
    BY <1>2 DEF Accounted
  <2>2. ~Owns(u) => ~Owns(u)'
    BY <1>3 DEF Owns
  <2>3. owner[s] = u => Accounted(u)'
    BY <1>2, WifiFacts DEF Accounted
  <2> QED
    BY <1>3, <2>1, <2>2, <2>3 DEF Owns
<1>5. RouterTypes
  BY <1>1, <1>2 DEF RouterTypes, Wifi!TypeOK
<1> QED
  BY <1>1, <1>3, <1>4, <1>5 DEF Owns

LEMMA NothingHappens ==
  ASSUME Wifi!TypeOK, Wifi!NoEffect
  PROVE  /\ RouterTypes
         /\ \A u \in WifiTasks : (Owns(u)' <=> Owns(u)) /\ (Accounted(u)' <=> Accounted(u))
BY DEF RouterTypes, Wifi!TypeOK, Wifi!NoEffect, Owns, Accounted

LEMMA Directly ==
  ASSUME Wifi!TypeOK, NEW t \in WifiTasks, Wifi!CommitDirectly(t)
  PROVE  /\ RouterTypes /\ Accounted(t)' /\ Others(t)
         /\ Owns(t)' <=> Owns(t)
<1>1. wifiCmd[t].section \in Sections /\ wifiCmd[t].enabled \in BOOLEAN
  BY DEF Wifi!TypeOK, Wifi!Command
<1>2. RouterTypes
  BY <1>1 DEF RouterTypes, Wifi!TypeOK, Wifi!CommitDirectly
<1> QED
  BY <1>2 DEF Wifi!CommitDirectly, Owns, Accounted, Others

\* The command of t goes on to d, and the router did something.
LEMMA GoesOn ==
  ASSUME WifiInv, NEW t \in WifiTasks, NEW d \in Wifi!Command,
         wifiCmd' = [wifiCmd EXCEPT ![t] = d], RouterTypes, Others(t),
         d.at = "set" => ~Owns(t)',
         d.at \in {"commit", "apply"} => Owns(t)' \/ Accounted(t)',
         d.at = "reload" => Accounted(t)' /\ ~Owns(t)',
         d.at = "ssh" /\ ~d.dirty => ~Owns(t)',
         d.at = "idle" /\ d.result = "true" => Accounted(t)' /\ (~d.dirty => ~Owns(t)')
  PROVE  WifiInv'
<1>1. wifiCmd' \in [WifiTasks -> Wifi!Command] /\ wifiCmd'[t] = d
  BY DEF WifiInv, Wifi!TypeOK
<1>2. Wifi!TypeOK'
  BY <1>1 DEF Wifi!TypeOK, RouterTypes
<1>3. ASSUME NEW u \in WifiTasks PROVE Books(u)'
  <2>1. CASE u = t
    BY <2>1, <1>1 DEF Books
  <2>2. CASE u # t
    <3>1. wifiCmd'[u] = wifiCmd[u] /\ Books(u)
      BY <2>2 DEF WifiInv, Wifi!TypeOK
    <3>2. /\ Accounted(u) => Accounted(u)'
          /\ ~Owns(u) => ~Owns(u)'
          /\ Owns(u) => Owns(u)' \/ Accounted(u)'
      BY <2>2 DEF Others, Accounted, Owns
    <3> QED
      BY <3>1, <3>2 DEF Books
  <2> QED
    BY <2>1, <2>2
<1> QED
  BY <1>2, <1>3 DEF WifiInv

LEMMA WifiInit == Wifi!Init => WifiInv
<1> SUFFICES ASSUME Wifi!Init PROVE WifiInv
  OBVIOUS
<1> DEFINE s == CHOOSE x \in Sections : TRUE
<1>1. s \in Sections
  BY WifiFacts
<1>2. wifiCmd = [t \in WifiTasks |-> Wifi!Fresh("idle", s, TRUE)]
  BY DEF Wifi!Init
<1> HIDE DEF s
<1>3. \A t \in WifiTasks : /\ wifiCmd[t] \in Wifi!Command
                           /\ wifiCmd[t].at = "idle" /\ wifiCmd[t].result = "none"
  BY <1>1, <1>2 DEF Wifi!Fresh, Wifi!Command
<1>4. Wifi!TypeOK
  BY <1>2, <1>3 DEF Wifi!Init, Wifi!TypeOK, Wifi!NothingStaged, Wifi!NoOwner
<1> QED
  BY <1>3, <1>4 DEF WifiInv, Books

\* Where a command goes on.
LEMMA Goes ==
  ASSUME NEW t \in WifiTasks, wifiCmd[t] \in Wifi!Command
  PROVE  /\ \A stage \in Wifi!Stage : Wifi!Goto(t, stage) =>
              \E d \in Wifi!Command : /\ wifiCmd' = [wifiCmd EXCEPT ![t] = d]
                                      /\ d.at = stage
         /\ \A dirty \in BOOLEAN : Wifi!ToSsh(t, dirty) =>
              \E d \in Wifi!Command : /\ wifiCmd' = [wifiCmd EXCEPT ![t] = d]
                                      /\ d.at = "ssh" /\ (dirty => d.dirty)
         /\ \A result \in {"true", "raised"} : Wifi!End(t, result) =>
              \E d \in Wifi!Command : /\ wifiCmd' = [wifiCmd EXCEPT ![t] = d]
                                      /\ d.at = "idle" /\ d.result = result
                                      /\ d.dirty = wifiCmd[t].dirty
<1> DEFINE c == wifiCmd[t]
<1>1. ASSUME NEW stage \in Wifi!Stage, Wifi!Goto(t, stage)
      PROVE  \E d \in Wifi!Command : /\ wifiCmd' = [wifiCmd EXCEPT ![t] = d]
                                     /\ d.at = stage
  <2>1. [c EXCEPT !.at = stage] \in Wifi!Command /\ [c EXCEPT !.at = stage].at = stage
    BY DEF Wifi!Command
  <2> QED
    BY <1>1, <2>1 DEF Wifi!Goto
<1>2. ASSUME NEW dirty \in BOOLEAN, Wifi!ToSsh(t, dirty)
      PROVE  \E d \in Wifi!Command : /\ wifiCmd' = [wifiCmd EXCEPT ![t] = d]
                                     /\ d.at = "ssh" /\ (dirty => d.dirty)
  <2> DEFINE d == [c EXCEPT !.at = "ssh", !.ssh = TRUE, !.dirty = @ \/ dirty]
  <2>1. d \in Wifi!Command /\ d.at = "ssh" /\ (dirty => d.dirty)
    BY DEF Wifi!Command, Wifi!Stage
  <2>2. wifiCmd' = [wifiCmd EXCEPT ![t] = d]
    BY <1>2 DEF Wifi!ToSsh
  <2> QED
    BY <2>1, <2>2
<1>3. ASSUME NEW result \in {"true", "raised"}, Wifi!End(t, result)
      PROVE  \E d \in Wifi!Command : /\ wifiCmd' = [wifiCmd EXCEPT ![t] = d]
                                     /\ d.at = "idle" /\ d.result = result
                                     /\ d.dirty = c.dirty
  <2> DEFINE d == [c EXCEPT !.at = "idle", !.result = result]
  <2>1. d \in Wifi!Command /\ d.at = "idle" /\ d.result = result /\ d.dirty = c.dirty
    BY DEF Wifi!Command
  <2> QED
    BY <1>3, <2>1 DEF Wifi!End
<1> QED
  BY <1>1, <1>2, <1>3

LEMMA WifiStep == WifiInv /\ [Wifi!Next]_(Wifi!vars) => WifiInv'
<1> SUFFICES ASSUME WifiInv, [Wifi!Next]_(Wifi!vars) PROVE WifiInv'
  OBVIOUS
<1>0. Wifi!TypeOK /\ \A t \in WifiTasks : Books(t) /\ wifiCmd[t] \in Wifi!Command
  BY DEF WifiInv, Wifi!TypeOK
<1>8. ASSUME NEW t \in WifiTasks,
             \A u \in WifiTasks : ~Owns(u)' /\ (Owns(u) \/ Accounted(u) => Accounted(u)')
      PROVE  Others(t)
  BY <1>8 DEF Others, Owns, Accounted
<1>9. ASSUME NEW t \in WifiTasks,
             \A u \in WifiTasks : (Owns(u)' <=> Owns(u)) /\ (Accounted(u)' <=> Accounted(u))
      PROVE  Others(t)
  BY <1>9 DEF Others, Owns, Accounted
<1>1. ASSUME NEW t \in WifiTasks, NEW s \in Sections, NEW e \in BOOLEAN, Wifi!Start(t, s, e)
      PROVE  WifiInv'
  <2> DEFINE d == Wifi!Fresh("set", s, e)
  <2>1. d \in Wifi!Command /\ d.at = "set" /\ wifiCmd' = [wifiCmd EXCEPT ![t] = d]
    BY <1>1 DEF Wifi!Start, Wifi!Fresh, Wifi!Command, Wifi!Stage
  <2> HIDE DEF d
  <2>2. /\ owner' = [x \in Sections |-> IF owner[x] = t THEN Closer ELSE owner[x]]
        /\ landed' = landed \ {t} /\ lost' = lost \ {t}
        /\ UNCHANGED <<staged, committed>>
    BY <1>1 DEF Wifi!Start
  <2>3. RouterTypes
    BY <1>0, <2>2 DEF RouterTypes, Wifi!TypeOK
  <2>4. Others(t)
    BY <2>2, WifiFacts DEF Others, Owns, Accounted
  <2>5. ~Owns(t)'
    BY <2>2, WifiFacts DEF Owns
  <2> QED
    BY <2>1, <2>3, <2>4, <2>5, GoesOn
<1>2. ASSUME NEW t \in WifiTasks, NEW a \in Wifi!Answers, Wifi!SetAnswered(t, a)
      PROVE  WifiInv'
  <2>1. \E d \in Wifi!Command :
          /\ wifiCmd' = [wifiCmd EXCEPT ![t] = d]
          /\ \/ d.at = "commit" /\ a = "ok"
             \/ d.at = "idle" /\ d.result = "raised"
             \/ d.at = "ssh" /\ d.dirty
    <3>1. CASE a = "ok"
      BY <1>0, <1>2, <3>1, Goes DEF Wifi!SetAnswered, Wifi!Stage
    <3>2. CASE a = "denied"
      BY <1>0, <1>2, <3>2, Goes DEF Wifi!SetAnswered
    <3>3. CASE a \notin {"ok", "denied"}
      BY <1>0, <1>2, <3>3, Goes DEF Wifi!SetAnswered
    <3> QED
      BY <3>1, <3>2, <3>3
  <2>2. RouterTypes /\ Others(t) /\ (a = "ok" => Owns(t)')
    BY <1>0, <1>2, <1>9, Stages, NothingHappens DEF Wifi!SetAnswered, Wifi!Request
  <2> QED
    BY <2>1, <2>2, GoesOn
<1>3. ASSUME NEW t \in WifiTasks, NEW a \in Wifi!Answers, Wifi!CommitAnswered(t, a)
      PROVE  WifiInv'
  <2>1. \E d \in Wifi!Command :
          /\ wifiCmd' = [wifiCmd EXCEPT ![t] = d]
          /\ \/ d.at = "reload" /\ a = "ok"
             \/ d.at = "apply"
             \/ d.at = "idle" /\ d.result = "raised"
    <3>1. CASE a \in {"ok", "denied"}
      BY <1>0, <1>3, <3>1, Goes DEF Wifi!CommitAnswered, Wifi!Stage
    <3>2. CASE a \notin {"ok", "denied"}
      <4> DEFINE d == [wifiCmd[t] EXCEPT !.at = "idle", !.result = "raised",
                                         !.blocked = (a = "blocked")]
      <4>1. d \in Wifi!Command /\ d.at = "idle" /\ d.result = "raised"
        BY <1>0 DEF Wifi!Command
      <4>2. wifiCmd' = [wifiCmd EXCEPT ![t] = d]
        BY <1>3, <3>2 DEF Wifi!CommitAnswered
      <4> QED
        BY <4>1, <4>2
    <3> QED
      BY <3>1, <3>2
  <2>2. Owns(t) \/ Accounted(t)
    BY <1>0, <1>3 DEF Wifi!CommitAnswered, Books
  <2>3. /\ RouterTypes /\ Others(t)
        /\ Owns(t)' \/ Accounted(t)'
        /\ a = "ok" => Accounted(t)' /\ ~Owns(t)'
    BY <1>0, <1>3, <1>8, <1>9, <2>2, Settles, NothingHappens
    DEF Wifi!CommitAnswered, Wifi!Request
  <2> QED
    BY <2>1, <2>3, GoesOn
<1>4. ASSUME NEW t \in WifiTasks, NEW a \in Wifi!Answers, Wifi!ApplyAnswered(t, a)
      PROVE  WifiInv'
  <2>1. \E d \in Wifi!Command :
          /\ wifiCmd' = [wifiCmd EXCEPT ![t] = d]
          /\ \/ d.at = "idle" /\ d.result = "true" /\ a = "ok"
             \/ d.at = "idle" /\ d.result = "raised"
             \/ d.at = "revert"
    BY <1>0, <1>4, Goes DEF Wifi!ApplyAnswered, Wifi!Stage
  <2>2. Owns(t) \/ Accounted(t)
    BY <1>0, <1>4 DEF Wifi!ApplyAnswered, Books
  <2>3. RouterTypes /\ Others(t) /\ (a = "ok" => Accounted(t)' /\ ~Owns(t)')
    BY <1>0, <1>4, <1>8, <1>9, <2>2, Settles, NothingHappens
    DEF Wifi!ApplyAnswered, Wifi!Request
  <2> QED
    BY <2>1, <2>3, GoesOn
<1>5. ASSUME NEW t \in WifiTasks, NEW a \in Wifi!Answers,
             Wifi!RevertAnswered(t, a) \/ Wifi!ReloadAnswered(t, a)
      PROVE  WifiInv'
  <2>1. CASE Wifi!RevertAnswered(t, a)
    <3>1. \E d \in Wifi!Command :
            /\ wifiCmd' = [wifiCmd EXCEPT ![t] = d]
            /\ d.at = "ssh" /\ (a # "ok" => d.dirty)
      BY <1>0, <2>1, Goes DEF Wifi!RevertAnswered
    <3>2. RouterTypes /\ Others(t) /\ (a = "ok" => ~Owns(t)')
      BY <1>0, <2>1, <1>8, <1>9, Settles, NothingHappens
      DEF Wifi!RevertAnswered, Wifi!Request
    <3> QED
      BY <3>1, <3>2, GoesOn
  <2>2. CASE Wifi!ReloadAnswered(t, a)
    <3>1. \E d \in Wifi!Command :
            /\ wifiCmd' = [wifiCmd EXCEPT ![t] = d]
            /\ d.at = "idle" /\ d.result = "true"
      BY <1>0, <2>2, Goes DEF Wifi!ReloadAnswered
    <3>2. Accounted(t) /\ ~Owns(t)
      BY <1>0, <2>2 DEF Wifi!ReloadAnswered, Books
    <3>3. RouterTypes /\ Others(t) /\ Accounted(t)' /\ ~Owns(t)'
      BY <1>0, <2>2, <1>9, <3>2, NothingHappens DEF Wifi!ReloadAnswered
    <3> QED
      BY <3>1, <3>3, GoesOn
  <2> QED
    BY <1>5, <2>1, <2>2
<1>6. ASSUME NEW t \in WifiTasks, NEW ok \in BOOLEAN, Wifi!SshAnswered(t, ok)
      PROVE  WifiInv'
  <2>1. \E d \in Wifi!Command :
          /\ wifiCmd' = [wifiCmd EXCEPT ![t] = d]
          /\ d.at = "idle" /\ d.dirty = wifiCmd[t].dirty
          /\ d.result = IF ok THEN "true" ELSE "raised"
    BY <1>0, <1>6, Goes DEF Wifi!SshAnswered
  <2>2. ~wifiCmd[t].dirty => ~Owns(t)
    BY <1>0, <1>6 DEF Wifi!SshAnswered, Books
  <2>3. /\ RouterTypes /\ Others(t)
        /\ ok => Accounted(t)'
        /\ ~wifiCmd[t].dirty => ~Owns(t)'
    BY <1>0, <1>6, <1>9, <2>2, Directly, NothingHappens DEF Wifi!SshAnswered, Wifi!Request
  <2> QED
    BY <2>1, <2>3, GoesOn
<1>7. CASE Wifi!Relogin
  <2>1. /\ RouterTypes /\ wifiCmd' = wifiCmd
        /\ \A u \in WifiTasks : ~Owns(u)' /\ (Owns(u) \/ Accounted(u) => Accounted(u)')
    BY <1>0, <1>7, Settles DEF Wifi!Relogin
  <2>2. Wifi!TypeOK'
    BY <1>0, <2>1 DEF Wifi!TypeOK, RouterTypes
  <2>3. \A t \in WifiTasks : Books(t)'
    BY <1>0, <2>1 DEF Books, Owns, Accounted
  <2> QED
    BY <2>2, <2>3 DEF WifiInv
<1>10. CASE UNCHANGED Wifi!vars
  BY <1>0, <1>10
  DEF Wifi!vars, Wifi!router, Wifi!TypeOK, WifiInv, Books, Owns, Accounted
<1> QED
  BY <1>1, <1>2, <1>3, <1>4, <1>5, <1>6, <1>7, <1>10 DEF Wifi!Next

\* However the switches of a router share their session, a command that reports success
\* has its value committed or taken away by somebody, and leaves nothing staged behind.
THEOREM SwitchesAreSound == Wifi!Spec => []CommandsAreSound
<1>1. WifiInv => CommandsAreSound
  BY DEF WifiInv, Books, Owns, Accounted, CommandsAreSound, Wifi!SuccessIsCommitted,
     Wifi!LeavesNothingStaged, Wifi!Ended
<1> QED
  BY <1>1, WifiInit, WifiStep, PTL DEF Wifi!Spec
================================================================================
