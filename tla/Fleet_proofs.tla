------------------------------ MODULE Fleet_proofs -------------------------------
(***************************************************************************)
(* Proofs about what is derived of all routers, for any routers, entries and *)
(* clients: the gateways, the edges and clients of the mesh map, and the     *)
(* trackers.                                                                *)
(***************************************************************************)
EXTENDS MCFleet, FiniteSetTheorems, TLAPS

(***************************************************************************)
(* The gateways (MeshRoles).  The memory of the module is the one set it     *)
(* should be, the gateways of the last snapshot with a WAN; from this        *)
(* follows what a snapshot shows during an outage.                           *)
(***************************************************************************)
MemoryIsExact == memory = settled

\* A router has strong evidence exactly if its WAN is up.
LEMMA StrongIsUp == With("strong") = {r \in fleet : wan[r] = "up"}
  BY DEF With, Evidence

\* The memory is never out of date: it holds the gateways of the last snapshot with
\* a WAN (_remember_gateways replaces, and leaves it untouched during an outage).
THEOREM MemoryHolds == Spec => []MemoryIsExact
<1>1. Init => MemoryIsExact
  BY DEF Init, MemoryIsExact
<1>2. MemoryIsExact /\ [Next]_vars => MemoryIsExact'
  <2> SUFFICES ASSUME MemoryIsExact, [Next]_vars PROVE MemoryIsExact'
    OBVIOUS
  <2>1. CASE Snapshot
    <3>1. With("strong") # {} <=> \E r \in fleet : wan[r] = "up"
      BY StrongIsUp
    <3> QED
      BY <2>1, <3>1, StrongIsUp DEF Snapshot, Remember, MemoryIsExact
  <2>2. ASSUME NEW r \in Routers, Polled(r) \/ Unloaded(r) \/ Loaded(r)
        PROVE MemoryIsExact'
    BY <2>2 DEF Polled, Unloaded, Loaded, MemoryIsExact
  <2>3. CASE UNCHANGED vars
    BY <2>3 DEF vars, MemoryIsExact
  <2> QED
    BY <2>1, <2>2, <2>3 DEF Next
<1> QED
  BY <1>1, <1>2, PTL DEF Spec

\* For any number of routers: during a WAN outage a snapshot shows the gateways of
\* the last snapshot with a WAN that are left, and no other.
THEOREM GatewaysAreKept == Spec => OutageKeepsGateways
<1>1. MemoryIsExact /\ [Next]_vars => [Snapshot /\ Away /\ Left # {} => shown' = Left]_vars
  <2> SUFFICES ASSUME MemoryIsExact, Snapshot, Away, Left # {} PROVE shown' = Left
    OBVIOUS
  <2>1. With("strong") = {}
    BY StrongIsUp DEF Away
  <2> QED
    BY <2>1 DEF Snapshot, Resolve, MemoryIsExact, Left
<1> QED
  BY <1>1, MemoryHolds, PTL DEF Spec, OutageKeepsGateways
(***************************************************************************)
(* The trackers (DeviceTracker).  What the claims promise is not inductive   *)
(* alone: that a set-up finds its known clients unclaimed, or that an entity *)
(* of another entry never stands in for its own, rests on who owns what.     *)
(* Each set-up tracks exactly the clients it has claimed, the registry       *)
(* follows the claim, and nobody but the owner of a claim has the entity.    *)
(***************************************************************************)
Owned ==
  \A m \in Macs, e \in Entries :
    /\ claimed[m] = e <=> m \in tracked[e]
    /\ claimed[m] = e => phase[e] # "unloaded" /\ registry[m] = e
    /\ entity[m] = e => claimed[m] = e

TrackersInv == Trackers!TypeOK /\ Owned /\ Trackers!KnownIsRestored

LEMMA TrackerFacts ==
  /\ Threshold \in Nat \ {0}
  /\ Free \notin Entries /\ Ghost \notin Entries /\ Free # Ghost
  BY FleetAssumptions DEF Trackers!TrackerAssumptions

LEMMA TrackersInit == Trackers!Init => TrackersInv
<1> SUFFICES ASSUME Trackers!Init PROVE TrackersInv
  OBVIOUS
<1>1. Trackers!TypeOK
  BY TrackerFacts DEF Trackers!Init, Trackers!TypeOK, Trackers!Phases
<1>2. Owned
  BY TrackerFacts DEF Trackers!Init, Owned
<1>3. Trackers!KnownIsRestored
  BY TrackerFacts DEF Trackers!Init, Trackers!KnownIsRestored
<1> QED
  BY <1>1, <1>2, <1>3 DEF TrackersInv

\* What is shown.
LEMMA ShownTypes ==
  ASSUME Trackers!TypeOK, NEW e,
         \/ Trackers!Write(e)
         \/ trackerShown' = [m \in Macs |-> IF entity'[m] = e THEN Trackers!StateOf(e, m)
                                            ELSE trackerShown[m]]
         \/ Trackers!RemoveEntities(e)
         \/ trackerShown' = [m \in Macs |-> IF entity[m] = e THEN "none" ELSE trackerShown[m]]
  PROVE  trackerShown' \in [Macs -> {"none", "home", "not_home", "unavailable"}]
<1>1. \A o, m : Trackers!StateOf(o, m) \in {"home", "not_home", "unavailable"}
  BY DEF Trackers!StateOf
<1>2. trackerShown \in [Macs -> {"none", "home", "not_home", "unavailable"}]
  BY DEF Trackers!TypeOK
<1> QED
  BY <1>1, <1>2 DEF Trackers!Write, Trackers!RemoveEntities

\* A claim of a set-up that tracks what it has claimed.
LEMMA ClaimKeeps ==
  ASSUME TrackersInv, NEW e \in Entries, NEW candidates \in SUBSET Macs,
         Trackers!Claim(e, candidates, tracked[e])
  PROVE  /\ claimed' \in [Macs -> Entries \cup {Free}]
         /\ tracked' \in [Entries -> SUBSET Macs]
         /\ entity' \in [Macs -> Entries \cup {Free, Ghost}]
         /\ registry' \in [Macs -> Entries \cup {Free}]
         /\ \A m \in Macs, o \in Entries :
              /\ claimed'[m] = o <=> m \in tracked'[o]
              /\ claimed'[m] = o => o = e \/ (claimed[m] = o /\ registry'[m] = o)
              /\ claimed'[m] = e => registry'[m] = e
              /\ entity'[m] = o => claimed'[m] = o
              /\ registry'[m] = o /\ registry[m] # o =>
                   o = e /\ (m \in disabled \/ entity'[m] \in {e, Ghost})
              /\ entity[m] \in {o, Ghost} => entity'[m] = entity[m]
         /\ \A m \in candidates : registry[m] = e /\ claimed[m] # e /\ m \notin disabled
                                    => entity'[m] \in {e, Ghost}
<1> DEFINE new == Trackers!Claimable(e, candidates, tracked[e])
<1> USE DEF TrackersInv, Trackers!TypeOK
<1>1. /\ new \subseteq Macs
      /\ \A m \in Macs : m \in new <=> /\ m \in candidates /\ m \notin tracked[e]
                                       /\ claimed[m] \in {Free, e}
  BY DEF Trackers!Claimable
<1>2. /\ claimed' = [m \in Macs |-> IF m \in new THEN e ELSE claimed[m]]
      /\ tracked' = [tracked EXCEPT ![e] = tracked[e] \cup new]
      /\ registry' = [m \in Macs |-> IF m \in new THEN e ELSE registry[m]]
      /\ entity' = [m \in Macs |->
                      IF m \in new \ disabled /\ entity[m] = Free THEN e ELSE entity[m]]
  BY DEF Trackers!Claim
<1>3. \A m \in new : claimed[m] = Free
  BY <1>1 DEF Owned
<1>4. \A m \in new : entity[m] \in {Free, Ghost}
  BY <1>1, <1>3, TrackerFacts DEF Owned
<1> HIDE DEF new
<1>5. /\ claimed' \in [Macs -> Entries \cup {Free}]
      /\ tracked' \in [Entries -> SUBSET Macs]
      /\ entity' \in [Macs -> Entries \cup {Free, Ghost}]
      /\ registry' \in [Macs -> Entries \cup {Free}]
  BY <1>1, <1>2
<1>6. ASSUME NEW m \in Macs, NEW o \in Entries
      PROVE  /\ claimed'[m] = o <=> m \in tracked'[o]
             /\ claimed'[m] = o => o = e \/ (claimed[m] = o /\ registry'[m] = o)
             /\ claimed'[m] = e => registry'[m] = e
             /\ entity'[m] = o => claimed'[m] = o
             /\ registry'[m] = o /\ registry[m] # o =>
                  o = e /\ (m \in disabled \/ entity'[m] \in {e, Ghost})
             /\ entity[m] \in {o, Ghost} => entity'[m] = entity[m]
  BY <1>2, <1>3, <1>4, TrackerFacts DEF Owned
<1>7. ASSUME NEW m \in candidates, registry[m] = e, claimed[m] # e, m \notin disabled
      PROVE  entity'[m] \in {e, Ghost}
  <2>1. claimed[m] = Free
    BY <1>7 DEF Owned
  <2>2. m \in new
    BY <1>1, <1>7, <2>1 DEF Owned
  <2> QED
    BY <1>2, <1>4, <1>7, <2>2
<1> QED
  BY <1>5, <1>6, <1>7

LEMMA SetupKeeps ==
  ASSUME TrackersInv, NEW e \in Entries, NEW clients \in SUBSET Macs, Trackers!Setup(e, clients)
  PROVE  TrackersInv'
<1> DEFINE candidates == clients \cup {m \in Macs \ disabled : registry[m] = e}
<1> USE DEF TrackersInv, Trackers!TypeOK
<1>1. /\ phase[e] = "unloaded" /\ phase' = [phase EXCEPT ![e] = "starting"]
      /\ seen' = [seen EXCEPT ![e] = clients]
      /\ failures' = [failures EXCEPT ![e] = 0]
      /\ overdue' = [overdue EXCEPT ![e] = FALSE]
      /\ Trackers!Claim(e, candidates, {})
      /\ trackerShown' = [m \in Macs |-> IF entity'[m] = e THEN Trackers!StateOf(e, m)
                                         ELSE trackerShown[m]]
      /\ UNCHANGED <<parity, disabled>>
  BY DEF Trackers!Setup
<1>2. tracked[e] = {} /\ \A m \in Macs : claimed[m] # e
  BY <1>1 DEF Owned
<1> HIDE DEF candidates
<1>3. candidates \in SUBSET Macs /\ Trackers!Claim(e, candidates, tracked[e])
  BY <1>1, <1>2 DEF candidates
<1>4. Trackers!TypeOK'
  <2>1. /\ claimed' \in [Macs -> Entries \cup {Free}] /\ tracked' \in [Entries -> SUBSET Macs]
        /\ entity' \in [Macs -> Entries \cup {Free, Ghost}]
        /\ registry' \in [Macs -> Entries \cup {Free}]
    BY <1>3, ClaimKeeps
  <2>2. trackerShown' \in [Macs -> {"none", "home", "not_home", "unavailable"}]
    BY <1>1, ShownTypes
  <2>3. failures' \in [Entries -> 0..Threshold]
    BY <1>1, TrackerFacts
  <2> QED
    BY <1>1, <2>1, <2>2, <2>3 DEF Trackers!Phases
<1>5. Owned'
  BY <1>1, <1>3, ClaimKeeps DEF Owned
<1>6. ASSUME NEW m \in Macs \ disabled, NEW o \in Entries, registry'[m] = o,
             phase'[o] \in {"starting", "loaded"}
      PROVE  entity'[m] \in {o, Ghost}
  <2>1. CASE registry[m] # o
    BY <1>3, <1>6, <2>1, ClaimKeeps
  <2>2. CASE registry[m] = o /\ o # e
    <3>1. entity[m] \in {o, Ghost}
      BY <1>1, <1>6, <2>2 DEF Trackers!KnownIsRestored
    <3> QED
      BY <1>3, <3>1, ClaimKeeps
  <2>3. CASE registry[m] = o /\ o = e
    <3>1. m \in candidates
      BY <1>6, <2>3 DEF candidates
    <3> QED
      <4>1. \A c \in candidates : registry[c] = e /\ claimed[c] # e /\ c \notin disabled
                                    => entity'[c] \in {e, Ghost}
        BY <1>3, ClaimKeeps
      <4> QED
        BY <1>2, <1>6, <2>3, <3>1, <4>1
  <2> QED
    BY <2>1, <2>2, <2>3
<1>7. Trackers!KnownIsRestored'
  BY <1>1, <1>6 DEF Trackers!KnownIsRestored
<1> QED
  BY <1>4, <1>5, <1>7

\* A poll that claims what it lists: a good one, or the first failure.
LEMMA ClaimingPollKeeps ==
  ASSUME TrackersInv, NEW e \in Entries, NEW clients \in SUBSET Macs, phase[e] # "unloaded",
         Trackers!Claim(e, clients, tracked[e]), Trackers!Write(e),
         parity' = [parity EXCEPT ![e] = ~@], UNCHANGED <<phase, disabled>>,
         seen' \in [Entries -> SUBSET Macs], failures' \in [Entries -> 0..Threshold],
         overdue' \in [Entries -> BOOLEAN]
  PROVE  TrackersInv'
<1> USE DEF TrackersInv, Trackers!TypeOK
<1>1. Trackers!TypeOK'
  <2>1. /\ claimed' \in [Macs -> Entries \cup {Free}] /\ tracked' \in [Entries -> SUBSET Macs]
        /\ entity' \in [Macs -> Entries \cup {Free, Ghost}]
        /\ registry' \in [Macs -> Entries \cup {Free}]
    BY ClaimKeeps
  <2>2. trackerShown' \in [Macs -> {"none", "home", "not_home", "unavailable"}]
    BY ShownTypes
  <2> QED
    BY <2>1, <2>2
<1>2. Owned'
  BY ClaimKeeps DEF Owned
<1>3. ASSUME NEW m \in Macs \ disabled, NEW o \in Entries, registry'[m] = o,
             phase'[o] \in {"starting", "loaded"}
      PROVE  entity'[m] \in {o, Ghost}
  <2>1. CASE registry[m] # o
    BY <1>3, <2>1, ClaimKeeps
  <2>2. CASE registry[m] = o
    <3>1. entity[m] \in {o, Ghost}
      BY <1>3, <2>2 DEF Trackers!KnownIsRestored
    <3> QED
      BY <3>1, ClaimKeeps
  <2> QED
    BY <2>1, <2>2
<1>4. Trackers!KnownIsRestored'
  BY <1>3 DEF Trackers!KnownIsRestored
<1> QED
  BY <1>1, <1>2, <1>4

LEMMA PollKeeps ==
  ASSUME TrackersInv, NEW e \in Entries, Trackers!Poll(e) PROVE TrackersInv'
<1> USE DEF TrackersInv, Trackers!TypeOK
<1>1. parity' = [parity EXCEPT ![e] = ~@]
  BY DEF Trackers!Poll
<1>2. ASSUME NEW clients \in SUBSET Macs, Trackers!PollSucceeds(e, clients)
      PROVE  TrackersInv'
  <2>1. /\ phase[e] # "unloaded" /\ Trackers!Claim(e, clients, tracked[e]) /\ Trackers!Write(e)
        /\ UNCHANGED <<phase, disabled>> /\ seen' \in [Entries -> SUBSET Macs]
        /\ failures' \in [Entries -> 0..Threshold] /\ overdue' \in [Entries -> BOOLEAN]
    BY <1>2, TrackerFacts DEF Trackers!PollSucceeds, Trackers!Listening
  <2> QED
    BY <1>1, <2>1, ClaimingPollKeeps
<1>3. CASE Trackers!PollFailsFirst(e)
  <2>1. /\ phase[e] # "unloaded" /\ Trackers!Claim(e, seen[e], tracked[e])
        /\ Trackers!Write(e) /\ UNCHANGED <<phase, disabled>>
        /\ seen[e] \in SUBSET Macs /\ seen' \in [Entries -> SUBSET Macs]
        /\ failures' \in [Entries -> 0..Threshold] /\ overdue' \in [Entries -> BOOLEAN]
    BY <1>3, TrackerFacts DEF Trackers!PollFailsFirst, Trackers!Listening
  <2> QED
    BY <1>1, <2>1, ClaimingPollKeeps
<1>4. CASE Trackers!PollFailsAgain(e)
  <2>1. /\ UNCHANGED <<phase, seen, overdue, Trackers!trackers, disabled>>
        /\ failures' \in [Entries -> 0..Threshold]
    BY <1>4, TrackerFacts DEF Trackers!PollFailsAgain
  <2> QED
    BY <1>1, <2>1 DEF Trackers!trackers, Owned, Trackers!KnownIsRestored
<1> QED
  BY <1>2, <1>3, <1>4 DEF Trackers!Poll

\* The entities of e go, as it is no longer loaded.
LEMMA RemovalKeeps ==
  ASSUME TrackersInv, NEW e \in Entries, NEW p \in {"closing", "stuck"},
         phase' = [phase EXCEPT ![e] = p],
         Trackers!RemoveEntities(e) \/ UNCHANGED <<entity, trackerShown>>,
         UNCHANGED <<seen, failures, overdue, parity, claimed, tracked, registry, disabled>>
  PROVE  TrackersInv'
<1> USE DEF TrackersInv, Trackers!TypeOK
<1>1. /\ phase' \in [Entries -> Trackers!Phases] /\ phase'[e] = p
      /\ \A o \in Entries \ {e} : phase'[o] = phase[o]
  BY DEF Trackers!Phases
<1>2. /\ entity' \in [Macs -> Entries \cup {Free, Ghost}]
      /\ \A m \in Macs : entity'[m] = entity[m] \/ (entity[m] = e /\ entity'[m] = Free)
  BY DEF Trackers!RemoveEntities
<1>3. trackerShown' \in [Macs -> {"none", "home", "not_home", "unavailable"}]
  BY ShownTypes
<1>4. Owned'
  BY <1>1, <1>2, TrackerFacts DEF Owned
<1>5. ASSUME NEW m \in Macs \ disabled, NEW o \in Entries, registry[m] = o,
             phase'[o] \in {"starting", "loaded"}
      PROVE  entity'[m] \in {o, Ghost}
  <2>1. o # e /\ entity[m] \in {o, Ghost}
    BY <1>1, <1>5 DEF Trackers!KnownIsRestored
  <2> QED
    BY <1>2, <2>1, TrackerFacts
<1>6. Trackers!KnownIsRestored'
  BY <1>5 DEF Trackers!KnownIsRestored
<1> QED
  BY <1>1, <1>2, <1>3, <1>4, <1>6

LEMMA UnloadEndsKeeps ==
  ASSUME TrackersInv, NEW e \in Entries, Trackers!UnloadEnds(e) PROVE TrackersInv'
<1> USE DEF TrackersInv, Trackers!TypeOK
<1>1. /\ phase' = [phase EXCEPT ![e] = "unloaded"]
      /\ claimed' = [m \in Macs |->
                       IF m \in tracked[e] /\ claimed[m] = e THEN Free ELSE claimed[m]]
      /\ tracked' = [tracked EXCEPT ![e] = {}]
      /\ entity' = [m \in Macs |-> IF entity[m] = e THEN Ghost ELSE entity[m]]
      /\ UNCHANGED <<seen, failures, overdue, parity, registry, disabled>>
  BY DEF Trackers!UnloadEnds
<1>2. trackerShown' \in [Macs -> {"none", "home", "not_home", "unavailable"}]
  BY ShownTypes DEF Trackers!UnloadEnds
<1>3. Trackers!TypeOK'
  BY <1>1, <1>2 DEF Trackers!Phases
<1>4. Owned'
  BY <1>1, TrackerFacts DEF Owned
<1>5. Trackers!KnownIsRestored'
  BY <1>1 DEF Trackers!KnownIsRestored
<1> QED
  BY <1>3, <1>4, <1>5

LEMMA RestartKeeps == TrackersInv /\ Trackers!Restart => TrackersInv'
<1> SUFFICES ASSUME TrackersInv, Trackers!Restart PROVE TrackersInv'
  OBVIOUS
<1>1. Trackers!TypeOK'
  BY DEF Trackers!Restart, TrackersInv, Trackers!TypeOK, Trackers!Phases
<1>2. Owned' /\ Trackers!KnownIsRestored'
  BY TrackerFacts DEF Trackers!Restart, Owned, Trackers!KnownIsRestored
<1> QED
  BY <1>1, <1>2 DEF TrackersInv

\* A step of the entry alone, which does not become loaded from scratch.
LEMMA PhaseKeeps ==
  ASSUME TrackersInv, NEW e \in Entries, UNCHANGED <<Trackers!trackers, disabled, seen, parity>>,
         failures' = failures, overdue' \in [Entries -> BOOLEAN],
         \/ phase[e] = "starting" /\ phase' = [phase EXCEPT ![e] = "loaded"]
         \/ phase[e] = "loaded" /\ phase' = [phase EXCEPT ![e] = "stopping"]
         \/ phase' = phase
  PROVE  TrackersInv'
<1> USE DEF TrackersInv, Trackers!TypeOK, Trackers!trackers
<1>1. /\ phase' \in [Entries -> Trackers!Phases]
      /\ \A o \in Entries : /\ phase'[o] = "unloaded" <=> phase[o] = "unloaded"
                            /\ phase'[o] \in {"starting", "loaded"} =>
                                 phase[o] \in {"starting", "loaded"}
  BY DEF Trackers!Phases
<1> QED
  BY <1>1 DEF Owned, Trackers!KnownIsRestored

\* A client is never lost to the trackers: whoever has claimed it is set up, will release
\* it, and while loaded has an entity for it; and a tracker the registry knows comes back
\* with its entry, through every order of polls, failures, unloads and restarts.
THEOREM TrackersStayBacked == Trackers!Spec => []TrackersAreBacked
<1>1. TrackersInv /\ [Trackers!Next]_(Trackers!vars) => TrackersInv'
  <2> SUFFICES ASSUME TrackersInv, [Trackers!Next]_(Trackers!vars) PROVE TrackersInv'
    OBVIOUS
  <2>1. ASSUME NEW e \in Entries,
               \/ Trackers!SetupEnds(e) \/ Trackers!GraceEnds(e) \/ Trackers!StartUnload(e)
        PROVE  TrackersInv'
    BY <2>1, PhaseKeeps
    DEF Trackers!SetupEnds, Trackers!GraceEnds, Trackers!StartUnload, TrackersInv,
        Trackers!TypeOK
  <2>2. ASSUME NEW e \in Entries, Trackers!PlatformsUnloaded(e) \/ Trackers!PlatformsRefuse(e)
        PROVE  TrackersInv'
    BY <2>2, RemovalKeeps DEF Trackers!PlatformsUnloaded, Trackers!PlatformsRefuse
  <2>3. CASE UNCHANGED Trackers!vars
    BY <2>3
    DEF TrackersInv, Trackers!TypeOK, Owned, Trackers!KnownIsRestored, Trackers!vars,
        Trackers!coordinators, Trackers!trackers
  <2> QED
    BY <2>1, <2>2, <2>3, SetupKeeps, PollKeeps, UnloadEndsKeeps, RestartKeeps
    DEF Trackers!Next
<1>2. TrackersInv => TrackersAreBacked
  <2> SUFFICES ASSUME TrackersInv PROVE Trackers!ClaimIsBacked
    BY DEF TrackersInv, TrackersAreBacked
  <2> QED
    BY DEF TrackersInv, Owned, Trackers!KnownIsRestored, Trackers!ClaimIsBacked
<1> QED
  BY <1>1, <1>2, TrackersInit, PTL DEF Trackers!Spec

(***************************************************************************)
(* The edges (MeshEdges) and the clients (MeshClients) are computed from     *)
(* recursive functions.  That such a function exists, and what it is, comes  *)
(* from the least element of a set of natural numbers.                       *)
(***************************************************************************)
LEMMA Least ==
  ASSUME NEW S \in SUBSET Nat, S # {}
  PROVE  \E n \in S : \A m \in S : n <= m
<1>1. PICK n \in S : \A m \in S : ~(<<m, n>> \in OpToRel(<, Nat))
  BY NatLessThanWellFounded, WFMin
<1>2. \A m \in S : ~(m < n)
  BY <1>1 DEF OpToRel
<1> QED
  BY <1>2

Iterations(N, S, x, F) ==
  {f \in [0..N -> S] : f[0] = x /\ \A i \in 1..N : f[i] = F[<<i, f[i - 1]>>]}

Steps(S) == [Nat \X S -> S]

\* A function on 0..N may be given by its value at 0 and a step.
LEMMA IterationExists ==
  ASSUME NEW N \in Nat, NEW S, NEW x \in S, NEW F \in Steps(S)
  PROVE  Iterations(N, S, x, F) # {}
<1> USE DEF Iterations, Steps
<1> DEFINE Given(n) ==
             \E f \in [0..n -> S] : f[0] = x /\ \A i \in 1..n : f[i] = F[<<i, f[i - 1]>>]
           Missing == {n \in Nat : ~Given(n)}
<1> SUFFICES ASSUME Missing # {} PROVE FALSE
  OBVIOUS
<1>1. PICK n \in Missing : \A m \in Missing : n <= m
  BY Least
<1>2. Given(0)
  <2> DEFINE g == [i \in 0..0 |-> x]
  <2>1. g \in [0..0 -> S] /\ g[0] = x
    OBVIOUS
  <2>2. \A i \in 1..0 : g[i] = F[<<i, g[i - 1]>>]
    OBVIOUS
  <2> HIDE DEF g
  <2> QED
    BY <2>1, <2>2
<1>3. n \in Nat \ {0} /\ n - 1 \in Nat /\ Given(n - 1)
  <2>1. n \in Nat \ {0}
    BY <1>1, <1>2
  <2>2. n - 1 \in Nat /\ ~(n <= n - 1)
    BY <2>1
  <2>3. n - 1 \notin Missing
    BY <1>1, <2>2
  <2> QED
    BY <2>1, <2>2, <2>3
<1>4. PICK f \in [0..(n - 1) -> S] :
         f[0] = x /\ \A i \in 1..(n - 1) : f[i] = F[<<i, f[i - 1]>>]
  BY <1>3
<1> DEFINE g == [i \in 0..n |-> IF i = n THEN F[<<n, f[n - 1]>>] ELSE f[i]]
<1>5. g \in [0..n -> S] /\ g[0] = x
  BY <1>3, <1>4
<1>6. ASSUME NEW i \in 1..n PROVE g[i] = F[<<i, g[i - 1]>>]
  <2>1. i \in Nat /\ i - 1 \in 0..(n - 1) /\ i - 1 # n /\ g[i - 1] = f[i - 1]
    BY <1>3, <1>6
  <2>2. CASE i = n
    BY <2>1, <2>2
  <2>3. CASE i # n
    BY <1>3, <1>4, <2>1, <2>3
  <2> QED
    BY <2>2, <2>3
<1> HIDE DEF g
<1>7. Given(n)
  BY <1>5, <1>6
<1> QED
  BY <1>1, <1>7

LEMMA EdgesFacts ==
  /\ Routers \subseteq Nat /\ Fleets \subseteq SUBSET Routers
  /\ Edges!Unreachable \in Nat
<1>1. Edges!IsFiniteSet(Routers) = IsFiniteSet(Routers)
  BY DEF Edges!IsFiniteSet, IsFiniteSet
<1>2. Edges!Cardinality(Routers) = Cardinality(Routers)
  BY DEF Edges!Cardinality, Cardinality, Edges!IsFiniteSet, IsFiniteSet
<1>3. IsFiniteSet(Routers)
  BY <1>1, FleetAssumptions DEF Edges!EdgesAssumptions
<1> QED
  BY <1>2, <1>3, FS_CardinalityType, FleetAssumptions
  DEF Edges!EdgesAssumptions, Edges!Unreachable

\* The routers within no hop of a gateway are the gateways.
LEMMA WithinZero ==
  ASSUME gateways \subseteq Routers PROVE Edges!Within[0] = gateways
<1> DEFINE U == Edges!Unreachable
           Sets == SUBSET Routers
           F == [p \in Nat \X SUBSET Routers |->
                   p[2] \cup {r \in Routers : \E o \in p[2] : Edges!Adjacent(o, r)}]
<1>1. F \in Steps(Sets)
  BY DEF Steps
<1>2. U \in Nat
  BY EdgesFacts
<1> HIDE DEF F, U, Sets
<1>3. PICK f \in [0..U -> Sets] :
         f[0] = gateways /\ \A i \in 1..U : f[i] = F[<<i, f[i - 1]>>]
  <2>1. gateways \in Sets
    BY DEF Sets
  <2>2. Iterations(U, Sets, gateways, F) # {}
    BY <1>1, <1>2, <2>1, IterationExists
  <2> QED
    BY <2>2 DEF Iterations
<1>4. f = [n \in 0..U |->
             IF n = 0 THEN gateways
             ELSE f[n - 1] \cup {r \in Routers : \E o \in f[n - 1] : Edges!Adjacent(o, r)}]
  <2>1. ASSUME NEW n \in 0..U, n # 0
        PROVE  f[n] = f[n - 1] \cup {r \in Routers : \E o \in f[n - 1] : Edges!Adjacent(o, r)}
    <3>1. n \in 1..U /\ n \in Nat /\ f[n - 1] \in SUBSET Routers
      BY <1>2, <1>3, <2>1 DEF Sets
    <3> QED
      BY <1>3, <3>1 DEF F, Sets
  <2> QED
    BY <1>3, <2>1
<1>5. Edges!Within = [n \in 0..U |->
             IF n = 0 THEN gateways
             ELSE Edges!Within[n - 1]
                    \cup {r \in Routers : \E o \in Edges!Within[n - 1] : Edges!Adjacent(o, r)}]
  BY <1>4 DEF Edges!Within, U
<1>6. 0 \in 0..U
  BY <1>2
<1> QED
  BY <1>5, <1>6

LEMMA DepthTypes ==
  ASSUME gateways \subseteq Routers
  PROVE  /\ \A r \in Routers : Edges!Depths[r] \in Nat
         /\ \A g \in gateways : Edges!Depths[g] = 0
<1>1. ASSUME NEW r \in Routers
      PROVE  Edges!Depths[r] \in Nat /\ (r \in gateways => Edges!Depths[r] = 0)
  <2> DEFINE D == {Edges!Unreachable} \cup {n \in 0..Edges!Unreachable : r \in Edges!Within[n]}
  <2>1. Edges!Depths[r] = Edges!Min(D)
    BY DEF Edges!Depths
  <2>2. D \in SUBSET Nat /\ D # {}
    BY EdgesFacts
  <2>3. r \in gateways => 0 \in D
    BY WithinZero, EdgesFacts
  <2> HIDE DEF D
  <2>4. PICK n \in D : \A m \in D : n <= m
    BY <2>2, Least
  <2>5. Edges!Min(D) \in D /\ \A m \in D : Edges!Min(D) <= m
    BY <2>4 DEF Edges!Min
  <2>6. Edges!Min(D) \in Nat /\ (r \in gateways => Edges!Min(D) <= 0)
    BY <2>2, <2>3, <2>5
  <2>7. \A k \in Nat : k <= 0 => k = 0
    OBVIOUS
  <2> QED
    BY <2>1, <2>6, <2>7
<1> QED
  BY <1>1

(***************************************************************************)
(* The edges.  They are computed once, from what was reported.               *)
(***************************************************************************)
EdgesInv == gateways \in Fleets /\ IF mapped THEN edges = Edges!Edges ELSE edges = {}

LEMMA EdgesInvHolds == Edges!Spec => []EdgesInv
<1>1. Edges!Init => EdgesInv
  BY DEF Edges!Init, EdgesInv
<1>2. EdgesInv /\ [Edges!Next]_(Edges!vars) => EdgesInv'
  <2> SUFFICES ASSUME EdgesInv, [Edges!Next]_(Edges!vars) PROVE EdgesInv'
    OBVIOUS
  <2>1. CASE Edges!Collect
    BY <2>1 DEF Edges!Collect, EdgesInv
  <2>2. ASSUME gateways' = gateways, reports' = reports PROVE Edges!Edges' = Edges!Edges
    BY <2>2
    DEF Edges!Edges, Edges!Detected, Edges!FallbackEdges, Edges!LldpEdges, Edges!Depths,
        Edges!Within, Edges!Adjacent, Edges!Sees, Edges!Says, Edges!Wireless, Edges!PortOf,
        Edges!LeadsTo, Edges!Anchored, Edges!Before, Edges!FacesByWan, Edges!LanEdges,
        Edges!Open, Edges!Knowing, Edges!Uplinked, Edges!ClientEdges, Edges!ClientPairs,
        Edges!Overridden, Edges!Repeaters
  <2>3. CASE Edges!Snapshot
    BY <2>2, <2>3 DEF Edges!Snapshot, EdgesInv
  <2>4. CASE UNCHANGED Edges!vars
    BY <2>2, <2>4 DEF Edges!vars, EdgesInv
  <2> QED
    BY <2>1, <2>3, <2>4 DEF Edges!Next
<1> QED
  BY <1>1, <1>2, PTL DEF Edges!Spec

\* What the methods have in common: what an edge of each says of its routers.
ByLldp(e) ==
  /\ e.by = "lldp" /\ e.from \in Routers /\ e.to \in Routers
  /\ Edges!Adjacent(e.from, e.to)
  /\ Edges!LeadsTo(Edges!Depths, e.from, e.to)

ByLan(e) ==
  /\ e.by # "lldp" /\ e.from \in gateways /\ e.to \in Routers \ gateways
  /\ e.to \notin Edges!Uplinked /\ ~Edges!Adjacent(e.from, e.to)

ByClient(e) ==
  /\ e.by # "lldp" /\ e.to \in Routers /\ (e.to \in gateways => e.from \in gateways)
  /\ e.to \notin Edges!Uplinked /\ ~Edges!Adjacent(e.from, e.to)

ByFallback(e) ==
  /\ e.by # "lldp" /\ e.to \in Routers \ gateways
  /\ \A d \in Edges!Detected : e.to \notin {d.from, d.to}

\* The override of a repeater changes the kind of an edge only.
LEMMA OverrideKeeps ==
  ASSUME NEW from, NEW to, NEW kind, NEW by, NEW air, NEW port,
         NEW e, e = [from |-> from, to |-> to, kind |-> kind, by |-> by, air |-> air, port |-> port]
  PROVE  LET o == Edges!Overridden(e) IN o.from = from /\ o.to = to /\ o.by = by
  BY DEF Edges!Overridden

LEMMA LldpEdgesAre == \A x \in Edges!LldpEdges : ByLldp(Edges!Overridden(x))
<1> SUFFICES ASSUME NEW x \in Edges!LldpEdges PROVE ByLldp(Edges!Overridden(x))
  OBVIOUS
<1>1. PICK q \in Routers \X Routers :
         /\ Edges!Adjacent(q[1], q[2]) /\ Edges!LeadsTo(Edges!Depths, q[1], q[2])
         /\ x = [from |-> q[1], to |-> q[2], kind |-> "router_uplink", by |-> "lldp",
                 air |-> Edges!Wireless(q[1], q[2]),
                 port |-> IF Edges!Wireless(q[1], q[2]) \/ q[1] \notin gateways THEN "-"
                          ELSE Edges!PortOf(q[1], q[2])]
  BY DEF Edges!LldpEdges
<1>2. LET o == Edges!Overridden(x) IN o.from = q[1] /\ o.to = q[2] /\ o.by = "lldp"
  BY <1>1, OverrideKeeps
<1>3. q[1] \in Routers /\ q[2] \in Routers
  BY <1>1
<1> QED
  BY <1>1, <1>2, <1>3 DEF ByLldp

LEMMA LanEdgesAre ==
  ASSUME gateways \subseteq Routers
  PROVE  \A x \in Edges!LanEdges : ByLan(Edges!Overridden(x))
<1> SUFFICES ASSUME NEW x \in Edges!LanEdges PROVE ByLan(Edges!Overridden(x))
  OBVIOUS
<1>1. PICK a \in Edges!Open :
         LET by == IF Edges!Knowing(a, "lease") # {} THEN "lease" ELSE "trunk"
             g == Edges!Min(Edges!Knowing(a, by)) IN
         x = [from |-> g, to |-> a, kind |-> "lan_uplink", by |-> by, air |-> FALSE,
              port |-> IF Edges!Says(g, "trunk", a) THEN "lan" ELSE "-"]
  BY DEF Edges!LanEdges
<1> DEFINE by == IF Edges!Knowing(a, "lease") # {} THEN "lease" ELSE "trunk"
           knowing == Edges!Knowing(a, by)
           g == Edges!Min(knowing)
<1>2. knowing \in SUBSET gateways /\ knowing # {} /\ \A k \in knowing : ~Edges!Adjacent(k, a)
  BY DEF Edges!Knowing, Edges!Open
<1>3. knowing \in SUBSET Nat
  BY <1>2, EdgesFacts
<1>4. by # "lldp"
  OBVIOUS
<1>5. LET o == Edges!Overridden(x) IN o.from = g /\ o.to = a /\ o.by = by
  BY <1>1, OverrideKeeps
<1> HIDE DEF knowing, by
<1>6. PICK n \in knowing : \A m \in knowing : n <= m
  BY <1>2, <1>3, Least
<1>7. g \in knowing
  BY <1>6 DEF Edges!Min
<1>8. a \in Routers \ gateways /\ a \notin Edges!Uplinked
  BY DEF Edges!Open
<1> QED
  BY <1>2, <1>4, <1>5, <1>7, <1>8 DEF ByLan

LEMMA ClientEdgesAre == \A x \in Edges!ClientEdges : ByClient(Edges!Overridden(x))
<1> SUFFICES ASSUME NEW x \in Edges!ClientEdges PROVE ByClient(Edges!Overridden(x))
  OBVIOUS
<1>1. PICK q \in Edges!ClientPairs :
         /\ ~Edges!Adjacent(q[1], q[2]) /\ q[2] \notin Edges!Uplinked
         /\ x = [from |-> q[1], to |-> q[2], kind |-> "wifi_uplink", by |-> "client",
                 air |-> TRUE, port |-> "-"]
  BY DEF Edges!ClientEdges
<1>2. q[2] \in Routers /\ (q[2] \in gateways => q[1] \in gateways)
  BY DEF Edges!ClientPairs
<1>3. LET o == Edges!Overridden(x) IN o.from = q[1] /\ o.to = q[2] /\ o.by = "client"
  BY <1>1, OverrideKeeps
<1> QED
  BY <1>1, <1>2, <1>3 DEF ByClient

LEMMA EdgesAre ==
  ASSUME gateways \subseteq Routers, NEW e \in Edges!Edges
  PROVE  /\ ByLldp(e) \/ ByLan(e) \/ ByClient(e) \/ ByFallback(e)
         /\ e.by = "lldp" => e \in Edges!Detected
<1>1. CASE e \in Edges!Detected
  BY <1>1, LldpEdgesAre, LanEdgesAre, ClientEdgesAre DEF Edges!Detected
<1>2. CASE e \in Edges!FallbackEdges(Edges!Detected)
  <2>1. PICK a \in Routers \ gateways :
           /\ \A d \in Edges!Detected : a \notin {d.from, d.to}
           /\ LET air == Edges!Says(a, "uplink", 0) IN
              e = [from |-> Edges!Min(gateways), to |-> a, by |-> "fallback", air |-> air,
                   port |-> "-", kind |-> IF air THEN "wifi_uplink" ELSE "mesh_member"]
    BY <1>2 DEF Edges!FallbackEdges
  <2>2. e.by = "fallback" /\ e.to = a
    BY <2>1
  <2> QED
    BY <2>1, <2>2 DEF ByFallback
<1> QED
  BY <1>1, <1>2 DEF Edges!Edges

LEMMA AdjacentBothWays == \A a, b : Edges!Adjacent(a, b) <=> Edges!Adjacent(b, a)
  BY DEF Edges!Adjacent

\* An edge of LLDP does not lead from a router to one that is nearer to a gateway.
LEMMA LldpLeadsAway ==
  ASSUME gateways \subseteq Routers, NEW e, ByLldp(e)
  PROVE  /\ e.to \in gateways => e.from \in gateways
         /\ Edges!Depths[e.from] <= Edges!Depths[e.to]
<1> DEFINE depth == Edges!Depths
           a == e.from
           b == e.to
<1>1. depth[a] \in Nat /\ depth[b] \in Nat
  BY DepthTypes DEF ByLldp
<1>2. (a \in gateways => depth[a] = 0) /\ (b \in gateways => depth[b] = 0)
  BY DepthTypes
<1>3. ~Edges!Before(depth, b, a)
  <2>1. SUFFICES ASSUME Edges!Before(depth, b, a) PROVE FALSE
    OBVIOUS
  <2>2. ~Edges!Before(depth, a, b)
    <3> HIDE DEF depth, a, b
    <3> QED
      BY <1>1, <1>2, <2>1 DEF Edges!Before
  <2>3. Edges!Anchored(depth, b, a) /\ ~Edges!Anchored(depth, a, b)
    BY <2>1, <2>2 DEF Edges!Anchored
  <2> QED
    BY <2>3 DEF ByLldp, Edges!LeadsTo
<1> HIDE DEF depth, a, b
<1>4. (b \in gateways => a \in gateways) /\ ~(depth[b] < depth[a])
  BY <1>3 DEF Edges!Before
<1>5. depth[a] <= depth[b]
  BY <1>1, <1>4
<1> QED
  BY <1>4, <1>5 DEF depth, a, b

LEMMA MapIsSound ==
  EdgesInv => LldpWins /\ LeadsAway
<1> SUFFICES ASSUME EdgesInv PROVE LldpWins /\ LeadsAway
  OBVIOUS
<1>1. gateways \subseteq Routers /\ edges \subseteq Edges!Edges
  BY EdgesFacts DEF EdgesInv
<1>2. LeadsAway
  <2>1. ASSUME NEW e \in edges
        PROVE  /\ e.to \in gateways => e.from \in gateways
               /\ e.by = "lldp" => Edges!Depths[e.from] <= Edges!Depths[e.to]
    BY <1>1, <2>1, EdgesAre, LldpLeadsAway DEF ByLan, ByClient, ByFallback
  <2> QED
    BY <2>1 DEF LeadsAway, Edges!LeadsAway
<1>3. ASSUME NEW e \in edges, NEW l \in edges, e.by # "lldp", l.by = "lldp"
      PROVE  /\ {e.from, e.to} # {l.from, l.to}
             /\ e.to = l.to => ~Edges!Anchored(Edges!Depths, l.from, l.to)
  <2>1. ByLldp(l) /\ l \in Edges!Detected
    BY <1>1, <1>3, EdgesAre DEF ByLan, ByClient, ByFallback
  <2>2. l.from \in Routers /\ l.to \in Routers /\ Edges!Adjacent(l.from, l.to)
    BY <2>1 DEF ByLldp
  <2>3. Edges!Anchored(Edges!Depths, l.from, l.to) => l.to \in Edges!Uplinked
    BY <2>2 DEF Edges!Uplinked
  <2>4. CASE ByFallback(e)
    BY <2>1, <2>4 DEF ByFallback
  <2>5. CASE ~Edges!Adjacent(e.from, e.to) /\ e.to \notin Edges!Uplinked
    BY <2>2, <2>3, <2>5, AdjacentBothWays
  <2> QED
    BY <1>1, <1>3, <2>4, <2>5, EdgesAre DEF ByLldp, ByLan, ByClient
<1>4. LldpWins
  BY <1>3 DEF LldpWins, Edges!LldpWins
<1> QED
  BY <1>2, <1>4

\* LLDP is authoritative over leases, the bridge, Wi-Fi clients and the fallback, for any
\* routers and reports: no second edge between two routers that see each other, no second
\* uplink of a router whose uplink it has anchored.
THEOREM LldpAlwaysWins == Edges!Spec => []LldpWins
  BY EdgesInvHolds, MapIsSound, PTL

\* No edge of the map leads from an AP up to a gateway, and none of LLDP from a router to
\* one that is nearer to a gateway.
THEOREM MapLeadsAway == Edges!Spec => []LeadsAway
  BY EdgesInvHolds, MapIsSound, PTL

\* Two APs that see each other over a cable: the map has an edge from one to the other,
\* which no other method changes.
LEMMA CableHasEdge ==
  ASSUME NEW a \in Routers, NEW b \in Routers, a # b,
         Edges!Adjacent(a, b), ~Edges!Wireless(a, b)
  PROVE  \E e \in Edges!Edges : /\ e.kind = "router_uplink"
                                /\ <<e.from, e.to>> \in {<<a, b>>, <<b, a>>}
<1>1. ~Edges!Wireless(b, a) /\ Edges!Adjacent(b, a)
  BY AdjacentBothWays DEF Edges!Wireless
<1>2. a < b \/ b < a
  BY EdgesFacts
<1>3. Edges!LeadsTo(Edges!Depths, a, b) \/ Edges!LeadsTo(Edges!Depths, b, a)
  BY <1>2 DEF Edges!LeadsTo
<1>4. PICK q \in Routers \X Routers :
         /\ q \in {<<a, b>>, <<b, a>>}
         /\ Edges!Adjacent(q[1], q[2]) /\ Edges!LeadsTo(Edges!Depths, q[1], q[2])
         /\ ~Edges!Wireless(q[1], q[2])
  <2>1. CASE Edges!LeadsTo(Edges!Depths, a, b)
    <3> WITNESS <<a, b>> \in Routers \X Routers
    <3> QED
      BY <2>1
  <2>2. CASE Edges!LeadsTo(Edges!Depths, b, a)
    <3> WITNESS <<b, a>> \in Routers \X Routers
    <3> QED
      BY <1>1, <2>2
  <2> QED
    BY <1>3, <2>1, <2>2
<1> DEFINE x == [from |-> q[1], to |-> q[2], kind |-> "router_uplink", by |-> "lldp",
                 air |-> Edges!Wireless(q[1], q[2]),
                 port |-> IF Edges!Wireless(q[1], q[2]) \/ q[1] \notin gateways THEN "-"
                          ELSE Edges!PortOf(q[1], q[2])]
<1>5. x \in Edges!LldpEdges
  BY <1>4 DEF Edges!LldpEdges
<1>6. x.kind = "router_uplink" /\ x.by = "lldp" /\ x.air = FALSE
      /\ x.from = q[1] /\ x.to = q[2]
  BY <1>4
<1> HIDE DEF x
<1>7. Edges!Overridden(x) = x
  BY <1>6 DEF Edges!Overridden
<1>8. x \in Edges!Edges
  BY <1>5, <1>7 DEF Edges!Edges, Edges!Detected
<1>9. <<x.from, x.to>> \in {<<a, b>>, <<b, a>>}
  BY <1>4, <1>6
<1> QED
  BY <1>6, <1>8, <1>9

\* No phantom switch, for any routers and reports: of two APs that see each other over a
\* cable the map has one under the other, so that it is no member of a switch.
THEOREM SwitchesSpareChains == Edges!Spec => []SwitchSparesChains
<1>1. EdgesInv => SwitchSparesChains
  <2> SUFFICES ASSUME EdgesInv, NEW p \in Edges!Ports,
                      NEW a \in Edges!Switched(p) \ gateways,
                      NEW b \in Edges!Switched(p) \ gateways,
                      a # b, Edges!Adjacent(a, b), ~Edges!Wireless(a, b)
               PROVE  FALSE
    BY DEF SwitchSparesChains, Edges!SwitchSparesChains
  <2>1. PICK x \in Edges!AtPort(p) : a = x.to
    BY DEF Edges!Switched
  <2>2. PICK y \in Edges!AtPort(p) : b = y.to
    BY DEF Edges!Switched
  <2>3. x \in edges /\ y \in edges /\ a \notin Edges!Chained /\ b \notin Edges!Chained
    BY <2>1, <2>2 DEF Edges!AtPort
  <2>4. gateways \subseteq Routers /\ edges = Edges!Edges
    BY <2>3, EdgesFacts DEF EdgesInv
  <2>5. a \in Routers /\ b \in Routers
    BY <2>1, <2>2, <2>3, <2>4, EdgesAre DEF ByLldp, ByLan, ByClient, ByFallback
  <2>6. PICK e \in Edges!Edges : /\ e.kind = "router_uplink"
                                 /\ <<e.from, e.to>> \in {<<a, b>>, <<b, a>>}
    BY <2>5, CableHasEdge
  <2>7. e.to \in Edges!Chained
    BY <2>4, <2>6 DEF Edges!Chained
  <2> QED
    BY <2>3, <2>6, <2>7
<1> QED
  BY <1>1, EdgesInvHolds, PTL

(***************************************************************************)
(* The clients.  The winner over the first n routers is the best witness     *)
(* among them, by induction on n.                                            *)
(***************************************************************************)
ClientsTypes ==
  /\ online \subseteq Clients!Aps
  /\ sees \in [Clients!Aps -> [lists: BOOLEAN, signal: Clients!Signals]]

LEMMA ClientsFacts == Count \in Nat /\ Strongest \in Nat
  BY FleetAssumptions DEF Clients!ClientsAssumptions

LEMMA ClientsTypesHold == Clients!Spec => []ClientsTypes
<1>1. Clients!Init => ClientsTypes
  <2> SUFFICES ASSUME Clients!Init PROVE ClientsTypes
    OBVIOUS
  <2>1. Clients!Absent \in [lists: BOOLEAN, signal: Clients!Signals]
    BY ClientsFacts DEF Clients!Absent, Clients!Signals
  <2> QED
    BY <2>1 DEF Clients!Init, ClientsTypes
<1>2. ClientsTypes /\ [Clients!Next]_(Clients!vars) => ClientsTypes'
  <2> SUFFICES ASSUME ClientsTypes, [Clients!Next]_(Clients!vars) PROVE ClientsTypes'
    OBVIOUS
  <2> USE DEF ClientsTypes
  <2>1. ASSUME NEW r \in Clients!Aps, Clients!Poll(r) PROVE ClientsTypes'
    <3>1. PICK lists \in BOOLEAN, s \in Clients!Signals :
             sees' = [sees EXCEPT ![r] = IF lists THEN [lists |-> TRUE, signal |-> s]
                                         ELSE Clients!Absent]
      BY <2>1 DEF Clients!Poll
    <3>2. Clients!Absent \in [lists: BOOLEAN, signal: Clients!Signals]
      BY ClientsFacts DEF Clients!Absent, Clients!Signals
    <3>3. [lists |-> TRUE, signal |-> s] \in [lists: BOOLEAN, signal: Clients!Signals]
      OBVIOUS
    <3> QED
      BY <2>1, <3>1, <3>2, <3>3 DEF Clients!Poll
  <2>2. ASSUME NEW r \in Clients!Aps, Clients!PollFails(r) PROVE ClientsTypes'
    BY <2>2 DEF Clients!PollFails
  <2>3. CASE Clients!Snapshot \/ UNCHANGED Clients!vars
    BY <2>3 DEF Clients!Snapshot, Clients!vars
  <2> QED
    BY <2>1, <2>2, <2>3 DEF Clients!Next
<1> QED
  BY <1>1, <1>2, PTL DEF Clients!Spec

LEMMA BestIs ==
  /\ Clients!Best[0] = 0
  /\ \A n \in 1..Count :
       Clients!Best[n] =
         LET old == Clients!Best[n - 1] IN
         IF n \notin Clients!Listing THEN old
         ELSE IF old = 0 \/ Clients!Beats(n, old) THEN n ELSE old
<1> DEFINE F == [p \in Nat \X Nat |->
                   IF p[1] \notin Clients!Listing THEN p[2]
                   ELSE IF p[2] = 0 \/ Clients!Beats(p[1], p[2]) THEN p[1] ELSE p[2]]
<1>1. F \in Steps(Nat)
  BY DEF Steps
<1> HIDE DEF F
<1>2. PICK f \in [0..Count -> Nat] :
         f[0] = 0 /\ \A i \in 1..Count : f[i] = F[<<i, f[i - 1]>>]
  <2>1. Iterations(Count, Nat, 0, F) # {}
    BY <1>1, ClientsFacts, IterationExists
  <2> QED
    BY <2>1 DEF Iterations
<1>3. f = [n \in 0..Count |->
             IF n = 0 THEN 0
             ELSE LET old == f[n - 1] IN
                  IF n \notin Clients!Listing THEN old
                  ELSE IF old = 0 \/ Clients!Beats(n, old) THEN n ELSE old]
  <2>1. ASSUME NEW n \in 0..Count, n # 0
        PROVE  f[n] = LET old == f[n - 1] IN
                      IF n \notin Clients!Listing THEN old
                      ELSE IF old = 0 \/ Clients!Beats(n, old) THEN n ELSE old
    <3>1. n \in 1..Count /\ n \in Nat /\ f[n - 1] \in Nat
      BY <2>1, <1>2, ClientsFacts
    <3> QED
      BY <1>2, <3>1 DEF F
  <2> QED
    BY <1>2, <2>1
<1>4. Clients!Best = [n \in 0..Count |->
             IF n = 0 THEN 0
             ELSE LET old == Clients!Best[n - 1] IN
                  IF n \notin Clients!Listing THEN old
                  ELSE IF old = 0 \/ Clients!Beats(n, old) THEN n ELSE old]
  BY <1>3 DEF Clients!Best
<1>5. 0 \in 0..Count /\ \A n \in 1..Count : n \in 0..Count /\ n # 0
  BY ClientsFacts
<1> QED
  BY <1>4, <1>5

\* w is the best witness among the routers up to n.
BestUpTo(w, n) ==
  LET listing == Clients!Listing \cap (1..n) IN
  IF listing = {} THEN w = 0
  ELSE /\ w \in listing
       /\ \A r \in listing :
            /\ r \in online => w \in online
            /\ (r \in online <=> w \in online) => sees[r].signal <= sees[w].signal

LEMMA BestIsBest ==
  ASSUME ClientsTypes PROVE \A n \in 0..Count : BestUpTo(Clients!Best[n], n)
<1> DEFINE Wrong == {n \in 0..Count : ~BestUpTo(Clients!Best[n], n)}
<1> SUFFICES ASSUME Wrong # {} PROVE FALSE
  OBVIOUS
<1>1. Wrong \in SUBSET Nat
  BY ClientsFacts
<1>2. PICK n \in Wrong : \A m \in Wrong : n <= m
  <2> HIDE DEF Wrong
  <2> QED
    BY <1>1, Least
<1>3. BestUpTo(Clients!Best[0], 0)
  BY BestIs DEF BestUpTo
<1>4. n \in 1..Count /\ n - 1 \in 0..Count /\ ~(n <= n - 1)
  <2>1. n \in 0..Count /\ n # 0
    BY <1>2, <1>3
  <2> QED
    BY <2>1, ClientsFacts
<1>5. BestUpTo(Clients!Best[n - 1], n - 1)
  BY <1>2, <1>4
<1> DEFINE old == Clients!Best[n - 1]
           before == Clients!Listing \cap (1..(n - 1))
           upTo == Clients!Listing \cap (1..n)
<1>6. /\ upTo = IF n \in Clients!Listing THEN before \cup {n} ELSE before
      /\ n \notin before /\ 0 \notin before
  BY <1>4, ClientsFacts
<1>7. \A r \in Clients!Listing : sees[r].signal \in Nat
  BY ClientsFacts DEF ClientsTypes, Clients!Listing, Clients!Signals
<1>8. /\ IF before = {} THEN old = 0
         ELSE /\ old \in before
              /\ \A r \in before :
                   /\ r \in online => old \in online
                   /\ (r \in online <=> old \in online) => sees[r].signal <= sees[old].signal
      /\ before \subseteq Clients!Listing
  BY <1>5 DEF BestUpTo
<1>9. Clients!Best[n] = IF n \notin Clients!Listing THEN old
                        ELSE IF old = 0 \/ Clients!Beats(n, old) THEN n ELSE old
  BY <1>4, BestIs
<1> HIDE DEF old, before, upTo
<1>10. CASE n \notin Clients!Listing
  <2>1. Clients!Best[n] = old /\ upTo = before
    BY <1>6, <1>9, <1>10
  <2>2. BestUpTo(old, n)
    BY <1>8, <2>1 DEF BestUpTo, upTo
  <2> QED
    BY <1>2, <2>1, <2>2
<1>11. CASE n \in Clients!Listing
  <2> DEFINE w == Clients!Best[n]
  <2>1. /\ w \in upTo
        /\ \A r \in upTo : /\ r \in online => w \in online
                           /\ (r \in online <=> w \in online) => sees[r].signal <= sees[w].signal
    <3>1. CASE before = {}
      BY <1>6, <1>7, <1>8, <1>9, <1>11, <3>1
    <3>2. CASE before # {} /\ Clients!Beats(n, old)
      <4>1. w = n /\ n \in upTo /\ n \in Clients!Listing /\ old \in Clients!Listing
        BY <1>6, <1>8, <1>9, <1>11, <3>2
      <4>2. \/ n \in online /\ old \notin online
            \/ (n \in online <=> old \in online) /\ sees[old].signal < sees[n].signal
        BY <1>7, <3>2, <4>1 DEF Clients!Beats, Clients!Stale
      <4> HIDE DEF w
      <4>3. ASSUME NEW r \in before
            PROVE  /\ r \in online => n \in online
                   /\ (r \in online <=> n \in online) => sees[r].signal <= sees[n].signal
        BY <1>7, <1>8, <4>1, <4>2
      <4> QED
        BY <1>6, <1>7, <4>1, <4>3
    <3>3. CASE before # {} /\ ~Clients!Beats(n, old)
      <4>1. w = old /\ old \in upTo /\ n \in Clients!Listing /\ old \in Clients!Listing
        BY <1>6, <1>8, <1>9, <1>11, <3>3
      <4>2. \/ n \notin online /\ old \in online
            \/ (n \in online <=> old \in online) /\ sees[n].signal <= sees[old].signal
        BY <1>7, <3>3, <4>1 DEF Clients!Beats, Clients!Stale
      <4> HIDE DEF w
      <4> QED
        BY <1>6, <1>8, <4>1, <4>2
    <3> QED
      BY <3>1, <3>2, <3>3
  <2>2. BestUpTo(w, n)
    BY <2>1 DEF BestUpTo, upTo
  <2> QED
    BY <1>2, <2>2
<1> QED
  BY <1>10, <1>11

\* However many routers list a client, with whatever signals and however stale, the map
\* shows it once, at a fresh router if one lists it, and there at the strongest signal.
THEOREM ClientsAreShownOnce == Clients!Spec => ShownOnce
<1>1. ClientsTypes /\ [Clients!Next]_(Clients!vars) =>
        [<<node', clientEdges'>> # <<node, clientEdges>> /\ ~known =>
           IF Clients!Listing = {} THEN node' = 0 /\ clientEdges' = {}
           ELSE /\ node' \in Clients!Listing /\ clientEdges' = {node'}
                /\ (Clients!Listing \cap online # {} => node' \in online)
                /\ \A r \in Clients!Listing : (r \in online <=> node' \in online)
                                                => sees[r].signal <= sees[node'].signal
        ]_(Clients!vars)
  <2> SUFFICES ASSUME ClientsTypes, Clients!Next,
                      <<node', clientEdges'>> # <<node, clientEdges>>, ~known
               PROVE  IF Clients!Listing = {} THEN node' = 0 /\ clientEdges' = {}
                      ELSE /\ node' \in Clients!Listing /\ clientEdges' = {node'}
                           /\ (Clients!Listing \cap online # {} => node' \in online)
                           /\ \A r \in Clients!Listing : (r \in online <=> node' \in online)
                                => sees[r].signal <= sees[node'].signal
    OBVIOUS
  <2>1. Clients!Snapshot
    BY DEF Clients!Next, Clients!Poll, Clients!PollFails
  <2>2. /\ node' = Clients!Best[Count]
        /\ clientEdges' = {r \in Clients!Listing :
                             Clients!Best[Count] = 0 \/ r = Clients!Best[Count]}
    BY <2>1 DEF Clients!Snapshot, Clients!Winner, Clients!Losing
  <2>3. BestUpTo(Clients!Best[Count], Count)
    BY BestIsBest, ClientsFacts
  <2>4. Clients!Listing \cap (1..Count) = Clients!Listing /\ 0 \notin Clients!Listing
    BY ClientsFacts DEF Clients!Listing, Clients!Aps
  <2> QED
    BY <2>2, <2>3, <2>4 DEF BestUpTo
<1> QED
  BY <1>1, ClientsTypesHold, PTL DEF Clients!Spec, ShownOnce, Clients!ShownOnce
================================================================================
