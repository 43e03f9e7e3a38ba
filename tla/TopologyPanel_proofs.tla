-------------------------- MODULE TopologyPanel_proofs --------------------------
(***************************************************************************)
(* Proofs about TopologyPanel for any finite set of entries: the types and   *)
(* all invariants of the module.                                             *)
(***************************************************************************)
EXTENDS TopologyPanel, FiniteSetTheorems, TLAPS

-------------------------------------------------------------------------------
(* The inductive invariant.  It says what holds while a set-up is under way, *)
(* in particular that it is the first one of its entry: what a failure takes *)
(* back is all there is of the entry.                                        *)

OwnerHasJob ==
  /\ \A e \in Entries : job[e].on <=> lock = e
  /\ \A e \in Entries : ~job[e].on => job[e] = NoJob

Underway ==
  \A e \in Entries : lock = e =>
    /\ ~job[e].known /\ job[e].before = "none"
    /\ job[e].bind = Stages \ bound
    /\ access[e] = job[e].all /\ access[e] # "none"
    /\ state[e] # "absent"

OthersAreLoaded ==
  \A e \in Counted : lock # e =>
    state[e] \in {"loaded", "unloading"} /\ access[e] = option[e]

PanelHolds ==
  /\ ~registered => panel = "none"
  /\ registered => panel = audience
  /\ registered /\ Settled => audience = Wanted(access)

RoutesAreBound == \A s \in Stages : routes[s] = IF s \in bound THEN 1 ELSE 0

ServedIsCounted ==
  /\ Counted # {} => ~disabled
  /\ Settled /\ ~rolledBack /\ "view" \in bound /\ ~disabled => Counted # {}

PanelInv ==
  /\ TypeOK /\ OwnerHasJob /\ Underway /\ CountIsExact /\ OthersAreLoaded
  /\ PanelHolds /\ RoutesAreBound /\ ServedIsCounted

-------------------------------------------------------------------------------
LEMMA CountedIsFinite == IsFiniteSet(Counted) /\ Cardinality(Counted) \in Nat
<1>1. Counted \in SUBSET Entries
  BY DEF Counted
<1> QED
  BY <1>1, PanelAssumptions, FS_Subset, FS_CardinalityType

\* An entry that enters the access map.
LEMMA CountUp ==
  ASSUME TypeOK, CountIsExact, NEW e \in Entries, NEW v \in Access \ {"none"},
         access[e] = "none", access' = [access EXCEPT ![e] = v],
         refcount' = refcount + 1
  PROVE  CountIsExact' /\ Counted' = Counted \cup {e}
<1>1. Counted' = Counted \cup {e} /\ e \notin Counted
  BY DEF Counted, TypeOK
<1> QED
  BY <1>1, CountedIsFinite, FS_AddElement DEF CountIsExact

\* An entry that leaves it.
LEMMA CountDown ==
  ASSUME TypeOK, CountIsExact, NEW e \in Entries,
         access[e] # "none", access' = [access EXCEPT ![e] = "none"]
  PROVE  /\ Counted' = Counted \ {e}
         /\ Cardinality(Counted') = refcount - 1
         /\ refcount - 1 \in Nat
         /\ refcount - 1 = 0 <=> Counted' = {}
<1>1. Counted' = Counted \ {e} /\ e \in Counted
  BY DEF Counted, TypeOK
<1>2. IsFiniteSet(Counted \ {e}) /\ Cardinality(Counted \ {e}) = refcount - 1
  BY <1>1, CountedIsFinite, FS_RemoveElement DEF CountIsExact
<1> QED
  BY <1>1, <1>2, FS_CardinalityType, FS_EmptySet

\* What a re-registration leaves behind, whether or not it fails.
LEMMA ApplyAccessFacts ==
  ASSUME TypeOK, PanelHolds, NEW acc, NEW fails \in BOOLEAN,
         ApplyAccess(acc, fails)
  PROVE  /\ registered' \in BOOLEAN /\ audience' \in Audience /\ panel' \in Audience
         /\ ~registered' => panel' = "none"
         /\ registered' => panel' = audience' /\ audience' = Wanted(acc)
         /\ fails => ~registered'
<1>1. Wanted(acc) \in Audience
  BY DEF Wanted, Audience
<1>2. registered \in BOOLEAN /\ audience \in Audience /\ panel \in Audience
  BY DEF TypeOK
<1>3. CASE (~registered \/ audience = Wanted(acc)) /\ ~fails
           /\ UNCHANGED <<registered, audience, panel>>
  BY <1>2, <1>3 DEF PanelHolds
<1>4. CASE /\ panel' = (IF fails THEN "none" ELSE Wanted(acc))
           /\ audience' = (IF fails THEN audience ELSE Wanted(acc))
           /\ registered' = ~fails
  <2>1. CASE fails
    BY <1>2, <1>4, <2>1 DEF Audience
  <2>2. CASE ~fails
    BY <1>1, <1>4, <2>2
  <2> QED
    BY <2>1, <2>2
<1> QED
  BY <1>3, <1>4 DEF ApplyAccess

LEMMA PanelInit == Init => PanelInv
<1> SUFFICES ASSUME Init PROVE PanelInv
  OBVIOUS
<1>1. Counted = {}
  BY DEF Init, Counted
<1>2. TypeOK
  BY DEF Init, TypeOK, Job, NoJob, Access, Audience, Stages
<1>3. OwnerHasJob /\ Underway
  BY PanelAssumptions DEF Init, OwnerHasJob, Underway, NoJob
<1>4. CountIsExact
  BY <1>1, FS_EmptySet DEF Init, CountIsExact
<1> QED
  BY <1>1, <1>2, <1>3, <1>4
  DEF Init, PanelInv, OthersAreLoaded, PanelHolds, RoutesAreBound, ServedIsCounted

-------------------------------------------------------------------------------
LEMMA StateKeeps ==
  ASSUME PanelInv, NEW e \in Entries, Load(e) \/ StartUnload(e)
  PROVE  PanelInv'
<1>1. /\ UNCHANGED <<option, lock, job, refcount, access, flags, disabled, ha, rolledBack>>
      /\ \/ state[e] = "absent" /\ state' = [state EXCEPT ![e] = "loading"]
         \/ state[e] = "loaded" /\ state' = [state EXCEPT ![e] = "unloading"]
  BY DEF Load, StartUnload
<1>2. Counted' = Counted
  BY <1>1 DEF Counted
<1>3. TypeOK'
  BY <1>1 DEF PanelInv, TypeOK, flags, ha
<1>4. OwnerHasJob'
  BY <1>1 DEF PanelInv, OwnerHasJob
<1>5. Underway'
  BY <1>1 DEF PanelInv, Underway, TypeOK, flags
<1>6. OthersAreLoaded'
  BY <1>1, <1>2 DEF PanelInv, OthersAreLoaded, TypeOK, Counted
<1>7. CountIsExact' /\ PanelHolds' /\ RoutesAreBound' /\ ServedIsCounted'
  BY <1>1, <1>2
  DEF PanelInv, CountIsExact, PanelHolds, RoutesAreBound, ServedIsCounted, Settled,
      Wanted, flags, ha
<1> QED
  BY <1>3, <1>4, <1>5, <1>6, <1>7 DEF PanelInv

\* Both kinds of set-up begin with an entry that is not in the map.
LEMMA BeginSetupKeeps ==
  ASSUME PanelInv, NEW e \in Entries, NEW all \in {"closed", "open"},
         access[e] = "none", state[e] # "absent",
         BeginSetup(e, all), UNCHANGED entries
  PROVE  PanelInv'
<1>1. /\ lock = Nobody /\ lock' = e
      /\ job' = [job EXCEPT ![e] = [on |-> TRUE, known |-> FALSE, before |-> "none",
                                    bind |-> Stages \ bound, all |-> all]]
      /\ refcount' = refcount + 1
      /\ access' = [access EXCEPT ![e] = all]
      /\ disabled' = FALSE
      /\ UNCHANGED <<state, option, registered, audience, bound, panel, routes, rolledBack>>
  BY DEF BeginSetup, Acquire, entries, flags, ha
<1>2. TypeOK
  BY DEF PanelInv
<1>3. CountIsExact' /\ Counted' = Counted \cup {e}
  BY <1>1, <1>2, CountUp DEF PanelInv, Access
<1>4. TypeOK'
  <2>1. refcount' \in Nat /\ access' \in [Entries -> Access]
    BY <1>1, <1>2 DEF TypeOK, Access
  <2>2. job' \in [Entries -> Job]
    BY <1>1, <1>2 DEF TypeOK, Job, Access
  <2> QED
    BY <1>1, <1>2, <2>1, <2>2 DEF TypeOK
<1>5. OwnerHasJob'
  BY <1>1, <1>2, PanelAssumptions DEF PanelInv, OwnerHasJob, TypeOK
<1>6. Underway'
  BY <1>1, <1>2 DEF Underway, TypeOK
<1>7. OthersAreLoaded'
  BY <1>1, <1>2, <1>3, PanelAssumptions
  DEF PanelInv, OthersAreLoaded, TypeOK, Counted
<1>8. PanelHolds' /\ ServedIsCounted'
  BY <1>1, PanelAssumptions DEF PanelInv, PanelHolds, ServedIsCounted, Settled
<1>9. RoutesAreBound'
  BY <1>1 DEF PanelInv, RoutesAreBound
<1> QED
  BY <1>3, <1>4, <1>5, <1>6, <1>7, <1>8, <1>9 DEF PanelInv

\* A set-up that failed takes back its entry, and nothing else.
LEMMA RollBackFacts ==
  ASSUME PanelInv, NEW e \in Entries, job[e].on, RollBack(e)
  PROVE  /\ refcount' \in Nat /\ access' \in [Entries -> Access]
         /\ CountIsExact' /\ Counted' = Counted \ {e}
         /\ \A x \in Entries \ {e} : access'[x] = access[x]
         /\ rolledBack' = TRUE
<1>1. /\ TypeOK /\ CountIsExact /\ lock = e /\ access[e] # "none"
      /\ ~job[e].known /\ job[e].before = "none"
  BY DEF PanelInv, OwnerHasJob, Underway
<1>2. /\ refcount' = refcount - 1 /\ access' = [access EXCEPT ![e] = "none"]
      /\ rolledBack' = TRUE
  BY <1>1 DEF RollBack
<1>3. access' \in [Entries -> Access]
  BY <1>1, <1>2 DEF TypeOK, Access
<1>4. \A x \in Entries \ {e} : access'[x] = access[x]
  BY <1>1, <1>2 DEF TypeOK
<1> QED
  BY <1>1, <1>2, <1>3, <1>4, CountDown DEF CountIsExact

\* The stages that were bound get a second route in no case.
LEMMA BindFacts ==
  ASSUME PanelInv, NEW e \in Entries, job[e].on,
         NEW done \in SUBSET Stages, done \subseteq job[e].bind, Bind(done)
  PROVE  /\ bound' \subseteq Stages /\ routes' \in [Stages -> Nat]
         /\ RoutesAreBound'
<1>1. done \cap bound = {} /\ TypeOK /\ RoutesAreBound
  BY DEF PanelInv, OwnerHasJob, Underway
<1> QED
  BY <1>1 DEF Bind, RoutesAreBound, TypeOK

\* What the three ways to end a set-up have in common.
LEMMA SetupEnds ==
  ASSUME PanelInv, NEW e \in Entries, EndSetup(e)
  PROVE  /\ TypeOK' /\ CountIsExact' /\ PanelHolds' /\ RoutesAreBound'
         /\ Counted' = Counted \/ (Counted' = Counted \ {e} /\ rolledBack')
         /\ \A x \in Counted' : access'[x] = access[x]
<1>1. /\ job[e].on /\ job' = [job EXCEPT ![e] = NoJob] /\ lock' = Nobody
      /\ state' = [state EXCEPT ![e] = IF @ = "loading" THEN "loaded" ELSE @]
      /\ option' = [option EXCEPT ![e] = job[e].all]
      /\ disabled' = disabled
  BY DEF EndSetup
<1>2. TypeOK /\ lock = e /\ CountIsExact /\ PanelHolds /\ RoutesAreBound
      /\ job[e].all \in {"closed", "open"}
  BY <1>1 DEF PanelInv, OwnerHasJob, Underway, TypeOK, Job, Access
<1>3. /\ state' \in [Entries -> {"absent", "loading", "loaded", "unloading"}]
      /\ option' \in [Entries -> {"closed", "open"}]
      /\ lock' \in Entries \cup {Nobody} /\ disabled' \in BOOLEAN
  BY <1>1, <1>2 DEF TypeOK
<1>4. job' \in [Entries -> Job]
  BY <1>1, <1>2 DEF TypeOK, Job, NoJob, Access
<1>5. CASE RegisteredBefore(e)
  <2>1. PICK fails \in BOOLEAN :
          /\ ApplyAccess(access, fails)
          /\ IF fails THEN RollBack(e) ELSE UNCHANGED <<refcount, access, rolledBack>>
    BY <1>5 DEF RegisteredBefore
  <2>2. UNCHANGED <<bound, routes>>
    BY <1>5 DEF RegisteredBefore
  <2>3. /\ registered' \in BOOLEAN /\ audience' \in Audience /\ panel' \in Audience
        /\ ~registered' => panel' = "none"
        /\ registered' => panel' = audience' /\ audience' = Wanted(access)
        /\ fails => ~registered'
    BY <2>1, <1>2, ApplyAccessFacts
  <2>4. RoutesAreBound'
    BY <1>2, <2>2 DEF RoutesAreBound
  <2>5. CASE fails
    <3>1. RollBack(e)
      BY <2>1, <2>5
    <3>2. PanelHolds'
      BY <2>3, <2>5 DEF PanelHolds
    <3>3. rolledBack' \in BOOLEAN /\ TypeOK'
      BY <1>1, <1>2, <1>3, <1>4, <2>2, <2>3, <3>1, RollBackFacts DEF TypeOK
    <3> QED
      BY <1>1, <2>4, <3>1, <3>2, <3>3, RollBackFacts DEF Counted
  <2>6. CASE ~fails
    <3>1. UNCHANGED <<refcount, access, rolledBack>>
      BY <2>1, <2>6
    <3>2. PanelHolds'
      BY <2>3, <3>1 DEF PanelHolds, Wanted
    <3>3. TypeOK'
      BY <1>2, <1>3, <1>4, <2>2, <2>3, <3>1 DEF TypeOK
    <3> QED
      BY <1>2, <2>4, <3>1, <3>2, <3>3 DEF Counted, CountIsExact
  <2> QED
    BY <2>5, <2>6
<1>6. CASE RegisterAll(e)
  <2>1. /\ registered' = TRUE /\ audience' = Wanted(access) /\ panel' = Wanted(access)
        /\ UNCHANGED <<refcount, access, rolledBack>>
        /\ Bind(job[e].bind)
    BY <1>6 DEF RegisterAll
  <2>2. Wanted(access) \in Audience /\ Wanted(access)' = Wanted(access)
    BY <2>1 DEF Wanted, Audience
  <2>3. job[e].bind \subseteq Stages
    BY <1>2 DEF TypeOK, Job
  <2>4. bound' \subseteq Stages /\ routes' \in [Stages -> Nat] /\ RoutesAreBound'
    BY <1>1, <2>1, <2>3, BindFacts
  <2>5. TypeOK'
    BY <1>2, <1>3, <1>4, <2>1, <2>2, <2>4 DEF TypeOK
  <2> QED
    BY <1>2, <2>1, <2>2, <2>4, <2>5 DEF Counted, CountIsExact, PanelHolds
<1>7. CASE StageRaises(e)
  <2>1. PICK done \in {{}, {"static"}, Stages} : Bind(done \cap job[e].bind)
    BY <1>7 DEF StageRaises
  <2>2. /\ ~registered /\ RollBack(e) /\ UNCHANGED <<registered, audience, panel>>
    BY <1>7 DEF StageRaises
  <2>3. done \cap job[e].bind \in SUBSET Stages
    BY <2>1 DEF Stages
  <2>4. bound' \subseteq Stages /\ routes' \in [Stages -> Nat] /\ RoutesAreBound'
    BY <1>1, <2>1, <2>3, BindFacts
  <2>5. PanelHolds'
    BY <1>2, <2>2 DEF PanelHolds
  <2>6. TypeOK'
    BY <1>1, <1>2, <1>3, <1>4, <2>2, <2>4, RollBackFacts DEF TypeOK
  <2> QED
    BY <1>1, <2>2, <2>4, <2>5, <2>6, RollBackFacts DEF Counted
<1> QED
  BY <1>5, <1>6, <1>7 DEF EndSetup

LEMMA EndSetupKeeps ==
  ASSUME PanelInv, NEW e \in Entries, EndSetup(e)
  PROVE  PanelInv'
<1>1. /\ job[e].on /\ job' = [job EXCEPT ![e] = NoJob] /\ lock' = Nobody
      /\ state' = [state EXCEPT ![e] = IF @ = "loading" THEN "loaded" ELSE @]
      /\ option' = [option EXCEPT ![e] = job[e].all]
  BY DEF EndSetup
<1>2. /\ TypeOK /\ lock = e /\ OwnerHasJob
      /\ access[e] = job[e].all /\ state[e] # "absent" /\ e \in Counted
  BY <1>1 DEF PanelInv, OwnerHasJob, Underway, Counted
<1>3. OwnerHasJob'
  BY <1>1, <1>2, PanelAssumptions DEF OwnerHasJob, TypeOK, NoJob
<1>4. Underway'
  BY <1>1, PanelAssumptions DEF Underway
<1>5. OthersAreLoaded'
  <2> SUFFICES ASSUME NEW x \in Counted'
               PROVE  state'[x] \in {"loaded", "unloading"} /\ access'[x] = option'[x]
    BY DEF OthersAreLoaded
  <2>1. x \in Counted /\ access'[x] = access[x] /\ x \in Entries
    BY SetupEnds, <1>2 DEF Counted
  <2>2. CASE x = e
    BY <1>1, <1>2, <2>1, <2>2 DEF TypeOK
  <2>3. CASE x # e
    BY <1>1, <1>2, <2>1, <2>3 DEF PanelInv, OthersAreLoaded, TypeOK
  <2> QED
    BY <2>2, <2>3
<1>6. ServedIsCounted'
  <2>1. disabled' = disabled /\ ~disabled
    BY <1>2 DEF EndSetup, PanelInv, ServedIsCounted
  <2>2. Counted' = Counted \/ rolledBack'
    BY SetupEnds
  <2> QED
    BY <1>2, <2>1, <2>2 DEF ServedIsCounted
<1> QED
  BY <1>3, <1>4, <1>5, <1>6, SetupEnds DEF PanelInv

-------------------------------------------------------------------------------
\* With the lock free only the entry whose option changes is touched.
LEMMA OptionsKeeps ==
  ASSUME PanelInv, NEW e \in Entries, NEW all \in {"closed", "open"},
         Options(e, all)
  PROVE  PanelInv'
<1>1. lock = Nobody /\ TypeOK /\ UNCHANGED state /\ \A x \in Entries : lock # x
  BY PanelAssumptions DEF Options, PanelInv
<1>2. CASE SetupLate(e, all)
  BY <1>1, <1>2, BeginSetupKeeps DEF SetupLate, entries
<1>3. CASE NotLoaded(e, all)
  <2>1. /\ access[e] = "none" /\ option' = [option EXCEPT ![e] = all]
        /\ UNCHANGED <<lock, job, refcount, access, registered, audience, bound,
                       disabled, panel, routes, rolledBack>>
    BY <1>3 DEF NotLoaded, flags, ha
  <2>2. TypeOK'
    BY <1>1, <2>1 DEF TypeOK
  <2>3. OthersAreLoaded'
    BY <1>1, <2>1 DEF PanelInv, OthersAreLoaded, TypeOK, Counted
  <2>4. OwnerHasJob' /\ Underway'
    BY <1>1, <2>1 DEF PanelInv, OwnerHasJob, Underway
  <2>5. CountIsExact' /\ PanelHolds' /\ RoutesAreBound' /\ ServedIsCounted'
    BY <2>1
    DEF PanelInv, CountIsExact, PanelHolds, RoutesAreBound, ServedIsCounted, Settled,
        Wanted, Counted
  <2> QED
    BY <2>2, <2>3, <2>4, <2>5 DEF PanelInv
<1>4. CASE ChangeAccess(e, all)
  <2>1. PICK fails \in BOOLEAN : ApplyAccess(access', fails)
    BY <1>4 DEF ChangeAccess
  <2>2. /\ access[e] # "none" /\ access' = [access EXCEPT ![e] = all]
        /\ option' = [option EXCEPT ![e] = all]
        /\ UNCHANGED <<lock, job, refcount, bound, disabled, routes, rolledBack>>
    BY <1>4 DEF ChangeAccess
  <2>3. /\ registered' \in BOOLEAN /\ audience' \in Audience /\ panel' \in Audience
        /\ ~registered' => panel' = "none"
        /\ registered' => panel' = audience' /\ audience' = Wanted(access')
    BY <1>1, <2>1, ApplyAccessFacts DEF PanelInv
  <2>4. Counted' = Counted
    BY <1>1, <2>2 DEF Counted, TypeOK
  <2>5. TypeOK'
    BY <1>1, <2>2, <2>3 DEF TypeOK, Access
  <2>6. OthersAreLoaded'
    BY <1>1, <2>2, <2>4 DEF PanelInv, OthersAreLoaded, TypeOK, Counted
  <2>7. PanelHolds'
    BY <2>3 DEF PanelHolds, Wanted
  <2>8. OwnerHasJob' /\ Underway'
    BY <1>1, <2>2 DEF PanelInv, OwnerHasJob, Underway
  <2>9. CountIsExact' /\ RoutesAreBound' /\ ServedIsCounted'
    BY <2>2, <2>4
    DEF PanelInv, CountIsExact, RoutesAreBound, ServedIsCounted, Settled
  <2> QED
    BY <2>5, <2>6, <2>7, <2>8, <2>9 DEF PanelInv
<1> QED
  BY <1>2, <1>3, <1>4 DEF Options

\* An entry that leaves with others staying, and the last one.
LEMMA TeardownKeeps ==
  ASSUME PanelInv, NEW e \in Entries, Teardown(e)
  PROVE  PanelInv'
<1>1. /\ lock = Nobody /\ TypeOK /\ \A x \in Entries : lock # x
      /\ state' = [state EXCEPT ![e] = "absent"]
      /\ UNCHANGED <<option, lock, job>>
  BY PanelAssumptions DEF Teardown, PanelInv
<1>2. OwnerHasJob' /\ Underway'
  BY <1>1 DEF PanelInv, OwnerHasJob, Underway
<1>3. CASE TeardownSkipped(e)
  <2>1. /\ access[e] = "none"
        /\ UNCHANGED <<refcount, access, registered, audience, bound, disabled,
                       panel, routes, rolledBack>>
    BY <1>3 DEF TeardownSkipped, flags, ha
  <2>2. TypeOK'
    BY <1>1, <2>1 DEF TypeOK
  <2>3. OthersAreLoaded'
    BY <1>1, <2>1 DEF PanelInv, OthersAreLoaded, TypeOK, Counted
  <2>4. CountIsExact' /\ PanelHolds' /\ RoutesAreBound' /\ ServedIsCounted'
    BY <1>1, <2>1
    DEF PanelInv, CountIsExact, PanelHolds, RoutesAreBound, ServedIsCounted, Settled,
        Wanted, Counted
  <2> QED
    BY <1>2, <2>2, <2>3, <2>4 DEF PanelInv
<1>4. ASSUME access[e] # "none", access' = [access EXCEPT ![e] = "none"]
      PROVE  /\ access' \in [Entries -> Access]
             /\ Counted' = Counted \ {e} /\ Cardinality(Counted') = refcount - 1
             /\ refcount - 1 \in Nat /\ (refcount - 1 = 0 <=> Counted' = {})
             /\ OthersAreLoaded'
  <2>1. access' \in [Entries -> Access]
    BY <1>1, <1>4 DEF TypeOK, Access
  <2>2. Counted' = Counted \ {e}
    BY <1>1, <1>4, CountDown DEF PanelInv
  <2>3. OthersAreLoaded'
    BY <1>1, <1>4, <2>2 DEF PanelInv, OthersAreLoaded, TypeOK, Counted
  <2> QED
    BY <1>1, <1>4, <2>1, <2>3, CountDown DEF PanelInv
<1>5. CASE TeardownOne(e)
  <2>1. PICK fails \in BOOLEAN : ApplyAccess(access', fails)
    BY <1>5 DEF TeardownOne
  <2>2. /\ access[e] # "none" /\ access' = [access EXCEPT ![e] = "none"]
        /\ refcount > 1 /\ refcount' = refcount - 1
        /\ UNCHANGED <<bound, disabled, routes, rolledBack>>
    BY <1>5 DEF TeardownOne
  <2>3. /\ registered' \in BOOLEAN /\ audience' \in Audience /\ panel' \in Audience
        /\ ~registered' => panel' = "none"
        /\ registered' => panel' = audience' /\ audience' = Wanted(access')
    BY <1>1, <2>1, ApplyAccessFacts DEF PanelInv
  <2>4. TypeOK'
    BY <1>1, <1>4, <2>2, <2>3 DEF TypeOK
  <2>5. PanelHolds'
    BY <2>3 DEF PanelHolds, Wanted
  <2>6. Counted' # {}
    BY <1>1, <1>4, <2>2 DEF TypeOK
  <2>7. CountIsExact' /\ RoutesAreBound' /\ ServedIsCounted'
    BY <1>4, <2>2, <2>6 DEF PanelInv, CountIsExact, RoutesAreBound, ServedIsCounted
  <2> QED
    BY <1>2, <1>4, <2>2, <2>4, <2>5, <2>7 DEF PanelInv
<1>6. CASE TeardownLast(e)
  <2>1. /\ access[e] # "none" /\ access' = [access EXCEPT ![e] = "none"]
        /\ refcount <= 1 /\ refcount' = 0
        /\ panel' = "none" /\ audience' = "none" /\ registered' = FALSE
        /\ disabled' = TRUE /\ rolledBack' = FALSE
        /\ UNCHANGED <<bound, routes>>
    BY <1>6 DEF TeardownLast
  <2>2. refcount - 1 = 0
    BY <1>1, <1>4, <2>1 DEF TypeOK
  <2>3. TypeOK'
    BY <1>1, <1>4, <2>1 DEF TypeOK, Audience
  <2>4. CountIsExact' /\ PanelHolds' /\ RoutesAreBound' /\ ServedIsCounted'
    BY <1>4, <2>1, <2>2
    DEF PanelInv, CountIsExact, PanelHolds, RoutesAreBound, ServedIsCounted
  <2> QED
    BY <1>2, <1>4, <2>1, <2>3, <2>4 DEF PanelInv
<1> QED
  BY <1>3, <1>5, <1>6 DEF Teardown

-------------------------------------------------------------------------------
LEMMA PanelStep == PanelInv /\ [Next]_vars => PanelInv'
<1> SUFFICES ASSUME PanelInv, [Next]_vars PROVE PanelInv'
  OBVIOUS
<1>1. ASSUME NEW e \in Entries, Setup(e) PROVE PanelInv'
  <2>1. /\ lock = Nobody /\ state[e] = "loading" /\ UNCHANGED entries
        /\ BeginSetup(e, option[e]) /\ option[e] \in {"closed", "open"}
    BY <1>1 DEF Setup, BeginSetup, Acquire, PanelInv, TypeOK
  <2>2. access[e] = "none"
    BY <2>1, PanelAssumptions DEF PanelInv, OthersAreLoaded, Counted
  <2> QED
    BY <2>1, <2>2, BeginSetupKeeps
<1>2. CASE UNCHANGED vars
  BY <1>2 DEF vars, entries, flags, ha, PanelInv, TypeOK, OwnerHasJob, Underway, CountIsExact,
    OthersAreLoaded, PanelHolds, RoutesAreBound, ServedIsCounted, Settled, Wanted, Counted
<1> QED
  BY <1>1, <1>2, StateKeeps, EndSetupKeeps, OptionsKeeps, TeardownKeeps DEF Next

\* Every state of the panel is well-formed, for any finite set of entries.
THEOREM PanelTypeCorrect == Spec => []TypeOK
<1>1. PanelInv => TypeOK
  BY DEF PanelInv
<1> QED
  BY <1>1, PanelInit, PanelStep, PTL DEF Spec

\* The reference count never drifts, whatever set-ups fail and entries go.
THEOREM CountNeverDrifts == Spec => []CountIsExact
<1>1. PanelInv => CountIsExact
  BY DEF PanelInv
<1> QED
  BY <1>1, PanelInit, PanelStep, PTL DEF Spec

\* Only loaded entries are counted, and the map has their stored options.
THEOREM AccessIsOfLoadedEntries == Spec => [](CountedIsLoaded /\ AccessIsOption)
<1>1. PanelInv => CountedIsLoaded /\ AccessIsOption
  BY PanelAssumptions
  DEF PanelInv, OthersAreLoaded, CountedIsLoaded, AccessIsOption, Settled, Counted
<1> QED
  BY <1>1, PanelInit, PanelStep, PTL DEF Spec

\* Home Assistant shows the panel to whom the counted entries open it.
THEOREM PanelIsForItsAudience == Spec => []PanelFollowsAccess
<1>1. PanelInv => PanelFollowsAccess
  BY DEF PanelInv, PanelHolds, PanelFollowsAccess
<1> QED
  BY <1>1, PanelInit, PanelStep, PTL DEF Spec

\* No stage is ever bound a second time.
THEOREM NoStageIsBoundTwice == Spec => []BoundOnce
<1>1. PanelInv => BoundOnce
  BY DEF PanelInv, RoutesAreBound, BoundOnce
<1> QED
  BY <1>1, PanelInit, PanelStep, PTL DEF Spec

\* The view answers while an entry is counted, and 410 after the last unload
\* unless a set-up failed since.
THEOREM ViewIsServedOrGone == Spec => []ViewFollowsEntries
<1>1. PanelInv => ViewFollowsEntries
  <2> SUFFICES ASSUME PanelInv, Settled, ~rolledBack, "view" \in bound,
                      \A e \in Entries : state[e] = "absent"
               PROVE  disabled
    BY DEF ViewFollowsEntries, PanelInv, ServedIsCounted
  <2>1. Counted = {}
    BY PanelAssumptions DEF PanelInv, OthersAreLoaded, Settled, Counted
  <2> QED
    BY <2>1 DEF PanelInv, ServedIsCounted
<1> QED
  BY <1>1, PanelInit, PanelStep, PTL DEF Spec
================================================================================
