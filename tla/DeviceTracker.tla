----------------------------- MODULE DeviceTracker -----------------------------
(***************************************************************************)
(* The client trackers of all config entries (device_tracker.py): which     *)
(* entry owns the one entity of a client, from set-up to unload, and what   *)
(* that entity shows while routers answer, fail and go.                     *)
(*                                                                          *)
(* A poll and the listeners it notifies run without an await, so they are   *)
(* one action.  DataUpdateCoordinator notifies after a success and after    *)
(* the first failure.  Home Assistant (external) refuses a second entity    *)
(* with the unique id of an existing one, and runs the on_unload callbacks  *)
(* when async_unload_entry has returned True, that is some awaits after the *)
(* platforms were unloaded.                                                 *)
(***************************************************************************)
EXTENDS Naturals

CONSTANTS Entries,     \* config entries, one router each
          Macs,        \* clients
          Threshold,   \* NOTIFICATION_FAILURE_THRESHOLD
          Free,        \* claimed by no entry, no entity
          Ghost        \* the entity of a coordinator that was shut down

TrackerAssumptions ==
  /\ Threshold \in Nat \ {0}
  /\ Free \notin Entries
  /\ Ghost \notin Entries
  /\ Free # Ghost

VARIABLES
  phase,      \* of each entry; "stuck" is Home Assistant's FAILED_UNLOAD
  seen,       \* coordinator.data.clients: the clients of the last good poll
  failures,   \* _failure_count, up to Threshold
  overdue,    \* PRESENCE_STALE_AFTER_S is over since the first failure
  parity,     \* history: of the number of polls, so that each poll is a step
  claimed,    \* hass.data[_CLAIMED_MACS_KEY]
  tracked,    \* tracked_macs of each set-up
  entity,     \* the entry whose tracker entity exists for a client
  shown,      \* the state that entity has written last
  registry,   \* entity registry: the entry a known tracker belongs to
  disabled    \* entity registry: disabled trackers; not changed in a behaviour

coordinators == <<phase, seen, failures, overdue, parity>>
trackers == <<claimed, tracked, entity, shown, registry>>
vars == <<coordinators, trackers, disabled>>

Phases == {"unloaded", "starting", "loaded", "stopping", "closing", "stuck"}

TypeOK ==
  /\ phase \in [Entries -> Phases]
  /\ seen \in [Entries -> SUBSET Macs]
  /\ failures \in [Entries -> 0..Threshold]
  /\ overdue \in [Entries -> BOOLEAN]
  /\ parity \in [Entries -> BOOLEAN]
  /\ claimed \in [Macs -> Entries \cup {Free}]
  /\ tracked \in [Entries -> SUBSET Macs]
  /\ entity \in [Macs -> Entries \cup {Free, Ghost}]
  /\ shown \in [Macs -> {"none", "home", "not_home", "unavailable"}]
  /\ registry \in [Macs -> Entries \cup {Free}]
  /\ disabled \subseteq Macs

Init ==
  /\ phase = [e \in Entries |-> "unloaded"]
  /\ seen = [e \in Entries |-> {}]
  /\ failures = [e \in Entries |-> 0]
  /\ overdue = [e \in Entries |-> FALSE]
  /\ parity = [e \in Entries |-> FALSE]
  /\ claimed = [m \in Macs |-> Free]
  /\ tracked = [e \in Entries |-> {}]
  /\ entity = [m \in Macs |-> Free]
  /\ shown = [m \in Macs |-> "none"]
  /\ registry = [m \in Macs |-> Free]
  /\ disabled \in SUBSET Macs

-------------------------------------------------------------------------------
(* What an entity shows, over the state after the step.                     *)

\* stale_for_presence: the client list no longer counts.
Stale(e) == failures'[e] = Threshold \/ overdue'[e]

\* _other_coordinators: loaded entries, so not those being set up or unloaded.
Others(e) == {o \in Entries \ {e} : phase'[o] = "loaded" /\ ~Stale(o)}

\* available: last_update_success of the own or of another usable coordinator.
Available(e) == failures'[e] = 0 \/ \E o \in Others(e) : failures'[o] = 0

\* _find_client: the own router first, then the others.
Found(e, m) == (~Stale(e) /\ m \in seen'[e]) \/ \E o \in Others(e) : m \in seen'[o]

StateOf(e, m) ==
  IF ~Available(e) THEN "unavailable" ELSE IF Found(e, m) THEN "home" ELSE "not_home"

\* Fault: only the entities of the polled router are written.
WriteOwn(e) ==
  shown' = [m \in Macs |-> IF entity'[m] = e THEN StateOf(e, m) ELSE shown[m]]

\* The entities of e and, by _SIGNAL_ROUTER_POLLED, those of failing owners are
\* written.  What a ghost shows is left out.
Write(e) ==
  shown' = [m \in Macs |->
              IF entity'[m] \in Entries /\ (entity'[m] = e \/ failures'[entity'[m]] > 0)
              THEN StateOf(entity'[m], m) ELSE shown[m]]

\* _claim: what is still free, or of this entry, and not tracked by this set-up.
Claimable(e, candidates, known) ==
  {m \in candidates \ known : claimed[m] \in {Free, e}}

\* Claims the candidates and passes their entities to Home Assistant, which
\* registers them and adds those that are enabled and not there yet.
Claim(e, candidates, known) ==
  LET new == Claimable(e, candidates, known) IN
  /\ claimed' = [m \in Macs |-> IF m \in new THEN e ELSE claimed[m]]
  /\ tracked' = [tracked EXCEPT ![e] = known \cup new]
  /\ registry' = [m \in Macs |-> IF m \in new THEN e ELSE registry[m]]
  /\ entity' = [m \in Macs |->
                  IF m \in new \ disabled /\ entity[m] = Free THEN e ELSE entity[m]]

-------------------------------------------------------------------------------
\* async_setup_entry of the platform, after the first refresh: the clients of
\* the first poll and the enabled trackers the registry knows for this entry.
Setup(e, clients) ==
  /\ phase[e] = "unloaded"
  /\ phase' = [phase EXCEPT ![e] = "starting"]
  /\ seen' = [seen EXCEPT ![e] = clients]
  /\ failures' = [failures EXCEPT ![e] = 0]
  /\ overdue' = [overdue EXCEPT ![e] = FALSE]
  /\ Claim(e, clients \cup {m \in Macs \ disabled : registry[m] = e}, {})
  /\ shown' = [m \in Macs |-> IF entity'[m] = e THEN StateOf(e, m) ELSE shown[m]]
  /\ UNCHANGED <<parity, disabled>>

\* The other platforms and the panel are set up as well.
SetupEnds(e) ==
  /\ phase[e] = "starting"
  /\ phase' = [phase EXCEPT ![e] = "loaded"]
  /\ UNCHANGED <<seen, failures, overdue, parity, trackers, disabled>>

\* The coordinator polls from its set-up until the on_unload callbacks ran.
Listening(e) == phase[e] # "unloaded"

\* Fault: only clients that the last poll did not list are offered to _claim.
PollSucceedsNewOnly(e, clients) ==
  /\ Listening(e)
  /\ seen' = [seen EXCEPT ![e] = clients]
  /\ failures' = [failures EXCEPT ![e] = 0]
  /\ overdue' = [overdue EXCEPT ![e] = FALSE]
  /\ Claim(e, clients \ seen[e], tracked[e])
  /\ UNCHANGED <<phase, disabled>>
  /\ Write(e)

PollSucceeds(e, clients) ==
  /\ Listening(e)
  /\ seen' = [seen EXCEPT ![e] = clients]
  /\ failures' = [failures EXCEPT ![e] = 0]
  /\ overdue' = [overdue EXCEPT ![e] = FALSE]
  /\ Claim(e, clients, tracked[e])
  /\ UNCHANGED <<phase, disabled>>
  /\ Write(e)

\* The first failure notifies the listeners, with the old client list.
PollFailsFirst(e) ==
  /\ Listening(e) /\ failures[e] = 0
  /\ failures' = [failures EXCEPT ![e] = 1]
  /\ Claim(e, seen[e], tracked[e])
  /\ UNCHANGED <<phase, seen, overdue, disabled>>
  /\ Write(e)

\* Further failures are only counted.
PollFailsAgain(e) ==
  /\ Listening(e) /\ failures[e] > 0
  /\ failures' = [failures EXCEPT ![e] = IF @ < Threshold THEN @ + 1 ELSE @]
  /\ UNCHANGED <<phase, seen, overdue, trackers, disabled>>

Poll(e) ==
  /\ parity' = [parity EXCEPT ![e] = ~@]
  /\ \/ \E clients \in SUBSET Macs : PollSucceeds(e, clients)
     \/ PollFailsFirst(e)
     \/ PollFailsAgain(e)

\* The grace period may end before the third failure, at long poll intervals.
GraceEnds(e) ==
  /\ failures[e] > 0 /\ ~overdue[e]
  /\ overdue' = [overdue EXCEPT ![e] = TRUE]
  /\ UNCHANGED <<phase, seen, failures, parity, trackers, disabled>>

StartUnload(e) ==
  /\ phase[e] = "loaded"
  /\ phase' = [phase EXCEPT ![e] = "stopping"]
  /\ UNCHANGED <<seen, failures, overdue, parity, trackers, disabled>>

\* The entities of e leave Home Assistant with their platform.
RemoveEntities(e) ==
  /\ entity' = [m \in Macs |-> IF entity[m] = e THEN Free ELSE entity[m]]
  /\ shown' = [m \in Macs |-> IF entity[m] = e THEN "none" ELSE shown[m]]

\* async_unload_platforms returns True; the panel teardown and async_close
\* follow, with awaits, while the coordinator still polls and is listened to.
PlatformsUnloaded(e) ==
  /\ phase[e] = "stopping"
  /\ phase' = [phase EXCEPT ![e] = "closing"]
  /\ RemoveEntities(e)
  /\ UNCHANGED <<seen, failures, overdue, parity, claimed, tracked, registry, disabled>>

\* A platform refuses: async_unload_entry returns False and no on_unload callback
\* runs.  This platform may have been unloaded or not.
PlatformsRefuse(e) ==
  /\ phase[e] = "stopping"
  /\ phase' = [phase EXCEPT ![e] = "stuck"]
  /\ RemoveEntities(e) \/ UNCHANGED <<entity, shown>>
  /\ UNCHANGED <<seen, failures, overdue, parity, claimed, tracked, registry, disabled>>

\* Fault: the claims of the entry are not released.
UnloadEndsClaiming(e) ==
  /\ phase[e] = "closing"
  /\ phase' = [phase EXCEPT ![e] = "unloaded"]
  /\ tracked' = [tracked EXCEPT ![e] = {}]
  /\ entity' = [m \in Macs |-> IF entity[m] = e THEN Ghost ELSE entity[m]]
  /\ shown' = [m \in Macs |-> IF entity[m] = e THEN "none" ELSE shown[m]]
  /\ UNCHANGED <<seen, failures, overdue, parity, claimed, registry, disabled>>

\* The on_unload callbacks: _release_claimed_macs, the listener, the coordinator.
\* An entity added since PlatformsUnloaded stays behind.
UnloadEnds(e) ==
  /\ phase[e] = "closing"
  /\ phase' = [phase EXCEPT ![e] = "unloaded"]
  /\ claimed' = [m \in Macs |->
                   IF m \in tracked[e] /\ claimed[m] = e THEN Free ELSE claimed[m]]
  /\ tracked' = [tracked EXCEPT ![e] = {}]
  /\ entity' = [m \in Macs |-> IF entity[m] = e THEN Ghost ELSE entity[m]]
  /\ shown' = [m \in Macs |-> IF entity[m] = e THEN "none" ELSE shown[m]]
  /\ UNCHANGED <<seen, failures, overdue, parity, registry, disabled>>

\* Home Assistant restarts: only the registry survives.
Restart ==
  /\ phase' = [e \in Entries |-> "unloaded"]
  /\ claimed' = [m \in Macs |-> Free]
  /\ tracked' = [e \in Entries |-> {}]
  /\ entity' = [m \in Macs |-> Free]
  /\ shown' = [m \in Macs |-> "none"]
  /\ UNCHANGED <<seen, failures, overdue, parity, registry, disabled>>

Next ==
  \/ \E e \in Entries, clients \in SUBSET Macs : Setup(e, clients)
  \/ \E e \in Entries :
       \/ SetupEnds(e) \/ Poll(e) \/ GraceEnds(e) \/ StartUnload(e)
       \/ PlatformsUnloaded(e) \/ PlatformsRefuse(e) \/ UnloadEnds(e)
  \/ Restart

Spec == Init /\ [][Next]_vars

\* A coordinator with listeners schedules its next poll after every poll.
Fairness == \A e \in Entries : WF_vars(Poll(e))

LiveSpec == Spec /\ Fairness

-------------------------------------------------------------------------------
(* Properties.                                                              *)

\* A claim belongs to an entry that is set up, is remembered by that set-up for
\* its release, and while the entry is loaded an entity backs it (unless the
\* tracker is disabled, or a ghost occupies the unique id): otherwise no entry
\* could ever track the client again (_claimed_macs in device_tracker.py).
ClaimIsBacked ==
  \A m \in Macs, e \in Entries :
    claimed[m] = e =>
      /\ phase[e] # "unloaded" /\ m \in tracked[e]
      /\ phase[e] \in {"starting", "loaded"} => m \in disabled \/ entity[m] \in {e, Ghost}

\* Trackers known to the registry are restored with their entry, absent clients
\* included, so that they show not_home and not unavailable after a restart.
KnownIsRestored ==
  \A m \in Macs \ disabled, e \in Entries :
    registry[m] = e /\ phase[e] \in {"starting", "loaded"} => entity[m] \in {e, Ghost}

\* The unload of the owner hands a client over: while a loaded router lists the
\* client and answers, the client is tracked in the end.  Only an entry whose
\* unload failed keeps its claim.
SeenIsTracked ==
  \A m \in Macs, r \in Entries :
    phase[r] = "loaded" /\ m \in seen[r] /\ failures[r] = 0 ~>
      \/ entity[m] # Free \/ m \in disabled
      \/ claimed[m] \in Entries /\ phase[claimed[m]] \in {"stopping", "closing", "stuck"}
      \/ phase[r] # "loaded" \/ m \notin seen[r] \/ failures[r] > 0

\* "home" is not shown forever for a client that no usable router lists, as long
\* as a loaded router answers: also when the owner of the entity fails.
PresenceSettles ==
  \A m \in Macs :
    LET usable == {e \in Entries : failures[e] < Threshold /\ ~overdue[e]
                                     /\ (phase[e] = "loaded" \/ entity[m] = e)} IN
    entity[m] \in Entries /\ shown[m] = "home" /\ (\A e \in usable : m \notin seen[e]) ~>
      \/ shown[m] # "home"
      \/ \E e \in usable : m \in seen[e]
      \/ \A e \in Entries : phase[e] = "loaded" => failures[e] > 0
================================================================================
