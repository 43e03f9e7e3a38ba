----------------------------- MODULE TopologyPanel -----------------------------
(***************************************************************************)
(* The one topology panel all config entries share (topology_panel.py): its *)
(* reference count, the stages of its registration, the access options of   *)
(* the entries, and the view that answers 410 when no entry is loaded.      *)
(*                                                                          *)
(* A lock serialises set-up, option change and teardown.  A set-up is two   *)
(* actions, up to the first registration and from there to the release of   *)
(* the lock, since a registration may suspend; each stage may raise.        *)
(***************************************************************************)
EXTENDS Naturals, FiniteSets

CONSTANTS Entries, Nobody

ASSUME PanelAssumptions ==
  /\ IsFiniteSet(Entries)
  /\ Nobody \notin Entries

VARIABLES
  state,       \* state of each config entry in Home Assistant
  option,      \* its option topology_panel_all_users, as stored
  lock,        \* entry that holds the set-up lock
  job,         \* for each entry, what its set-up under way remembers
  refcount,    \* _PANEL_REFCOUNT_KEY
  access,      \* _PANEL_ACCESS_KEY: "none" for an entry that is not in it
  registered,  \* _PANEL_REGISTERED_KEY
  audience,    \* _PANEL_REQUIRE_ADMIN_KEY
  bound,       \* stages with their _BOUND_KEY set
  disabled,    \* _PANEL_VIEW_DISABLED_KEY
  panel,       \* Home Assistant: the sidebar panel, and for whom
  routes,      \* Home Assistant: how often each stage was bound
  rolledBack   \* history: a set-up failed since the last full teardown

entries == <<state, option>>
flags   == <<registered, audience, bound>>
ha      == <<panel, routes>>
vars    == <<entries, lock, job, refcount, access, flags, disabled, ha, rolledBack>>

Stages    == {"static", "view"}
Audience  == {"none", "admin", "all"}
Access    == {"none", "closed", "open"}

\* "known" is already_counted, "before" is previous_access, "bind" the stages
\* whose flag was not set, "all" the option to store when the set-up is over.
Job == [on : BOOLEAN, known : BOOLEAN, before : Access, bind : SUBSET Stages,
        all : Access]

NoJob == [on |-> FALSE, known |-> FALSE, before |-> "none", bind |-> {},
          all |-> "none"]

TypeOK ==
  /\ state \in [Entries -> {"absent", "loading", "loaded", "unloading"}]
  /\ option \in [Entries -> {"closed", "open"}]
  /\ lock \in Entries \cup {Nobody}
  /\ job \in [Entries -> Job]
  /\ refcount \in Nat
  /\ access \in [Entries -> Access]
  /\ registered \in BOOLEAN
  /\ audience \in Audience
  /\ bound \subseteq Stages
  /\ disabled \in BOOLEAN
  /\ panel \in Audience
  /\ routes \in [Stages -> Nat]
  /\ rolledBack \in BOOLEAN

Init ==
  /\ state = [e \in Entries |-> "absent"]
  /\ option \in [Entries -> {"closed", "open"}]
  /\ lock = Nobody
  /\ job = [e \in Entries |-> NoJob]
  /\ refcount = 0
  /\ access = [e \in Entries |-> "none"]
  /\ registered = FALSE
  /\ audience = "none"
  /\ bound = {}
  /\ disabled = FALSE
  /\ panel = "none"
  /\ routes = [s \in Stages |-> 0]
  /\ rolledBack = FALSE

-------------------------------------------------------------------------------
Counted == {e \in Entries : access[e] # "none"}

\* not _panel_open_to_all: the options combine with OR.
Wanted(acc) == IF \E e \in Entries : acc[e] = "open" THEN "all" ELSE "admin"

\* Fault: the panel still counts as registered when it could not be restored.
ApplyAccessKeeping(acc, fails) ==
  \/ /\ ~registered \/ audience = Wanted(acc)
     /\ ~fails
     /\ UNCHANGED <<registered, audience, panel>>
  \/ /\ registered /\ audience # Wanted(acc)
     /\ panel' = IF fails THEN "none" ELSE Wanted(acc)
     /\ audience' = IF fails THEN audience ELSE Wanted(acc)
     /\ UNCHANGED registered

\* _async_apply_panel_access: a changed audience means remove and register.
ApplyAccess(acc, fails) ==
  \/ /\ ~registered \/ audience = Wanted(acc)
     /\ ~fails
     /\ UNCHANGED <<registered, audience, panel>>
  \/ /\ registered /\ audience # Wanted(acc)
     /\ panel' = IF fails THEN "none" ELSE Wanted(acc)
     /\ audience' = IF fails THEN audience ELSE Wanted(acc)
     /\ registered' = ~fails

\* Fault: nobody waits for the lock.
AcquireUnlocked(e) == lock' = e

Acquire(e) == lock = Nobody /\ lock' = e

\* _async_setup_locked up to the first registration.
BeginSetup(e, all) ==
  /\ Acquire(e)
  /\ job[e] = NoJob
  /\ job' = [job EXCEPT ![e] = [on |-> TRUE, known |-> access[e] # "none",
                                before |-> access[e], bind |-> Stages \ bound,
                                all |-> all]]
  /\ refcount' = IF access[e] = "none" THEN refcount + 1 ELSE refcount
  /\ access' = [access EXCEPT ![e] = all]
  /\ disabled' = FALSE
  /\ UNCHANGED <<flags, ha, rolledBack>>

\* Fault: the entry stays counted.
RollBackAccessOnly(e) ==
  /\ access' = [access EXCEPT ![e] = job[e].before]
  /\ rolledBack' = TRUE
  /\ UNCHANGED refcount

\* What this set-up added goes; the flags of the stages stay.
RollBack(e) ==
  /\ refcount' = IF job[e].known THEN refcount ELSE refcount - 1
  /\ access' = [access EXCEPT ![e] = job[e].before]
  /\ rolledBack' = TRUE

Bind(done) ==
  /\ bound' = bound \cup done
  /\ routes' = [s \in Stages |-> IF s \in done THEN routes[s] + 1 ELSE routes[s]]

\* The panel is there already: only its audience may change.
RegisteredBefore(e) ==
  /\ registered
  /\ \E fails \in BOOLEAN :
       /\ ApplyAccess(access, fails)
       /\ IF fails THEN RollBack(e) ELSE UNCHANGED <<refcount, access, rolledBack>>
  /\ UNCHANGED <<bound, routes>>

\* Static path, view and sidebar panel, in this order.
RegisterAll(e) ==
  /\ ~registered
  /\ Bind(job[e].bind)
  /\ registered' = TRUE
  /\ audience' = Wanted(access)
  /\ panel' = Wanted(access)
  /\ UNCHANGED <<refcount, access, rolledBack>>

StageRaises(e) ==
  /\ ~registered
  /\ \E done \in {{}, {"static"}, Stages} :
       /\ "view" \in done \/ "view" \in job[e].bind
       /\ done # {} \/ "static" \in job[e].bind
       /\ Bind(done \cap job[e].bind)
  /\ RollBack(e)
  /\ UNCHANGED <<registered, audience, panel>>

\* The entry is loaded whether or not its panel set-up failed.  The option is
\* stored in any case: the options flow swallows the exception.
EndSetup(e) ==
  /\ job[e].on
  /\ RegisteredBefore(e) \/ RegisterAll(e) \/ StageRaises(e)
  /\ job' = [job EXCEPT ![e] = NoJob]
  /\ lock' = Nobody
  /\ state' = [state EXCEPT ![e] = IF @ = "loading" THEN "loaded" ELSE @]
  /\ option' = [option EXCEPT ![e] = job[e].all]
  /\ UNCHANGED disabled

-------------------------------------------------------------------------------
(* The entries.                                                             *)

\* async_setup_entry has forwarded the platforms; async_setup_topology_panel.
Setup(e) ==
  /\ state[e] = "loading"
  /\ BeginSetup(e, option[e])
  /\ UNCHANGED entries

Load(e) ==
  /\ state[e] = "absent"
  /\ state' = [state EXCEPT ![e] = "loading"]
  /\ UNCHANGED <<option, lock, job, refcount, access, flags, disabled, ha, rolledBack>>

StartUnload(e) ==
  /\ state[e] = "loaded"
  /\ state' = [state EXCEPT ![e] = "unloading"]
  /\ UNCHANGED <<option, lock, job, refcount, access, flags, disabled, ha, rolledBack>>

\* The options flow: async_update_topology_panel_access, whose errors it
\* swallows, then the option is stored.
ChangeAccess(e, all) ==
  /\ access[e] # "none"
  /\ access' = [access EXCEPT ![e] = all]
  /\ option' = [option EXCEPT ![e] = all]
  /\ \E fails \in BOOLEAN : ApplyAccess(access', fails)
  /\ UNCHANGED <<lock, job, refcount, bound, disabled, routes, rolledBack>>

\* A loaded entry whose set-up failed gets another one.
SetupLate(e, all) ==
  /\ access[e] = "none"
  /\ state[e] = "loaded"
  /\ BeginSetup(e, all)
  /\ UNCHANGED option

NotLoaded(e, all) ==
  /\ access[e] = "none" /\ state[e] # "loaded"
  /\ option' = [option EXCEPT ![e] = all]
  /\ UNCHANGED <<lock, job, refcount, access, flags, disabled, ha, rolledBack>>

Options(e, all) ==
  /\ lock = Nobody
  /\ ChangeAccess(e, all) \/ SetupLate(e, all) \/ NotLoaded(e, all)
  /\ UNCHANGED state

\* async_teardown_topology_panel: an entry that was never counted, one of
\* several, and the last one.
TeardownSkipped(e) ==
  /\ access[e] = "none"
  /\ UNCHANGED <<refcount, access, flags, disabled, ha, rolledBack>>

TeardownOne(e) ==
  /\ access[e] # "none" /\ refcount > 1
  /\ refcount' = refcount - 1
  /\ access' = [access EXCEPT ![e] = "none"]
  /\ \E fails \in BOOLEAN : ApplyAccess(access', fails)
  /\ UNCHANGED <<bound, disabled, routes, rolledBack>>

\* Fault: the view goes on answering.
TeardownLastServing(e) ==
  /\ access[e] # "none" /\ refcount <= 1
  /\ refcount' = 0
  /\ access' = [access EXCEPT ![e] = "none"]
  /\ panel' = "none"
  /\ audience' = "none"
  /\ registered' = FALSE
  /\ rolledBack' = FALSE
  /\ UNCHANGED <<bound, disabled, routes>>

TeardownLast(e) ==
  /\ access[e] # "none" /\ refcount <= 1
  /\ refcount' = 0
  /\ access' = [access EXCEPT ![e] = "none"]
  /\ panel' = "none"
  /\ disabled' = TRUE
  /\ audience' = "none"
  /\ registered' = FALSE
  /\ rolledBack' = FALSE
  /\ UNCHANGED <<bound, routes>>

Teardown(e) ==
  /\ state[e] = "unloading"
  /\ lock = Nobody
  /\ TeardownSkipped(e) \/ TeardownOne(e) \/ TeardownLast(e)
  /\ state' = [state EXCEPT ![e] = "absent"]
  /\ UNCHANGED <<option, lock, job>>

Next ==
  \E e \in Entries :
    \/ Load(e) \/ Setup(e) \/ EndSetup(e) \/ StartUnload(e) \/ Teardown(e)
    \/ \E all \in {"closed", "open"} : Options(e, all)

Spec == Init /\ [][Next]_vars

-------------------------------------------------------------------------------
(* Properties.  Most speak of the states in which no set-up is under way.   *)

Settled == lock = Nobody

\* The reference count is the number of entries with a live panel set-up,
\* through every failure and roll-back.
CountIsExact == refcount = Cardinality(Counted)

\* Only loaded entries are counted and have a say in who may see the panel: an
\* option stored for an entry that is not loaded has no effect yet, and an unload
\* takes the entry out although its option is being changed.
CountedIsLoaded ==
  Settled => \A e \in Counted : state[e] \in {"loaded", "unloading"}

\* The sidebar shows the panel exactly when the flag says so, and to admins only
\* unless a counted entry opens it to all users.
PanelFollowsAccess ==
  Settled => panel = (IF registered THEN Wanted(access) ELSE "none")

\* The access map has the stored options of its entries.
AccessIsOption == Settled => \A e \in Counted : access[e] = option[e]

\* aiohttp refuses to bind a path or view again: no stage is bound twice, however
\* set-ups of several entries overlap and fail.
BoundOnce == \A s \in Stages : routes[s] <= 1

\* While an entry is counted the view answers, whichever entries went before;
\* "when all config entries have been unloaded" it answers 410, unless the set-up
\* of an entry failed since.
ViewFollowsEntries ==
  /\ Counted # {} => ~disabled
  /\ (/\ Settled /\ ~rolledBack
      /\ "view" \in bound
      /\ \A e \in Entries : state[e] = "absent") => disabled
================================================================================
