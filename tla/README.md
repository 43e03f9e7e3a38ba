# Verification of the OpenWrt router integration

TLA+ models of `custom_components/openwrt_router`, the Home Assistant
integration that polls OpenWrt routers over rpcd (ubus JSON-RPC) and SSH.
Paths below are relative to that directory unless they begin with another one.

## 1. The system

Everything runs on the event loop of Home Assistant: code between two awaits is
never interrupted, but every await lets other tasks run. One config entry is one
router with one `OpenWrtAPI` and one coordinator; several entries share state in
`hass.data`. There are no threads.

| Component | State | Operations | Hard behaviour | What makes it correct |
|---|---|---|---|---|
| rpcd session (`api.py` 1313-1601, 5075-5340) | `_token`, `_token_expires_at`, `_acl_blocked`, `_auth_failure_count`, `_auth_backoff_until`, `_closing` | `login`, `_call`, `_ensure_fresh_token`, `_destroy_session`, `async_close` | the poll and the commands of switches and buttons share it without a lock; sessions expire, rpcd restarts, answers get lost | no session is orphaned or destroyed while in use; only ACL refusals are cached; the backoff bounds the logins; every call ends |
| SSH transport (`api.py` 2950-3100) | `_ssh_conn`, `_ssh_conn_lock`, `_ssh_inflight`, `_ssh_release_pending`, `_ssh_use_key` | `_asyncssh_run`, `_asyncssh_exec_once`, release, drop | release under running commands, time limits at every await, lost connections | one connection, an exact counter, no release under a command, no session left open |
| Wi-Fi switch (`api.py` 2788-2948, 3537-3590; `switch.py`) | staged and committed config on the router | `set_wifi_state`, `reload_wifi` | the rpcd session is shared, so staged changes are too; every request may fail, or succeed without an answer | True means committed; nothing is left staged; refusals fall back |
| Fetchers (`api.py` 1646-2753, 3758-5754) | `_wifi_method`, `_hostapd_ifaces`, LLDP, port map, core count, df rows, boot flags, `_ddns_available`, `_ssh_fallback_used` | one per field of the poll | each has its own list of errors it forgives and of fallbacks; what it remembers decides what later polls ask | a router that serves everything is shown completely again |
| Poll (`coordinator.py` 549-1195) | `data`, `_board_poll_count`, `_throttled`, `update_interval` | `_async_poll` | errors of one field fail the poll or not, differently at the first poll | the set-up survives what the ACL refuses; the interval follows the state |
| Poll schedule, update check (`coordinator.py` 510-548, 1255-1296) | timer handle, `_stagger_pending`, `_package_updates`, lock | timer, requested refresh, button | the delay of the first poll meets requested refreshes; polls overlap with checks | polling never stops; a result comes to stay |
| Outage tracker (`fleet.py` 60-260) | `_routers`, `_down`, `_fleet_since`, timer; Repairs issues | register, unregister, report_up, report_down, timer | reports of routers in any order around a timer | nobody is forgotten; one issue for one cause; issues go with their cause |
| Outage reporting (`coordinator.py` 1036-1120, 1297-1312) | failure counters | ends of a poll | outcomes of polls, reauthentication, unload | coordinators and tracker agree |
| Entry set-up (`__init__.py`, `acl_provisioning.py`, `config_flow.py`) | entry, stored password, session, ACL file of the router, forms | create, set up, deploy, re-login, poll, reauthenticate | the router goes away, restarts or changes its password between any two requests; partial deployment | the entry comes back; nobody is asked for a password without need; new permissions are in force |
| Topology panel (`topology_panel.py`) | reference count, stage flags, access map, view flag | set-up, teardown, option change | stages fail one by one, several entries at once | count = entries; only loaded entries have a say; view and sidebar follow |
| Device trackers (`device_tracker.py`) | MAC claims over all entries, entities, entity registry | claim, release, presence | two routers see the same client, one fails or is unloaded | one entity per MAC, backed, handed over; presence over all routers |
| Router log (`log_parser.py`, `coordinator.py` 1318-1430) | cursor, read size, totals | ingest | logd restarts, missed lines, bursts | no line twice, losses counted |
| Client stability (`coordinator.py` 840-930, 1490-1600; `client_stability.py`) | turns of log and usteer, candidates, timers | poll | usteer yields to the log, fetches fail | usteer has its turn, nothing stale stays sticky |
| RAM pressure (`coordinator.py` 1700-1790) | `_mem_high_since`, `_mem_last_check`, issue | check | gaps, changes of the interval | raised after the hold time, exactly then |
| Channel plan (`fleet.py` 444-525, `channel_plan.py`) | streaks, issue | evaluate, unregister | polls of several routers interleave | the issue names the conflicts there are |
| Topology map (`topology_mesh.py`) | `_GATEWAY_MEMORY` | snapshot | conflicting evidence, WAN outages, stale data | LLDP wins, gateways are kept, a client is shown once |
| DHCP health, entities, diagnostics, web panel, scripts | presentation | | | |

Interactions: a coordinator calls the API object and, on each outcome of a poll,
the tracker; entities call the API object and ask the coordinator for a refresh;
the tracker, the channel monitor, the trackers of clients and the map look at all
coordinators; the set-up wires them and registers the callbacks that run when an
entry is unloaded.

## 2. Modules

A name in parentheses is the proof module of a component; section 4 says what it
proves. Three modules compose components that interact: `OutageReporting` and
`OutageTiming` drive `FleetOutage`, `RouterPoll` drives `Fetchers`. Two implement an
abstract specification: `OutageReporting` that of `OutageView`, `LogIngest` that of
`LogStream`. The others meet only through the values they exchange;
an action of a component has the neighbour's possible answers as its inputs.

**RpcdSession** (`RpcdSession_proofs`). One action per stretch of
code between two awaits. `call[p]` is the program counter of a task: the request
it awaits (`login`, `destroy`, `call`, `retry`), the token inside the payload
(`sent`), the session it will destroy (`replaced`) and the answer. The router
answers in actions of its own, may lose requests and replies, expires sessions
and may restart. `StartCall` is `_call` up to its first await (closing, gate,
proactive refresh, ACL cache), `Relogin`/`DestroyReturns` are `login`,
`CallDenied`/`RetryDenied` the re-login and retry, `Close`/`CloseReturns`
`async_close`. Time is two Booleans (`fresh`, `backoff`) that the environment
clears. Session identifiers nobody refers to are reused, which keeps the state
finite without a bound on logins.

**SshConnection** (`Client_proofs`). `cmd[t]` is where a command waits: for the
lock, the connect, its output, a dropped connection (`reconnect`), its second
attempt (`again`), the release after a time limit. `Leave` is the `finally` of
`_asyncssh_exec_once`, `Release` is `_asyncssh_request_release`. `PollEnds` is the
release in `_async_update_data`. The server may close connections at any time.

**WifiSwitch** (`Client_proofs`). One action per answered request of
`set_wifi_state`; answers are the exception classes the code tells apart. The
router keeps what the session staged and what is committed; a commit, apply or
revert acts on all that is staged, whoever staged it. A request without an answer
may have been executed. `Relogin` ends the session and with it what is staged.

**Fetchers** has one operator per `get_...` method: from what the API object
remembers and the answers to its requests to a value, an error, whether SSH was
used, and the new memory. A request has the eight endings that the `except`
clauses tell apart; the payload is abstracted to "there is one" or "there is
none". **RouterPoll** (`Polls_proofs`) is the poll around them. A behaviour picks one `field` and
polls it through set-ups, failures of other fields, ACL refusals, the ends of
retry intervals and Wi-Fi changes; a request takes place between `PollBegins`,
where the memory is read, and `PollEnds`, where it is stored, so that a switch
command may come between the two (`changed`). One field at a time suffices, since a fetcher
reads and writes its own memory only; what fields share (`ssh`, `throttled`, the
first poll, `blocked`) is in every behaviour.

**PollSchedule** (`Polls_proofs`) is the timer handle of one coordinator
with the stagger delay, polls that overlap, and the update check. `poll[s]` is the
package result a poll has taken at its start.

**FleetOutage** (`FleetOutage_proofs`). One action per method of
`FleetOutageTracker`; the timer is one action that may come at any time while it
runs. `outage[r]` is `up` (no entry in `_down`), `pending` or `reported`.

**OutageReporting** (`Outages_proofs`) composes coordinators with the tracker
(`INSTANCE FleetOutage`). A poll is an action named by its outcome, i.e. by the
exception handler of `_async_poll` that runs. **OutageView** is the abstract
specification of what a user is told. It knows who is loaded, who is down by the
count of its own coordinator, and the issues shown; the tracker's list of outages,
its timer, its memory of the fleet outage and the types of errors are no part of it.
It says that a failed poll shows nothing at once, that the fleet issue appears only
when at least two routers are loaded and all of them are down, that it goes with the
first answer, and that an evaluation otherwise adds an issue for each router that is
down and for no other. It leaves open when the issue of a single router goes, because
of `FleetOutage_stale`. `ToldAsPromised` (`View!Spec`) is the refinement; the mapping
takes `down` from the counters of the coordinators, so that it breaks when
coordinators and tracker disagree.

**OutageTiming** (`Outages_proofs`) gives the same tracker a clock: polls come at
their intervals and offsets, the third failure reports, the timer fires after one
slowest interval and the settle time.

**EntrySetup** (`Entries_proofs`). One entry from the form that creates it through set-up, polls and
reauthentication. `step` is where the set-up waits. `ensure_acl` makes up to four
calls; it is one step, with an answer for each call (`AclAnswers`), since nothing
else of the integration touches the router's file meanwhile. The ACL file and what
rpcd has loaded of it are kept apart (`file`, `granted`): a deployment may write
the one and not restart for the other.

**TopologyPanel** (`TopologyPanel_proofs`). The panel all config
entries share. A lock serialises set-up, option change and teardown. A set-up is
`BeginSetup` (count, access map, re-armed view) and `EndSetup` (the registrations,
any of which may raise, and the roll-back), since static paths are registered with
an await; meanwhile other entries go on and wait for the lock. `routes` counts what
aiohttp was asked to bind, `panel` is what the sidebar shows. Home Assistant is
taken to report an entry that is being unloaded as not loaded
(`UNLOAD_IN_PROGRESS`). `SetupLate` is the set-up an options flow starts for a loaded entry
without one.

**DeviceTracker** (`Fleet_proofs`). A poll and the listeners it notifies are one action, since
they run without an await. An unload has three: the platforms leave, the panel
and the API object are closed while polls still come, the `on_unload` callbacks
run. A platform may refuse to unload. Which trackers the user has disabled is
fixed through a behaviour. `Ghost` marks an entity that was added
after its platform had been unloaded.

**ChannelPlan**. One action per poll of a router, with data, without radio data
or failing. Each router has one 2.4 GHz radio of 20 MHz that is no backhaul;
`Findings` has what `analyze` finds of such radios, all of it conflicts: two on one
channel, two that overlap, and a single one off channels 1, 6 and 11.

**LogIngest** (`Polls_proofs`, as the next two) reads the ring of a router that
writes, overwrites and reboots; **LogStream** is the abstract specification: lines are handed on at most once and
in order. **ClientStability** counts polls; **MemoryWatch** has a clock.

**MeshRoles** (`Fleet_proofs`, as the next two): gateway roles over the snapshots of a session,
with the memory that survives between them. **MeshEdges**: a behaviour collects
contradictory reports of the routers about each other, then computes one map with
all methods of detection in their order. **MeshClients**: one client that several
routers report, some of them offline.

## 3. Runs

A run of several parts (`MCClient`, `MCOutages`, `MCEntries`, `MCPolls`, `MCFleet`)
is a sum: the variable `part` says which one runs in a behaviour, the others stay
at an initial state. The parts share a run and no variable; each property is about
one part and holds of the others without meaning. What the parts have to do
with each other is in the composing modules above, not in these runs. The
bounds are constants of the MC modules and have their values in the cfgs (those of
`ChannelPlan` apart), so that the proofs, which extend the MC modules, are about all
values.

| Run | Parts and bounds | What it shows |
|---|---|---|
| `RpcdSession_single` | 1 task and the unload, 3 ids, 2 methods (one granted), threshold 2, restarts but not within a login and its call | types, no orphaned session, only ACL refusals cached, every call ends |
| `Client` | rpcd session: 2 tasks, 4 ids, threshold 1, restarts at any time; SSH: 3 tasks, 4 connections; Wi-Fi: 2 commands, 2 sections | no session destroyed in use, the failure counter bounded by the calls under way, one exact SSH connection, no release under a command, a True of a Wi-Fi command means committed |
| `Outages` | tracker: 3 routers; coordinators: 3 entries, thresholds 2; timing: 3 routers, intervals 4 and 5, settle 3, poll 1, 3 failures | nobody forgotten: shown, or a classification ahead; agreement, the refinement of `OutageView`, liveness; one LAN fault, one issue |
| `Entries` | panel: 3 entries; set-up: 2 passwords; channels: 3 entries, channels 1, 3, 6, 2 events | count, audience, routes and view of the panel; recovery, no needless reauthentication, permissions in force; the channel issue settles |
| `Polls` | schedule: 2 polls at a time, 2 checks; fetch: all 23 fields, board refresh every 2 polls; log: ring of 3, 5 lines, 2 boots, reads of 1 to 3; stability: 12 polls, intervals 2 and 4, hold 3; memory: 5 ticks, hold 2, intervals 1 and 2 | polling goes on, no ACL refusal fails the set-up, the update result stays, every field and the interval recover, log lines once and accounted for, turns and hold times |
| `Fleet` | roles: 3 routers, 6 kinds of WAN; edges: 3 routers, gateways none, one or two, 3 reports; clients: 3 routers, signals 0 to 2; trackers: 2 entries, 1 client, threshold 2 | the map obeys its evidence, gateways survive WAN outages, clients shown once and tracked, presence settles |
| `RpcdSession_block`, `SshConnection_key`, `WifiSwitch_blocked`, `FleetOutage_stale`, `RouterPoll_repair`, `ChannelPlan_gap` | 2 tasks, 3 routers or 1 field each | disagreements, section 5 |

Why the bounds are enough. Two tasks show every race on a shared variable, since
each race is between a read of one task and a write of another; the third SSH
task keeps the counter above zero while two others come and go. Four identifiers
let every task hold an old and a new session. Three routers or entries are two
that interact and one that joins, leaves or stays. Thresholds of 1 and 2 instead of
3 shorten the way to the threshold; the code compares only with the threshold. In
`OutageTiming` the numbers keep the proportions of the code: intervals whose
difference the settle time covers; for what happens otherwise see section 5. Three
reports are what it takes for two methods to contradict each other and a third to
anchor one of them; a ring of three is overwritten by five lines. A second boot
shows everything a third one could, since the cursor remembers one line. The
events of `ChannelPlan` are bounded because its properties are about what follows
the last one. The core count, LLDP and the other intervals of `Fetchers` end
nondeterministically.

Deadlock is not checked where the system may really stop: the API object after
`async_close`, the tracker when no router is loaded, and parts whose clock or
history ends at a bound. Every cfg with `CHECK_DEADLOCK FALSE` contains one of these.

Symmetry is used in `Client` for the four identifiers and in `WifiSwitch_blocked`
for the two commands, where the models treat them alike; neither run has a
liveness property (`ReleaseSparesCommands` is an action property).

Fairness. `RpcdSession`: asyncio resumes an answered task, and the total timeout of
the HTTP session ends every request, so weak fairness of each task and of each
answer. Outages: `async_call_later` fires, so weak fairness of the evaluation, and
a loaded entry is polled again as long as polls are scheduled. `EntrySetup`: Home
Assistant retries a set-up that is not ready and goes on polling; the user presses
the button of a form that asks for it and in the end types the router's password
(strong fairness of `Confirm`). `PollSchedule`: timers and delays end, polls end
within the timeouts of the API object; for `ResultStays` alone the router answers
a poll again and again. `RouterPoll`: polls and set-ups go on, and retry intervals,
which are longer than a poll, end between polls. `ChannelPlan`, `DeviceTracker`:
every loaded router is polled again. No fairness is assumed of the routers, and
none of the network.

## 4. Proofs

Every safety invariant and every action property that a passing run checks, and both
refinements, are proved for every value of the constants that satisfies the named
assumptions; liveness is not. The theorems are about the
specification of each part alone (`Ssh!Spec`, `Log!Spec` and so on), without the
bounds of its run, except where the bound is a constant of the part. The
assumptions say that special values differ from ordinary ones, that sets which are
counted are finite, and that times and thresholds are numbers of the right sign;
what goes beyond that is said below. TLC evaluates all of them in the runs.

`RpcdSession_proofs`, for any finite set of tasks and any sessions, methods and
grants, from `SessionAssumptions`:

- `TypeCorrect`: the type invariant is inductive.
- `CleanUpIsSafe`: `[]DestroyTargetsReplaced`, for any number of concurrent logins.
  The property is not inductive: a login reply could carry the identifier another
  task is about to destroy. The strengthening says that an identifier on its way
  to a client is live and differs from the token and from everything a task
  remembers (`AnswersAreFresh`).
- `FailuresAreBounded`: `[]GateBoundsFailures`. Inductive as it stands, since it adds
  the calls under way to the counter; `BusyCount` says what a step does to their number.
- `SingleCallerLeavesNoOrphan`: with one task, `[]NoOrphan`. The invariant accounts
  for every live session: it is the token, on its way, about to be destroyed, or
  lost with a message.
- `SingleCallerBlocksGenuinely`: with one task and no restart of rpcd between a login
  and the repeated call, `[]BlockedIsGenuine`: the session a retry carries is alive.

The last two say that concurrency is the only cause of what the two-task runs
find.

`Client_proofs`, for any finite set of SSH commands and any Wi-Fi commands:

- `ConnectionStaysShared` (`[]ConnectionIsShared`). That a new connection replaces
  no open one needs the lock: who connects holds it, and there is no connection
  meanwhile (`ConnectsUnderLock`). That an idle router holds no session needs that a
  deferred release always has a command left to carry it out (`DeferredToSomebody`)
  and that, if no command began since the last release, the release was carried out
  or is deferred (`ReleaseHeeded`). The counter is a cardinality; `Entered` and `Left` are its
  steps.
- `ReleaseNeverCutsOff` (`ReleaseSparesCommands`), an action property, from the same
  invariant.
- `SwitchesAreSound` (`[]CommandsAreSound`). `Books` follows a command through its
  requests: until its commit is answered it owns a section, or its change has landed
  or is lost; the lemmas `Settles`, `Stages` and `Goes` say what the router and the
  program counter do to that.

`FleetOutage_proofs`, for any set of routers: `TypeCorrect`, `NobodyForgotten`
(`[]NobodyIsForgotten`) and `TimerIsCancelled` (`[]TimerOnlyWhileDown`), all from one
inductive invariant, the conjunction of these three, one lemma per operation.

`Outages_proofs`, for any set of entries and any thresholds:

- `CoordinatorsImplementView` (`ToldAsPromised`): the refinement of `OutageView`, step
  by step, from the invariant `ReportingInv`. The tracker decides by its own list, the
  view by the counters: that a poll changes what is told exactly when the tracker
  takes note of it needs that the tracker holds the routers down whose counter is at
  the threshold (`DownIffFailing`); that an evaluation leaves every router that is
  down with an issue, and adds no other, needs that what the tracker remembers to have
  raised is in the registry (`RaisedIsVisible`).
- `LanIssueStandsForAll` (`LanIssueIsRight`), two action properties, read off the steps
  of the view.
- `CoordinatorsStayInStep` (`[]CoordinatorsAgree`), of the run's own specification,
  since the invariant speaks of two parts and their types.
- `OneFaultOneIssue` (`[]OneCauseOneIssue`), for at least two routers (a single one
  raises its own issue, as it should), any offsets and threshold, intervals that
  are `Comparable` as in section 5, and `PollTime < Settle`, which the code satisfies with polls of seconds against 30 s.
  The invariant speaks of the time a router that fails has left until its report
  (`Remaining`): before the first report any two of them differ by less than the
  window, and once the timer runs everybody's is less than what is left of it; after
  the fleet issue the same holds of the next polls (`AnswersInTime`). Only the
  remaining failures times the cycle are multiplied; `Products` and `Numbers` keep
  that away from the leaves.

`Entries_proofs`: `ReauthStaysDue` (`[]ReauthIsDue`), for any non-empty set of
passwords. The invariant adds that the checklist of a new entry is open only while there is no
entry, and that an entry that is absent, waits for a retry or is being set up has no
reauthentication open.

`TopologyPanel_proofs`, for any finite set of entries, from `PanelAssumptions`: all
invariants of the module (`PanelTypeCorrect`, `CountNeverDrifts`,
`AccessIsOfLoadedEntries`, `PanelIsForItsAudience`, `NoStageIsBoundTwice`,
`ViewIsServedOrGone`). The inductive invariant adds what holds while a set-up is
under way: it is the first one of its entry, so what a failure takes back is all
there is of it (the branch for an entry that was counted before, lines 293-294, is
never taken), and the stages it will bind are those not bound yet.

`Polls_proofs`:

- `ScheduleTypes` and `PollingNeverStops` (`[]PollingGoesOn`), for any number of polls
  at a time and of checks: the type invariant says that the handle is never that of
  a timer that has fired, which is what the assignment before the delay is there for.
- `UsteerComesToItsTurn` (`[]UsteerHasItsTurn`), for any interval of at least two polls
  (the code has two). At a calm poll usteer is passed over for the log
  alone, and never twice in a row (`TurnsAreTaken`).
- `StickyOnlyAfterHold` (`StickyIsHeld`), for any hold time: the timer of a candidate
  is the time of a fetch that found it, and all later ones did (`HeldSinceFetch`).
- `RaisedExactlyAfterHold` (`RaisedAfterHold`), for any hold time and poll intervals.
  The coordinator remembers one time, the property speaks of the whole history: the
  invariant says that the time is the beginning of the earliest run of high readings
  without a gap that reaches to the last reading (`EarliestRun`), and
  `HeldSinceIsEarliest` that a reading keeps it so.
- `LinesAlwaysAddUp` (`[]LinesAddUp`) and `LogImplementsStream` (`LogIsHandedOn`, the
  refinement of `LogStream` and that a reboot makes no new line look old), for any
  ring, read sizes, number of lines and reboots. The invariant: the cursor is at the
  line handed on last, and the router has written it. `FreshLines` says what
  `LogCursor` takes of an answer; the rest is arithmetic on the identifiers.
- `SetupNeverFailsByAcl` (`[]SetupSurvivesAcl`), of every field. The fetchers are
  functions of their memory and the answers, so the induction is one case; the work is
  `ErrorsAreMet`, that an error a fetcher lets through was an answer to one of its
  requests, and that the poll forgives the ones the ACL causes.

`Fleet_proofs`:

- `MemoryHolds`, for any set of routers: the memory of the module is the set of
  gateways of the last snapshot with a WAN; from it the action property
  `GatewaysAreKept` (`OutageKeepsGateways`).
- `TrackersStayBacked` (`[]TrackersAreBacked`), for any entries and clients. `Owned` is
  the strengthening: a set-up tracks exactly what it has claimed, the registry follows
  the claim, and only the owner of a claim has the entity.
- `LldpAlwaysWins`, `MapLeadsAway`, `SwitchesSpareChains` (no cable between two members of
  a switch), for any finite set of routers
  and any reports. The map is computed in one step, so the invariant is that it is the
  one the methods compute (`EdgesInv`), and the proofs are about the methods: each
  lemma (`LldpEdgesAre`, `LanEdgesAre`, `ClientEdgesAre`) says what a method never
  does. A switch keeps clear of cables since every pair that sees each other by cable
  has an edge by then (`CableHasEdge`), and the lower end of an edge is no member.
- `ClientsAreShownOnce` (`ShownOnce`), for any number of routers and signals: the
  winner over the first n routers is the best of them (`BestIs`).

The depths of the map and the winner among the observations are recursive functions
on numbers. What they are is proved from the existence of such functions
(`IterationExists`), and that from the least element of a set of numbers (`Least`):
a number for which the claim fails would have a least one, which is not 0, so that the
claim holds just before it.

Only model-checked:

- Liveness, which the proof system does not do: `CallsEnd`, `OutageIsShown`,
  `EntryRecovers`, `SetupGrants`, `IssueSettles`, `ResultStays`, `PollRecovers`,
  `SeenIsTracked`, `PresenceSettles`. `PollRecovers` also has the type invariant of
  `RouterPoll`, `IssueSettles` is all that the runs say of `ChannelPlan`.
- What the runs of section 5 find: a counterexample is no theorem.

## 5. What the models found

Shown by a run:

- `RpcdSession_block`: a retry may carry a session that another task's login has
  destroyed; its refusal is cached as an ACL restriction (`api.py:5149`).
- `SshConnection_key`: a command that took the password while another one switched
  to the key is refused without having tried the key (`api.py:3071`).
- `WifiSwitch_blocked`: an ACL refusal of `uci/commit` reaches `set_wifi_state` as
  `OpenWrtMethodNotFoundError` with a text that has neither "access denied" nor
  "permission"; the command raises without the fallbacks (`api.py:2866`).
- `FleetOutage_stale`: an issue raised for one router while the fleet issue was shown
  stays after the router answered (`fleet.py:152`).
- `RouterPoll_repair`: what the ACL refused once is not asked again until a reload,
  so a repaired ACL does not end the SSH fallback and its interval
  (`coordinator.py:1181`).
- `ChannelPlan_gap`: one partial poll of a router clears the channel issue as soon
  as another router is polled (`fleet.py:466`).

Seen while modelling, without a run. Sessions, switches and outages:

- Two logins that overlap remember the same old token; the new session that is stored
  first is overwritten and stays until its timeout (`api.py:1383`). `NoOrphan` with
  the constants of `RpcdSession_block` shows it; with one task it is proved.
- A login, or an SSH connect, under way during `async_close` stores a session or a
  connection nobody ends (`api.py:1338`, 2973). A first refresh that fails after the
  login drops the API object without `async_close` (`__init__.py:366`).
- A call that passed the gate may log in during the backoff (`api.py:5141`, comment at
  5103); `GateBoundsFailures` bounds how many.
- A session renewed between `uci/set` and `uci/commit` drops the staged change, and the
  commit succeeds without effect; likewise after the revert of another command.
  `CommandsAreSound` names both as exceptions. A commit that fails leaves its
  change staged for the next commit of any switch.
- A router whose error becomes an authentication error inside a fleet outage stays
  bundled (`fleet.py:143`, module comment line 14).
- A router registered during a fleet outage answers and the issue stays until one of
  the old routers answers (`fleet.py:114`).
- With intervals of 60 s and 300 s (SSH fallback) a LAN fault raises single issues: a
  router reports after three of its own intervals, the window is one interval of the
  slowest plus 30 s (`fleet.py:192`). `OneCauseOneIssue` holds for intervals with
  `(Threshold - 1) * (longest - shortest) < settle`.
- An entry whose panel set-up failed re-arms the view, and its unload skips the
  teardown: the view answers although all entries are unloaded
  (`topology_panel.py:252`, 352; docstring line 122 says 410).
  `ViewFollowsEntries` names the exception.

Fetchers, polls and set-up:

- Docstrings at `api.py` 1723 and 1908 promise SSH for what the ACL refuses; a
  refusal is raised as `OpenWrtMethodNotFoundError`, which these methods re-raise.
  `_hostapd_acl_blocked` is never set, since the text of a refusal does not contain
  "access denied" (`api.py:2604`), so that the SSH path for clients (3381-3535,
  `src/README.md` line 214) is not reached.
- A discovery that a switch command overtakes stores its list after the
  invalidation (`api.py:2644` against the docstring at 2788-2794); the next
  rediscovery repairs it, which is what `PollRecovers` checks.
- Remembered for good: that no Wi-Fi was found (`api.py` 2207), no DDNS section, also
  after an error (5681), LLDP over ubus unavailable (4462), an empty `luci-rpc`
  answer (3873), no services at the first poll (`coordinator.py` 1898-1905). `GaveUp`
  names what affects a field.
- An ACL file that was written while rpcd could not be restarted counts as current
  from then on; `SetupGrants` names the exception.
- Polls may overlap: the delayed first poll starts although a requested one is under
  way. If polls fail in turn, usteer may never come to its turn;
  `UsteerHasItsTurn` is about polls that succeed in a row.
- A reboot after which the log has already passed the old identifier and the
  remembered line is out of range is taken for a gap, and the count of missed lines
  is wrong (`log_parser.py:309`); `LinesAddUp` is about one boot.
- `dhcp_missing` may be false under the SSH fallback: a client counts as settled
  after 180 s, the lease table may be 300 s old (`dhcp_health.py` 137-164).

Map and trackers:

- A tracker the user has disabled takes the claim of its MAC as soon as a poll lists
  its client: `_add_new_clients` does not ask (`device_tracker.py:189`), only the
  restoration from the registry does. The comment at 149-150 says it must not, since no
  entity is added and no other router can track the client. The model has it so;
  `TrackersAreBacked` and `SeenIsTracked` name disabled trackers as the exception.
- A poll between the unload of the platforms and the `on_unload` callbacks may add
  an entity of a coordinator that is about to stop (`Ghost`).
- A set of routers that Wi-Fi edges connect only among themselves gets no fallback
  edge (`topology_mesh.py:1057`), and a router may have two uplinks when the gateway's
  trunk and another router's client list disagree (955-985): comments there say
  otherwise. `has_client` edges to the MAC of a known router keep no node
  (1730-1741).

## 6. Not modelled

Payloads: the parsers of the router's answers, of log lines, and the limits on
events; port views, diagnostics and entities of the map; the options form; the
WAN rate; the migration of old entries and the clean-up of the registries; the
DHCP classification; entities, web panel, vendor tables and scripts. These are pure
functions of one input or presentation, without a state that survives a step.
Contents of log messages and issue texts.

Abstractions to know of. In `WifiSwitch` a request that the router executes after
the client gave up is left out; in `SshConnection` what a command does on the
router. `RouterPoll` has one field at a time. `ChannelPlan` has 20 MHz radios in
2.4 GHz. `MeshEdges` takes all routers to be in one subnet, and the port name that
only the neighbour reports to be no interface name. `ClientStability` counts time in
polls of a fixed interval.

## 7. Plan

Done: the core (`RpcdSession`, `FleetOutage`, `OutageReporting`, `OutageTiming`,
`SshConnection`, `WifiSwitch`, `TopologyPanel`), the polls, the set-up, the monitors
and the map, with the proofs of section 4. Next, in this order:

1. Proofs of what the liveness properties rest on: the type invariants of `RouterPoll`
   and `ChannelPlan`, that a set-up with the current ACL in force remembers no refusal,
   that what a fetcher remembers for good is what `GaveUp` names.
2. `EntrySetup` composed with `TopologyPanel` and `DeviceTracker` for several entries.
3. Event limits and windows of the log, the WAN rate, port views of the map.
