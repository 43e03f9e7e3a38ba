------------------------------- MODULE RouterPoll ------------------------------
(***************************************************************************)
(* The poll of one router (_async_poll of the coordinator) over all set-ups  *)
(* of its entry: which failures of a fetcher fail the poll, which values are *)
(* kept from earlier polls, and the poll interval.                           *)
(*                                                                          *)
(* One field of the poll's data, chosen at the start, is modelled with its   *)
(* requests, its memory in the API object and its value; the other fields    *)
(* appear as polls that fail before or after it.  A router that is healthy   *)
(* serves every request it is asked.                                         *)
(***************************************************************************)
EXTENDS Fetchers, Naturals

CONSTANT RefreshCycles   \* BOARD_REFRESH_CYCLES

PollAssumptions == RefreshCycles \in Nat \ {0, 1}

VARIABLES
  field,      \* the field of this behaviour
  healthy,    \* environment: the router serves every request
  stage,      \* "idle", "polling", or "retry": the set-up failed
  count,      \* _board_poll_count: 1 at the first poll, later modulo RefreshCycles
  mem,        \* what the API object remembers for the field
  read,       \* the memory as the fetcher under way has read it
  changed,    \* the Wi-Fi changed since it did
  value,      \* the field in coordinator.data ("none": no data yet)
  kept,       \* a last known interface list, or VLAN map, is stored
  services,   \* FEATURE_HAS_SERVICES, of the first poll
  ssh,        \* _ssh_fallback_used
  throttled,  \* _throttled
  interval,   \* update_interval
  blocked,    \* _acl_blocked: requests that are answered "blocked" without a call
  served      \* history: how the router met the requests of a failed first poll

vars == <<field, healthy, stage, count, mem, read, changed, value, kept, services, ssh,
          throttled, interval, blocked, served>>

\* Fields whose failure fails the poll; the first poll forgives OptionalFirst
\* what rpcd does not offer.
Core == {"info"} \cup {"wan", "leases", "clients", "ssid", "status"}
OptionalFirst == Core \ {"info"}

\* Fields that keep their last value when they cannot be read.
KeepsValue == {"wifi", "services", "ddns"}
KeepsBaseline == {"interfaces", "vlans"}

Optional == {"ap", "sta", "disk", "tmpfs", "devices", "ports", "fdb", "arp",
             "trunk", "lldp", "connections", "cores"}

Fields == Core \cup KeepsValue \cup KeepsBaseline \cup Optional

-------------------------------------------------------------------------------
\* The requests of a field.  Where a fetcher treats errors alike, Coarse has one of
\* them.
Coarse == {"ok", "empty", "blocked", "response", "timeout"}
Found == {"ok", "empty"}

Answers(f) ==
  CASE f = "info" -> [board: Ubus]
    [] f = "status" -> [info: Ubus, shell: Shell]
    [] f = "cores" -> [cpuinfo: Ubus]
    [] f = "disk" -> [root: Found, shell: Shell]
    [] f = "tmpfs" -> [tmp: Found, shell: Shell]
    [] f = "connections" -> [count: Ubus, table: Ubus]
    [] f = "services" -> [list: Ubus, rc: Ubus, flags: Coarse]
    [] f = "ddns" -> [file: Coarse, uci: Coarse]
    [] f = "wan" -> [dump: Ubus, device: {"ok", "blocked", "timeout", "connection"},
                     files: Coarse \cup {"connection"}, shell: Shell]
    [] f = "wifi" -> [wireless: Coarse, iwinfo: Coarse, uci: Coarse, shell: Shell]
    [] f = "ap" -> [known: Found, info: Coarse, source: {"ok", "uci", "ssh"}, uci: Coarse]
    [] f = "sta" -> [info: Coarse, device: Coarse, uci: Coarse]
    [] f = "clients" -> [devices: Coarse, probe: Coarse, radios: Found, reported: {"ok", "new"},
                         ssid: {"ok", "timeout"}, stations: {"ok", "blocked", "timeout"},
                         assoc: {"ok", "blocked", "timeout"}]
    [] f = "ssid" -> [status: Coarse, info: Coarse, luci: Ubus]
    [] f = "leases" -> [file: Ubus, luci: Ubus]
    [] f = "devices" -> [status: Ubus]
    [] f = "interfaces" -> [dump: Ubus, shell: Shell]
    [] f = "ports" -> [devices: Found]
    [] f = "vlans" -> [uci: Ubus]
    [] f = "fdb" -> [ports: Coarse, numbers: {"ok", "new"}, forward: Ubus, shell: Shell]
    [] f = "arp" -> [arp: Ubus, cut: {"ok", "cut"}, hints: Ubus, shell: Shell]
    [] f = "trunk" -> [fdb: Found, arp: Found]
    [] f = "lldp" -> [lldpd: Ubus, shell: Shell]

Fetch(f, m, a) ==
  CASE f = "info" -> GetRouterInfo(m, a)
    [] f = "status" -> GetRouterStatus(m, a)
    [] f = "cores" -> GetCpuCores(m, a)
    [] f = "disk" -> GetDiskSpace(m, a)
    [] f = "tmpfs" -> GetTmpfsStats(m, a)
    [] f = "connections" -> GetActiveConnections(m, a)
    [] f = "services" -> GetServices(m, a)
    [] f = "ddns" -> GetDdnsStatus(m, a)
    [] f = "wan" -> GetWanStatus(m, a)
    [] f = "wifi" -> GetWifiStatus(m, a)
    [] f = "ap" -> GetApInterfaceDetails(m, a)
    [] f = "sta" -> GetStaInterfaceDetails(m, a)
    [] f = "clients" -> GetConnectedClients(m, a)
    [] f = "ssid" -> GetSsid(m, a)
    [] f = "leases" -> GetDhcpLeases(m, a)
    [] f = "devices" -> GetDeviceStatus(m, a)
    [] f = "interfaces" -> GetNetworkInterfaces(m, a)
    [] f = "ports" -> GetPortStats(m, a)
    [] f = "vlans" -> GetPortVlanMap(m, a)
    [] f = "fdb" -> GetBridgeFdb(m, a)
    [] f = "arp" -> GetArpTable(m, a)
    [] f = "trunk" -> GetTrunkPortMap(m, a)
    [] f = "lldp" -> GetLldpNeighbors(m, a)

\* The memory of a new API object.
NewMemory(f) ==
  IF f \in {"cores", "disk", "tmpfs", "services", "clients", "fdb"} THEN NoLookup
  ELSE IF f = "lldp" THEN NoLldp
  ELSE IF f \in {"wifi", "ddns", "ssid"} THEN "unset" ELSE Stateless

Timed == {"cores", "disk", "tmpfs", "services", "clients", "fdb", "lldp"}

\* How the router met the requests: all, all but what its ACL refuses, what it does
\* not have or SSH does not provide, or otherwise.
Served(a) ==
  LET got == {a[r] : r \in DOMAIN a \ blocked} \ {"uci", "ssh", "new", "cut"} IN
  IF got \subseteq {"ok"} THEN "all"
  ELSE IF got \subseteq Answered \cup NotFound \cup {"fail"} THEN "permitted" ELSE "other"

-------------------------------------------------------------------------------
\* A new API object and coordinator, for the first refresh of a set-up.
Fresh(f) ==
  /\ stage' = "idle" /\ count' = 0
  /\ mem' = NewMemory(f) /\ read' = NewMemory(f) /\ changed' = FALSE
  /\ value' = "none" /\ kept' = FALSE /\ services' = FALSE
  /\ ssh' = FALSE /\ throttled' = FALSE /\ interval' = "scan"
  /\ blocked' = {} /\ served' = "all"

Init ==
  /\ field \in Fields
  /\ healthy \in BOOLEAN
  /\ stage = "idle" /\ count = 0
  /\ mem = NewMemory(field) /\ read = NewMemory(field) /\ changed = FALSE
  /\ value = "none" /\ kept = FALSE /\ services = FALSE
  /\ ssh = FALSE /\ throttled = FALSE /\ interval = "scan"
  /\ blocked = {} /\ served = "all"

\* A failed first refresh is ConfigEntryNotReady: Home Assistant sets up again.
SetupRetried == stage = "retry" /\ Fresh(field) /\ UNCHANGED <<field, healthy>>

PollBegins ==
  /\ stage = "idle"
  /\ stage' = "polling"
  /\ count' = IF count = 2 * RefreshCycles THEN RefreshCycles + 1 ELSE count + 1
  /\ ssh' = FALSE
  /\ read' = mem /\ changed' = FALSE
  /\ UNCHANGED <<field, healthy, mem, value, kept, services, throttled, interval,
                 blocked, served>>

First == count = 1
HasData == value # "none"

\* Whether this poll asks for the field at all: board data every RefreshCycles
\* polls, services if the first poll saw any, DDNS not at the first poll and only
\* with WAN.
Asked(connected) ==
  CASE field = "info" -> First \/ count % RefreshCycles = 0
    [] field = "services" -> First \/ services
    [] field = "ddns" -> ~First /\ connected
    [] OTHER -> TRUE

\* What is shown if the field was not asked for.
NotAsked == IF field = "services" \/ ~HasData THEN "empty" ELSE value

\* Fault: the first poll forgives no more than a later one.
FailsAtFirst(e) == e # "none" /\ field \in Core

\* Whether an error of the field fails the poll.
Fails(e) ==
  /\ e # "none" /\ field \in Core
  /\ ~(First /\ field \in OptionalFirst /\ e \in NotFound)

\* What is shown after an error that does not fail the poll.
AfterError ==
  IF field \in KeepsValue /\ HasData /\ ~First THEN value
  ELSE IF field \in KeepsBaseline /\ kept THEN "kept" ELSE "empty"

\* A Wi-Fi change may have invalidated the list of AP interfaces after the fetcher read
\* it.  A list it looked up, before the change or after, is stored all the same.
Stored(a, r) ==
  IF field # "clients" \/ ~changed THEN {r.mem}
  ELSE IF UsesCachedList(read, a) \/ DiscoverInterfaces(read, a).error # "none" THEN {mem}
  ELSE {r.mem, [r.mem EXCEPT !.known = IF @ = "fresh" THEN "stale" ELSE @]}

\* What the ACL refused once is not asked again; a request the fetcher did not come
\* to counts as well.  The core count forgets it with every retry.
Blocked(a) ==
  IF field = "cores" THEN {} ELSE blocked \cup {r \in DOMAIN a : a[r] = "blocked"}

\* The load of the router, which the status reports, throttles the polls, with
\* hysteresis.
Loads == IF field = "status" THEN {"low", "middle", "high"} ELSE {"low"}

Throttle(load) ==
  throttled' = (load = "high" \/ (throttled /\ load # "low"))

\* _interval_for_state
IntervalForState ==
  interval' = IF ssh' THEN "ssh" ELSE IF throttled' THEN "throttled" ELSE "scan"

PollFails(how) ==
  /\ stage' = IF First THEN "retry" ELSE "idle"
  /\ served' = IF First THEN how ELSE served
  /\ UNCHANGED <<value, throttled, interval>>

PollSucceeds(shown, load) ==
  /\ stage' = "idle"
  /\ value' = shown
  /\ Throttle(load)
  /\ IntervalForState

\* What the request of the field leaves in the API object.
Remember(a, r) ==
  /\ mem' \in Stored(a, r)
  /\ ssh' = (ssh \/ r.ssh)
  /\ blocked' = Blocked(a)
  /\ kept' = (kept \/ (field \in KeepsBaseline /\ r.error = "none" /\ r.value # "empty"))

Met(a) ==
  /\ \A r \in blocked : a[r] = "blocked"
  /\ healthy => Served(a) = "all"

\* The poll asks for the field; nothing else fails.
PollEnds(a, load) ==
  LET r == Fetch(field, read, a) IN
  /\ stage = "polling" /\ Asked(TRUE)
  /\ Met(a)
  /\ load # "low" => r.value = "fresh"
  /\ Remember(a, r)
  /\ services' = IF field = "services" /\ First
                 THEN r.error = "none" /\ r.value # "empty" ELSE services
  /\ IF Fails(r.error) THEN PollFails(Served(a))
     ELSE /\ PollSucceeds(IF r.error = "none" THEN r.value ELSE AfterError, load)
          /\ UNCHANGED served
  /\ UNCHANGED <<field, healthy, count, read, changed>>

\* The poll goes without the field.
PollSkips(connected) ==
  /\ stage = "polling" /\ ~Asked(connected)
  /\ healthy => connected
  /\ UNCHANGED <<field, healthy, count, mem, read, changed, kept, services, ssh, blocked,
                 served>>
  /\ PollSucceeds(NotAsked, "low")

\* Another field fails the poll, before this one was asked for or after.
PollAborts(a) ==
  LET r == Fetch(field, read, a) IN
  /\ stage = "polling" /\ ~healthy
  /\ Met(a)
  /\ PollFails("other")
  /\ \/ UNCHANGED <<mem, ssh, blocked, kept>>
     \/ Asked(TRUE) /\ ~Fails(r.error) /\ Remember(a, r)
  /\ UNCHANGED <<field, healthy, count, read, changed, services>>

\* Retry and refresh intervals of the API object pass; a fetcher reads the clock
\* once, so that one which ends during a poll concerns the next.
IntervalEnds ==
  /\ field \in Timed /\ ~mem.due /\ stage # "polling"
  /\ mem' = [mem EXCEPT !.due = TRUE]
  /\ UNCHANGED <<field, healthy, stage, count, read, changed, value, kept, services, ssh,
                 throttled, interval, blocked, served>>

\* A switch or button changed the Wi-Fi: _invalidate_hostapd_cache.
WifiChanges ==
  /\ field = "clients"
  /\ mem' = NoLookup /\ changed' = (stage = "polling")
  /\ UNCHANGED <<field, healthy, stage, count, read, value, kept, services, ssh,
                 throttled, interval, blocked, served>>

RouterChanges ==
  /\ healthy' = ~healthy
  /\ UNCHANGED <<field, stage, count, mem, read, changed, value, kept, services, ssh,
                 throttled, interval, blocked, served>>

Poll ==
  \/ PollBegins
  \/ \E a \in Answers(field), load \in Loads : PollEnds(a, load)
  \/ \E connected \in BOOLEAN : PollSkips(connected)
  \/ \E a \in Answers(field) : PollAborts(a)

Next == SetupRetried \/ Poll \/ IntervalEnds \/ WifiChanges \/ RouterChanges

Spec == Init /\ [][Next]_vars

\* The coordinator polls on, Home Assistant sets up again, and intervals pass: they
\* are longer than a poll, so that they end between polls, again and again.
Fairness == WF_vars(SetupRetried) /\ WF_vars(Poll) /\ SF_vars(IntervalEnds)

LiveSpec == Spec /\ Fairness

-------------------------------------------------------------------------------
(* Properties                                                               *)

Values == {"none", "empty", "partial", "kept", "fresh"}

TypeOK ==
  /\ field \in Fields /\ healthy \in BOOLEAN
  /\ stage \in {"idle", "polling", "retry"} /\ count \in 0..2 * RefreshCycles
  /\ value \in Values
  /\ {changed, kept, services, ssh, throttled} \subseteq BOOLEAN
  /\ interval \in {"scan", "throttled", "ssh"} /\ served \in {"all", "permitted", "other"}
  /\ field = "wifi" => mem \in WifiMethods
  /\ field \in Timed => mem.known \in {"unset", "empty", "fresh", "stale"}

\* What the ACL refuses or the router lacks never keeps the entry from being set
\* up: a first poll fails only by another error (_first_poll_optional).
SetupSurvivesAcl == stage = "retry" => served = "other"

\* What the API object takes for permanent: that the router has no Wi-Fi, no DDNS
\* section, or, from the first poll, no services; and what the ACL refused.
GaveUp ==
  \/ field \in {"wifi", "ddns"} /\ mem = "none"
  \/ field = "services" /\ ~services
  \/ blocked # {}

\* However its fetchers, caches and retry intervals were left by earlier failures,
\* a router that serves every request from some time on, and whose Wi-Fi is left
\* alone, is in the end shown completely; also an interface list that a poll stored
\* over the invalidation of a switch command is replaced.
SourceRecovers ==
  (<>[]healthy /\ <>[][~WifiChanges]_vars) => <>[](value = "fresh" \/ GaveUp)

\* ... and leaves the slow interval of the SSH fallback, unless the ACL had refused
\* something.
IntervalRecovers == <>[]healthy => <>[](interval # "ssh" \/ blocked # {})

\* "a repaired ACL or a recovered CPU takes effect without a reload" (coordinator.py,
\* at the assignment of update_interval).
RepairTakesEffect == <>[]healthy => <>[](interval # "ssh")
================================================================================
