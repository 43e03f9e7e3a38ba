-------------------------------- MODULE Fetchers -------------------------------
(***************************************************************************)
(* What one poll asks of a router (api.py): for every fetcher the requests   *)
(* it makes, which of their failures it catches, what it then tries next     *)
(* (another ubus object, SSH), and what it remembers for the polls to come.  *)
(*                                                                          *)
(* A fetcher is an operator of its memory m and of the answers a to its      *)
(* requests; requests that are not reached are not looked at, and a request  *)
(* has one answer per poll.  The payload is abstracted to whether there is   *)
(* any.                                                                      *)
(***************************************************************************)

\* How _call ends.  "blocked" is a refusal by the ACL of rpcd: it is raised as
\* OpenWrtMethodNotFoundError, like "missing", and remembered in _acl_blocked.
\* "auth" is OpenWrtAuthError: the credentials are refused, or the backoff is active.
Ubus == {"ok", "empty", "blocked", "missing", "auth", "response", "timeout", "connection"}
NotFound == {"blocked", "missing"}
Refused == NotFound \cup {"response"}
Answered == {"ok", "empty"}

\* How an SSH command ends: output, none (or no credentials), no connection.
Shell == {"ok", "empty", "fail"}

\* What a fetcher returns: its value or its error, whether it set
\* _ssh_fallback_used, and its memory afterwards.
Give(v, m) == [value |-> v, error |-> "none", ssh |-> FALSE, mem |-> m]
Raise(e, m) == [value |-> "none", error |-> e, ssh |-> FALSE, mem |-> m]
Degraded(r) == [r EXCEPT !.ssh = TRUE]

\* The value of an answer that was accepted.
Read(x) == IF x = "ok" THEN "fresh" ELSE "empty"

Stateless == "-"

-------------------------------------------------------------------------------
(* System.                                                                  *)

GetRouterInfo(m, a) ==
  IF a.board \in NotFound THEN Give("empty", m)
  ELSE IF a.board \in Answered THEN Give(Read(a.board), m) ELSE Raise(a.board, m)

\* The script on the router; every failure of it is caught by the callers.
StatusViaSsh(m, a) == Degraded(Give(Read(a.shell), m))

GetRouterStatus(m, a) ==
  IF a.info \in Answered THEN Give(Read(a.info), m)
  ELSE IF a.info = "auth" THEN StatusViaSsh(m, a) ELSE Raise(a.info, m)

\* Memory of a value that is asked for again only after a retry interval.
NoLookup == [known |-> "unset", due |-> TRUE]
Looked(v) == [known |-> v, due |-> FALSE]

\* The core count is read once; failures are retried after an interval.
GetCpuCores(m, a) ==
  IF m.known = "fresh" THEN Give("fresh", m)
  ELSE IF ~m.due THEN Give("empty", m)
  ELSE LET v == Read(a.cpuinfo) IN Give(v, Looked(v))

\* df rows: from system/info when it has them, else over SSH, at most once per
\* interval; only a connection that failed is not remembered.
DfRowsViaSsh(m, a) ==
  IF m.known # "unset" /\ ~m.due THEN Give(m.known, m)
  ELSE IF a.shell = "fail" THEN Give("empty", m)
  ELSE LET v == Read(a.shell) IN Give(v, Looked(v))

GetDiskSpace(m, a) == IF a.root = "ok" THEN Give("fresh", m) ELSE DfRowsViaSsh(m, a)
GetTmpfsStats(m, a) == IF a.tmp = "ok" THEN Give("fresh", m) ELSE DfRowsViaSsh(m, a)

\* The entry count of conntrack, else the table itself.
GetActiveConnections(m, a) ==
  LET caught == Refused \cup {"timeout"} IN
  IF a.count = "ok" THEN Give("fresh", m)
  ELSE IF a.count \notin caught \cup {"empty"} THEN Raise(a.count, m)
  ELSE IF a.table \in Answered \cup caught THEN Give(Read(a.table), m)
  ELSE Raise(a.table, m)

\* procd, else rc/list; the boot flags of rc/list are kept for an interval, and
\* kept when they cannot be read.
GetServices(m, a) ==
  LET caught == Refused \cup {"auth"}
      flags == IF m.due /\ a.flags \in Answered THEN Looked(Read(a.flags))
               ELSE IF m.due THEN Looked(m.known) ELSE m IN
  IF a.list \in caught THEN
    IF a.rc \in Answered \cup caught THEN Give(Read(a.rc), m) ELSE Raise(a.rc, m)
  ELSE IF a.list \notin Answered THEN Raise(a.list, m)
  ELSE IF m.due /\ a.flags \in {"timeout", "connection"} THEN Raise(a.flags, m)
  ELSE Give(IF a.list = "ok" \/ flags.known = "fresh" THEN "fresh" ELSE "empty", flags)

\* Catches everything; a failure to find any section is remembered for good.
GetDdnsStatus(m, a) ==
  IF m = "none" THEN Give("empty", m)
  ELSE IF a.file = "ok" \/ a.uci = "ok" THEN Give("fresh", "some")
  ELSE IF a.uci = "empty" THEN Give("empty", "some")
  ELSE Give("empty", "none")

-------------------------------------------------------------------------------
(* WAN.                                                                     *)

\* Counters of the device: from netifd, else from the files in /sys; SSH only
\* when the ACL refuses both.  A lost connection is not caught.
ReadWanCounters(m, a) ==
  IF a.device = "ok" THEN Give("fresh", m)
  ELSE IF a.device = "connection" THEN Raise(a.device, m)
  ELSE IF a.files \in Answered THEN
    Give(IF a.files = "ok" THEN "fresh" ELSE "partial", m)
  ELSE IF a.files = "connection" THEN Raise(a.files, m)
  ELSE IF a.device = "blocked" /\ a.files = "blocked" /\ a.shell = "ok"
    THEN Give("fresh", m) ELSE Give("partial", m)

WanViaSsh(m, a) == Degraded(Give(Read(a.shell), m))

\* "empty" stands for a dump without a WAN interface that is up.
GetWanStatus(m, a) ==
  IF a.dump = "ok" THEN ReadWanCounters(m, a)
  ELSE IF a.dump = "empty" THEN Give("empty", m)
  ELSE IF a.dump = "auth" THEN WanViaSsh(m, a) ELSE Raise(a.dump, m)

-------------------------------------------------------------------------------
(* Wi-Fi.                                                                   *)

WifiMethods == {"unset", "wireless", "iwinfo", "uci", "ssh", "none"}

WifiViaSsh(a) ==
  Degraded(IF a.shell = "ok" THEN Give("fresh", "ssh") ELSE Give("empty", "none"))

\* The methods in the order of preference; the first with radios is remembered,
\* and also that there was none.
ProbeWifi(m, a) ==
  LET passed(x) == x \in Refused \cup {"empty"} IN
  IF a.wireless = "ok" THEN Give("fresh", "wireless")
  ELSE IF ~passed(a.wireless) THEN Raise(a.wireless, m)
  ELSE IF a.iwinfo = "ok" THEN Give("fresh", "iwinfo")
  ELSE IF ~passed(a.iwinfo) THEN Raise(a.iwinfo, m)
  ELSE IF a.uci = "ok" THEN Give("fresh", "uci")
  ELSE IF ~passed(a.uci) THEN Raise(a.uci, m)
  ELSE WifiViaSsh(a)

\* The remembered method; iwinfo is left only on an error, the others also when
\* they report nothing, and "none" never.
GetWifiStatus(m, a) ==
  IF m = "none" THEN Give("empty", m)
  ELSE IF m \in {"unset", "ssh"} THEN ProbeWifi(m, a)
  ELSE LET x == a[m] IN
    IF x = "ok" \/ (x = "empty" /\ m = "iwinfo") THEN Give(Read(x), m)
    ELSE IF x = "empty" /\ m = "uci" THEN ProbeWifi(m, a)
    ELSE IF x \in Refused \cup {"empty"} THEN ProbeWifi("unset", a)
    ELSE Raise(x, m)

\* iwinfo of each known interface, else what the Wi-Fi status was read from.
GetApInterfaceDetails(m, a) ==
  LET known == a.known = "ok" IN
  IF known /\ a.info \notin Answered \cup Refused THEN Raise(a.info, m)
  ELSE IF known /\ a.info \in Answered THEN Give("fresh", m)
  ELSE IF a.source = "uci" THEN
    IF a.uci \in Answered \cup Refused THEN Give(Read(a.uci), m) ELSE Raise(a.uci, m)
  ELSE Give(IF a.source = "ssh" THEN "fresh" ELSE "empty", m)

\* Interfaces in station or mesh mode of iwinfo, else of the UCI config.
GetStaInterfaceDetails(m, a) ==
  IF a.info = "ok" THEN
    IF a.device \in Answered \cup Refused THEN Give("fresh", m) ELSE Raise(a.device, m)
  ELSE IF a.info \notin Refused \cup {"empty"} THEN Raise(a.info, m)
  ELSE IF a.uci \in Answered \cup Refused THEN Give(Read(a.uci), m)
  ELSE Raise(a.uci, m)

-------------------------------------------------------------------------------
(* Clients.                                                                 *)

\* Fault: the list has no interval.
UsesCachedListForever(m, a) == m.known # "unset" /\ a.reported = "ok"

\* The list of AP interfaces is looked up again when it is due, or when the Wi-Fi
\* status newly reports an interface that is not in it.
UsesCachedList(m, a) == m.known # "unset" /\ ~m.due /\ a.reported = "ok"

\* iwinfo, else every usual name is tried, else the names of the Wi-Fi status;
\* an earlier list survives if the lookup failed rather than found nothing.
DiscoverInterfaces(m, a) ==
  LET passed(x) == x \in Refused \cup {"empty"}
      failed == a.devices = "response" \/ a.probe = "response" IN
  IF a.devices = "ok" THEN Give("fresh", Looked("fresh"))
  ELSE IF ~passed(a.devices) THEN Raise(a.devices, m)
  ELSE IF a.probe = "ok" THEN Give("fresh", Looked("fresh"))
  ELSE IF ~passed(a.probe) THEN Raise(a.probe, m)
  ELSE IF a.radios = "ok" THEN Give("fresh", Looked("fresh"))
  ELSE IF m.known \in {"fresh", "stale"} /\ failed THEN Give(m.known, Looked(m.known))
  ELSE Give("empty", Looked("empty"))

\* The SSID of an interface: hostapd, else iwinfo, else luci-rpc, whose answer is
\* remembered whatever it was.
GetSsid(m, a) ==
  LET caught == Refused \cup {"auth"} IN
  IF a.status \in Answered THEN Give(Read(a.status), m)
  ELSE IF a.status \notin Refused THEN Raise(a.status, m)
  ELSE IF a.info \in Answered THEN Give(Read(a.info), m)
  ELSE IF a.info \notin Refused THEN Raise(a.info, m)
  ELSE IF m # "unset" THEN Give(m, m)
  ELSE IF a.luci \in Answered \cup caught THEN Give(Read(a.luci), Read(a.luci))
  ELSE Raise(a.luci, m)

\* The stations of every interface: hostapd, else iwinfo; an interface that
\* refuses both is skipped.  _hostapd_acl_blocked, which would lead to SSH, needs
\* "access denied" in a text that an ACL refusal does not carry: it stays FALSE.
GetStations(m, a) ==
  IF a.stations \in Answered THEN Give(Read(a.stations), m)
  ELSE IF a.stations \notin Refused THEN Raise(a.stations, m)
  ELSE IF a.assoc \in Answered THEN Give(Read(a.assoc), m)
  ELSE IF a.assoc \in Refused THEN Give("partial", m) ELSE Raise(a.assoc, m)

\* A list from before a Wi-Fi change ("stale") lacks interfaces.
GetConnectedClients(m, a) ==
  LET list == IF UsesCachedList(m, a) THEN Give(m.known, m) ELSE DiscoverInterfaces(m, a) IN
  IF list.error # "none" \/ list.value = "empty" THEN list
  ELSE IF a.ssid # "ok" THEN Raise(a.ssid, list.mem)
  ELSE LET r == GetStations(list.mem, a) IN
    IF list.value = "stale" /\ r.value = "fresh" THEN [r EXCEPT !.value = "partial"] ELSE r

\* The lease file, else luci-rpc.
GetDhcpLeases(m, a) ==
  LET caught == Refused \cup {"auth"} IN
  IF a.file \in Answered THEN Give(Read(a.file), m)
  ELSE IF a.file \notin caught THEN Raise(a.file, m)
  ELSE IF a.luci \in Answered \cup caught THEN Give(Read(a.luci), m)
  ELSE Raise(a.luci, m)

-------------------------------------------------------------------------------
(* Network and bridge.                                                      *)

GetDeviceStatus(m, a) ==
  IF a.status \in Answered \cup Refused \cup {"timeout"} THEN Give(Read(a.status), m)
  ELSE Raise(a.status, m)

InterfacesViaSsh(m, a) == Degraded(Give(Read(a.shell), m))

GetNetworkInterfaces(m, a) ==
  IF a.dump \in Answered THEN Give(Read(a.dump), m)
  ELSE IF a.dump = "connection" THEN Raise(a.dump, m) ELSE InterfacesViaSsh(m, a)

\* Only reads the device status of the same poll.
GetPortStats(m, a) == Give(Read(a.devices), m)

GetPortVlanMap(m, a) ==
  IF a.uci = "connection" THEN Raise(a.uci, m) ELSE Give(Read(a.uci), m)

\* Bridge port numbers.  The map is kept when no port could be read.
RebuildBridgePortMap(m, a) == IF a.ports = "ok" THEN Looked("fresh") ELSE m

\* The forwarding table of the bridge with the names of its ports, else SSH.  A
\* port number the map does not know has it rebuilt before its time.
GetBridgeFdb(m, a) ==
  LET mem == IF m.known = "unset" \/ m.due \/ a.numbers = "new"
             THEN RebuildBridgePortMap(m, a) ELSE m IN
  IF a.forward = "ok" THEN Give(IF mem.known = "fresh" THEN "fresh" ELSE "empty", mem)
  ELSE IF a.forward = "empty" THEN Give("empty", mem)
  ELSE IF a.forward = "connection" THEN Raise(a.forward, mem)
  ELSE Give(Read(a.shell), mem)

\* /proc/net/arp over ubus, completed from luci-rpc if it was cut off, else SSH.
GetArpTable(m, a) ==
  IF a.arp \in Answered THEN
    IF a.cut = "ok" /\ a.hints = "connection" THEN Raise(a.hints, m) ELSE Give(Read(a.arp), m)
  ELSE IF a.arp = "connection" THEN Raise(a.arp, m) ELSE Give(Read(a.shell), m)

\* Joins ARP and FDB of the same poll.
GetTrunkPortMap(m, a) ==
  Give(IF a.fdb = "ok" /\ a.arp = "ok" THEN "fresh" ELSE "empty", m)

\* LLDP: ubus until it failed once, then lldpcli over SSH; "unset" also stands for
\* unavailable.  Both answers are kept, for intervals of their own.
NoLldp == [known |-> "unset", due |-> TRUE, ubus |-> TRUE]

FetchLldp(m, a) ==
  LET ubus == m.ubus /\ a.lldpd \in Answered IN
  IF m.ubus /\ a.lldpd = "ok" THEN Give("fresh", [known |-> "fresh", due |-> FALSE, ubus |-> TRUE])
  ELSE IF a.shell = "fail" THEN
    Give("empty", [known |-> "unset", due |-> FALSE, ubus |-> ubus])
  ELSE LET v == Read(a.shell) IN Give(v, [known |-> v, due |-> FALSE, ubus |-> ubus])

GetLldpNeighbors(m, a) ==
  IF m.due THEN FetchLldp(m, a)
  ELSE Give(IF m.known = "fresh" THEN "fresh" ELSE "empty", m)
================================================================================
