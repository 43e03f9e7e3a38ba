------------------------------- MODULE MeshEdges --------------------------------
(***************************************************************************)
(* The edges between the routers of the mesh map (topology_mesh.py): from    *)
(* the LLDP neighbours of each router, the leases and the bridge of the      *)
(* gateways, the Wi-Fi clients of each router, and a fallback.               *)
(*                                                                          *)
(* A behaviour collects what the routers report of each other and then       *)
(* computes the edges of one snapshot.  All routers are in one subnet; each   *)
(* has one WAN port, one LAN port and one radio for its uplink.              *)
(***************************************************************************)
EXTENDS FiniteSetsExt, Naturals

CONSTANTS Routers,      \* router ids, which are ordered
          Fleets,       \* the sets of routers with the role "gateway"
          MaxReports    \* bound: reports in one snapshot

EdgesAssumptions ==
  /\ Routers \subseteq Nat /\ IsFiniteSet(Routers)
  /\ Fleets \subseteq SUBSET Routers

VARIABLES
  gateways,   \* the routers with the role "gateway"
  reports,    \* what is known of routers, as below
  edges,      \* the edges between routers
  mapped      \* they have been computed

vars == <<gateways, reports, edges, mapped>>

\* LLDP neighbour tables, by the port a neighbour is seen through; a lease; an entry
\* of the trunk_port_map; a Wi-Fi client.
Ports == {"lan", "wan", "radio"}
Report == {r \in [by: Routers, how: Ports \cup {"lease", "trunk", "client"}, of: Routers] :
             r.by # r.of /\ (r.how \in {"lease", "trunk"} => r.by \in gateways)}

\* Of a router itself: an active wireless uplink, and a carrier at the WAN port.
SelfReport == [by: Routers, how: {"uplink", "carrier"}, of: {0}]

Says(a, how, b) == [by |-> a, how |-> how, of |-> b] \in reports
Repeaters == {r \in Routers : Says(r, "uplink", 0) /\ ~Says(r, "carrier", 0)}

-------------------------------------------------------------------------------
(* Method 0: LLDP.                                                          *)

Sees(a, b) == \E p \in Ports : Says(a, p, b)
Adjacent(a, b) == Sees(a, b) \/ Sees(b, a)

\* The port of a towards b.  With parallel links the first of the sorted table wins;
\* "-": a does not see b, and what b says of it is no name.
PortOf(a, b) ==
  IF ~Sees(a, b) THEN "-"
  ELSE IF Says(a, "lan", b) THEN "lan" ELSE IF Says(a, "radio", b) THEN "radio" ELSE "wan"

\* _lldp_hop_depths: the routers within n hops of a gateway.
Unreachable == Cardinality(Routers) + 1

Within[n \in 0..Unreachable] ==
  IF n = 0 THEN gateways
  ELSE LET near == Within[n - 1]
       IN  near \cup {r \in Routers : \E o \in near : Adjacent(o, r)}

Depths == [r \in Routers |-> Min({Unreachable} \cup {n \in 0..Unreachable : r \in Within[n]})]

\* Fault: hop depths are not compared.
BeforeFlat(depth, a, b) == a \in gateways /\ b \notin gateways

\* a is nearer to a gateway than b.
Before(depth, a, b) == (a \in gateways /\ b \notin gateways) \/ depth[a] < depth[b]

\* _lldp_wan_side: a alone faces the link with its WAN port.
FacesByWan(a, b) == PortOf(a, b) = "wan" /\ PortOf(b, a) # "wan"

\* _orient_lldp_pair: the orientation from a to b rests on evidence.
Anchored(depth, a, b) ==
  Before(depth, a, b) \/ (~Before(depth, b, a) /\ FacesByWan(b, a) /\ ~FacesByWan(a, b))

LeadsTo(depth, a, b) == Anchored(depth, a, b) \/ (~Anchored(depth, b, a) /\ a < b)

Wireless(a, b) == "radio" \in {PortOf(a, b), PortOf(b, a)}

\* _detect_lldp_edges
LldpEdges ==
  LET depth == Depths IN
  {[from |-> p[1], to |-> p[2], kind |-> "router_uplink", by |-> "lldp",
    air |-> Wireless(p[1], p[2]),
    port |-> IF Wireless(p[1], p[2]) \/ p[1] \notin gateways THEN "-" ELSE PortOf(p[1], p[2])] :
     p \in {q \in Routers \X Routers : Adjacent(q[1], q[2]) /\ LeadsTo(depth, q[1], q[2])}}

\* Fault: no router counts as uplinked by LLDP.
UplinkedNone == {}

\* Routers whose uplink LLDP has established.
Uplinked ==
  LET depth == Depths
  IN  {r \in Routers : \E a \in Routers : Adjacent(a, r) /\ Anchored(depth, a, r)}

-------------------------------------------------------------------------------
(* Methods 1, 2.5 and 2.                                                    *)

\* The gateways that know an AP by how, unless LLDP has spoken.
Knowing(a, how) == {g \in gateways : Says(g, how, a) /\ ~Adjacent(g, a)}

Open == {a \in Routers \ (gateways \cup Uplinked) :
           Knowing(a, "lease") # {} \/ Knowing(a, "trunk") # {}}

\* The first gateway with a lease claims an AP, or else the first with an entry of
\* its trunk_port_map.  An edge by lease has a port if the bridge knows the AP too.
LanEdges ==
  {LET by == IF Knowing(a, "lease") # {} THEN "lease" ELSE "trunk"
       g == Min(Knowing(a, by)) IN
   [from |-> g, to |-> a, kind |-> "lan_uplink", by |-> by, air |-> FALSE,
    port |-> IF Says(g, "trunk", a) THEN "lan" ELSE "-"] : a \in Open}

\* A router among the clients of another: from the gateway to the AP, otherwise from
\* the router that has the client.
ClientPairs ==
  {IF p[1] \notin gateways /\ p[2] \in gateways THEN <<p[2], p[1]>> ELSE p :
     p \in {q \in Routers \X Routers : Says(q[1], "client", q[2])}}

ClientEdges ==
  LET up == Uplinked
      lan == LanEdges IN
  {[from |-> p[1], to |-> p[2], kind |-> "wifi_uplink", by |-> "client", air |-> TRUE,
    port |-> "-"] :
     p \in {q \in ClientPairs : /\ ~Adjacent(q[1], q[2]) /\ q[2] \notin up
                                /\ \A e \in lan : <<e.from, e.to>> # q}}

-------------------------------------------------------------------------------
(* Repeaters, and method 3.                                                 *)

\* An uplink of a repeater is one over Wi-Fi, unless LLDP has seen the cable.
Overridden(e) ==
  IF e.kind # "wifi_uplink" /\ e.to \in Repeaters /\ (e.by = "lldp" => e.air)
  THEN [e EXCEPT !.kind = "wifi_uplink", !.air = TRUE, !.port = "-"] ELSE e

Detected == {Overridden(e) : e \in LldpEdges \cup LanEdges \cup ClientEdges}

\* APs on no edge go to the first gateway.
FallbackEdges(detected) ==
  LET alone == {a \in Routers \ gateways : \A e \in detected : a \notin {e.from, e.to}} IN
  IF gateways = {} THEN {}
  ELSE {LET air == Says(a, "uplink", 0) IN
        [from |-> Min(gateways), to |-> a, by |-> "fallback", air |-> air, port |-> "-",
         kind |-> IF air THEN "wifi_uplink" ELSE "mesh_member"] : a \in alone}

\* _detect_inter_router_edges
Edges == LET detected == Detected IN detected \cup FallbackEdges(detected)

Init == gateways \in Fleets /\ reports = {} /\ edges = {} /\ mapped = FALSE

Collect ==
  /\ ~mapped /\ Cardinality(reports) < MaxReports
  /\ \E r \in (Report \cup SelfReport) \ reports : reports' = reports \cup {r}
  /\ UNCHANGED <<gateways, edges, mapped>>

Snapshot ==
  /\ ~mapped
  /\ mapped' = TRUE /\ edges' = Edges
  /\ UNCHANGED <<gateways, reports>>

Next == Collect \/ Snapshot

Spec == Init /\ [][Next]_vars

-------------------------------------------------------------------------------
(* Switches between the first gateway and its APs (_detect_switch_nodes).    *)

Wired(e) == e.kind = "lan_uplink" \/ (e.kind = "router_uplink" /\ ~e.air)

Chained == {e.to : e \in {x \in edges : x.kind = "router_uplink" /\ x.from \notin gateways}}

\* Fault: APs behind another router are not left alone.
AtPortAll(p) ==
  {e \in edges : Wired(e) /\ e.from = Min(gateways) /\ e.port = p /\ p # "-"}

AtPort(p) ==
  {e \in edges : Wired(e) /\ e.from = Min(gateways) /\ e.port = p /\ p # "-" /\ e.to \notin Chained}

\* The APs that a switch at port p replaces the edges of: LLDP is not mixed with
\* the other methods.
Switched(p) ==
  LET aps == {e.to : e \in AtPort(p)}
      trunk == \E r \in reports : r.how = "trunk" /\ r.by = Min(gateways) IN
  IF gateways = {} \/ ~trunk THEN {}
  ELSE IF Cardinality(aps) < 2 \/ Cardinality({e.by = "lldp" : e \in AtPort(p)}) > 1 THEN {}
  ELSE aps

-------------------------------------------------------------------------------
(* Properties                                                               *)

\* LLDP is authoritative: between two routers that see each other there is no edge by
\* another method, and a router whose uplink LLDP has anchored gets no second uplink
\* (docstring of _detect_lldp_edges).
LldpWins ==
  \A e, l \in edges :
    e.by # "lldp" /\ l.by = "lldp" =>
      /\ {e.from, e.to} # {l.from, l.to}
      /\ e.to = l.to => ~Anchored(Depths, l.from, l.to)

\* The map leads away from the gateways: no AP is above a gateway, and what is
\* nearer to a gateway is above (_orient_lldp_pair).
LeadsAway ==
  \A e \in edges :
    /\ e.to \in gateways => e.from \in gateways
    /\ e.by = "lldp" => Depths[e.from] <= Depths[e.to]

\* "A phantom switch replacing the whole LLDP chain" (docstring of _detect_lldp_edges)
\* does not appear: two APs that see each other over a cable are never put side by side
\* behind a switch, whatever the gateway's bridge and leases say of them.
SwitchSparesChains ==
  \A p \in Ports : \A a, b \in Switched(p) \ gateways :
    a # b /\ Adjacent(a, b) => Wireless(a, b)
================================================================================
