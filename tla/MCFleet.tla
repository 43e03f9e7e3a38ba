-------------------------------- MODULE MCFleet --------------------------------
(*****************************************************************************)
(* What is derived of all routers: their roles, the edges and clients of the *)
(* mesh map, and the presence of the clients. They share a run, not state: in*)
(* a behaviour one of them runs (part) while the others stay where they are. *)
(*****************************************************************************)
EXTENDS MeshRoles

CONSTANTS Fleets, MaxReports,                       \* the edges
          Count, Strongest,                         \* the clients
          Entries, Macs, Threshold, Free, Ghost     \* the trackers

SomeFleets == {{}, {2}, {1, 3}}

VARIABLES
  part, gateways, reports, edges, mapped, online, sees, known, node, clientEdges, phase,
  seen, failures, overdue, parity, claimed, tracked, entity, trackerShown, registry,
  disabled

Edges == INSTANCE MeshEdges WITH
  Fleets <- Fleets, MaxReports <- MaxReports, gateways <- gateways, reports <- reports,
  edges <- edges, mapped <- mapped

Clients == INSTANCE MeshClients WITH
  Count <- Count, Strongest <- Strongest, online <- online, sees <- sees, known <- known,
  node <- node, edges <- clientEdges

Trackers == INSTANCE DeviceTracker WITH
  Entries <- Entries, Macs <- Macs, Threshold <- Threshold, Free <- Free, Ghost <- Ghost,
  phase <- phase, seen <- seen, failures <- failures, overdue <- overdue, parity <- parity,
  claimed <- claimed, tracked <- tracked, entity <- entity, shown <- trackerShown,
  registry <- registry, disabled <- disabled

edgesVars == <<gateways, reports, edges, mapped>>
clientsVars == <<online, sees, known, node, clientEdges>>
trackersVars == <<phase, seen, failures, overdue, parity, claimed, tracked, entity,
                   trackerShown, registry, disabled>>

\* A part that does not run stays at one of its initial states.
MCInit ==
  /\ part \in {"roles", "edges", "clients", "trackers"}
  /\ Init
  /\ part # "roles" =>
       /\ fleet = {}
       /\ wan = [r \in Routers |-> CHOOSE w \in Wans : TRUE]
  /\ Edges!Init
  /\ part # "edges" =>
       gateways = {}
  /\ Clients!Init
  /\ part # "clients" =>
       /\ online = {}
       /\ ~known
  /\ Trackers!Init
  /\ part # "trackers" =>
       disabled = {}

OnlyRoles ==
  /\ part = "roles"
  /\ UNCHANGED <<part, edgesVars, clientsVars, trackersVars>>

OnlyEdges ==
  /\ part = "edges"
  /\ UNCHANGED <<part, vars, clientsVars, trackersVars>>

OnlyClients ==
  /\ part = "clients"
  /\ UNCHANGED <<part, vars, edgesVars, trackersVars>>

OnlyTrackers ==
  /\ part = "trackers"
  /\ UNCHANGED <<part, vars, edgesVars, clientsVars>>

MCNext ==
  \/ OnlyRoles /\ Next
  \/ OnlyEdges /\ Edges!Next
  \/ OnlyClients /\ Clients!Next
  \/ OnlyTrackers /\ Trackers!Next

allVars == <<part, vars, edgesVars, clientsVars, trackersVars>>

MCSpec == MCInit /\ [][MCNext]_allVars

MCLiveSpec ==
  /\ MCSpec
  /\ \A e \in Entries : WF_trackersVars(part = "trackers" /\ Trackers!Poll(e))

--------------------------------------------------------------------------------
\* LLDP is authoritative over the other evidence of the map.
LldpWins == Edges!LldpWins

\* The map leads away from the gateways.
LeadsAway == Edges!LeadsAway

\* APs that see each other over a cable are never put side by side behind a switch.
SwitchSparesChains == Edges!SwitchSparesChains

\* A client is shown once, at its best witness.
ShownOnce == Clients!ShownOnce

ASSUME FleetAssumptions ==
  Edges!EdgesAssumptions /\ Clients!ClientsAssumptions /\ Trackers!TrackerAssumptions

\* A claim on a client belongs to an entry that is set up and backs it by an entity, and
\* known trackers are restored with their entry.
TrackersAreBacked == Trackers!TypeOK /\ Trackers!ClaimIsBacked /\ Trackers!KnownIsRestored

\* A client that a loaded router lists is tracked in the end.
SeenIsTracked == Trackers!SeenIsTracked

\* "home" is not shown forever for a client that no usable router lists.
PresenceSettles == Trackers!PresenceSettles
================================================================================
