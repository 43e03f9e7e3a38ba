------------------------------- MODULE MeshRoles --------------------------------
(***************************************************************************)
(* Which routers the mesh map shows as gateways (topology_mesh.py), over the *)
(* snapshots of a Home Assistant session: by what each router says of its    *)
(* WAN and, while no WAN is up, by the gateways of the last snapshot that    *)
(* had one.                                                                  *)
(***************************************************************************)
EXTENDS Naturals

CONSTANT Routers    \* router ids, which are ordered

ASSUME RolesAssumptions == Routers \subseteq Nat

VARIABLES
  fleet,     \* routers of the loaded entries
  wan,       \* of each router: what its last poll says of the WAN
  memory,    \* _GATEWAY_MEMORY
  shown,     \* the gateways of the last snapshot
  settled    \* history: the gateways of the last snapshot with a WAN that was up

vars == <<fleet, wan, memory, shown, settled>>

\* Up: connected over ubus.  Down: configured, with a protocol of its own or with
\* OpenWrt's default one.  Ssh: connected, says the script of the SSH fallback.
\* Other: a WAN that is not an uplink.  None: wan_found is False.
Wans == {"up", "down", "default", "ssh", "other", "none"}

Init ==
  /\ fleet \in SUBSET Routers
  /\ wan \in [Routers -> Wans]
  /\ memory = {} /\ shown = {} /\ settled = {}

-------------------------------------------------------------------------------
\* _gateway_evidence
Evidence(r) ==
  CASE wan[r] = "up" -> "strong"
    [] wan[r] \in {"down", "default"} -> "weak"
    [] wan[r] = "ssh" -> "ssh"
    [] OTHER -> "none"

With(level) == {r \in fleet : Evidence(r) = level}

Lowest(S) == CHOOSE r \in S : \A o \in S : r <= o

\* The one router to guess from: with a protocol that is not the default one first.
Guess ==
  LET own == {r \in With("weak") : wan[r] = "down"} IN
  IF With("ssh") # {} THEN {Lowest(With("ssh"))}
  ELSE IF own # {} THEN {Lowest(own)}
  ELSE IF With("weak") # {} THEN {Lowest(With("weak"))} ELSE {}

\* Fault: without a memory.
ResolveForgetful(remembered) == IF With("strong") # {} THEN With("strong") ELSE Guess

\* _resolve_router_roles: the gateways.
Resolve(remembered) ==
  LET kept == {r \in fleet \cap remembered : wan[r] # "none"} IN
  IF With("strong") # {} THEN With("strong") ELSE IF kept # {} THEN kept ELSE Guess

\* _remember_gateways
Remember == memory' = IF With("strong") # {} THEN With("strong") ELSE memory

\* build_mesh_snapshot: the roles, by the memory of before.
Snapshot ==
  /\ shown' = Resolve(memory)
  /\ Remember
  /\ settled' = IF \E r \in fleet : wan[r] = "up" THEN {r \in fleet : wan[r] = "up"}
                ELSE settled
  /\ UNCHANGED <<fleet, wan>>

\* Environment: a poll brings another WAN status; entries are loaded and unloaded,
\* their data is of the first poll then.
Polled(r) ==
  /\ r \in fleet
  /\ wan' \in [Routers -> Wans]
  /\ \A o \in Routers \ {r} : wan'[o] = wan[o]
  /\ UNCHANGED <<fleet, memory, shown, settled>>

Unloaded(r) ==
  /\ r \in fleet /\ fleet' = fleet \ {r}
  /\ UNCHANGED <<wan, memory, shown, settled>>

Loaded(r) ==
  /\ r \notin fleet /\ fleet' = fleet \cup {r}
  /\ wan' \in [Routers -> Wans]
  /\ \A o \in Routers \ {r} : wan'[o] = wan[o]
  /\ UNCHANGED <<memory, shown, settled>>

Next == Snapshot \/ \E r \in Routers : Polled(r) \/ Unloaded(r) \/ Loaded(r)

Spec == Init /\ [][Next]_vars

-------------------------------------------------------------------------------
(* Properties                                                               *)

TypeOK ==
  /\ fleet \subseteq Routers /\ wan \in [Routers -> Wans]
  /\ memory \subseteq Routers /\ shown \subseteq Routers /\ settled \subseteq Routers

Away == \A r \in fleet : wan[r] # "up"
Left == {r \in fleet \cap settled : wan[r] # "none"}

\* During a WAN outage the map does not change sides: a snapshot shows no gateway
\* but those of the last snapshot with a WAN, as long as one of them is in the fleet
\* with a WAN section, and shows all of these (_resolve_router_roles, 2.).
OutageKeepsGateways == [][Snapshot /\ Away /\ Left # {} => shown' = Left]_vars
================================================================================
