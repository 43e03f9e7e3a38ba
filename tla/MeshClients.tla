------------------------------- MODULE MeshClients ------------------------------
(***************************************************************************)
(* One Wi-Fi client on the mesh map when several routers report it: which    *)
(* observation, node and has_client edge the map keeps (topology_mesh.py,    *)
(* _deduplicate_clients and the end of build_mesh_snapshot).                 *)
(***************************************************************************)
EXTENDS FiniteSetsExt, Naturals

CONSTANTS Count,      \* routers 1..Count, in the order of their entries
          Strongest   \* bound: signals are 1..Strongest, 0 is unknown

ClientsAssumptions == Count \in Nat /\ Strongest \in Nat

Aps == 1..Count
Signals == 0..Strongest
Absent == [lists |-> FALSE, signal |-> 0]

VARIABLES
  online,   \* routers whose last update succeeded
  sees,     \* what the data of each router say of the client
  known,    \* the MAC belongs to a configured router
  node,     \* the router of the client node on the map; 0: no node
  edges     \* the routers with a has_client edge to the client

vars == <<online, sees, known, node, edges>>

-------------------------------------------------------------------------------
\* _mark_snapshot_stale: the clients of a router that is offline.
Stale(r) == r \notin online

\* Fault: only the signal counts.
BeatsBySignal(new, old) == sees[new].signal > sees[old].signal

\* An observation replaces the one before it.
Beats(new, old) ==
  IF Stale(new) # Stale(old) THEN Stale(old) ELSE sees[new].signal > sees[old].signal

Listing == {r \in Aps : sees[r].lists}

\* _deduplicate_clients over the routers 1..n.
Best[n \in 0..Count] ==
  IF n = 0 THEN 0
  ELSE LET old == Best[n - 1] IN
       IF n \notin Listing THEN old
       ELSE IF old = 0 \/ Beats(n, old) THEN n ELSE old

\* winning_ap_mac: no winner for a router's MAC.
Winner == IF known THEN 0 ELSE Best[Count]

\* _is_losing_client_edge
Losing(r) == Winner # 0 /\ r # Winner

Init ==
  /\ online \in SUBSET Aps /\ known \in BOOLEAN
  /\ sees = [r \in Aps |-> Absent] /\ node = 0 /\ edges = {}

\* A router's data list the client with a signal, or no longer.
Poll(r) ==
  /\ \E lists \in BOOLEAN, s \in Signals :
       sees' = [sees EXCEPT ![r] = IF lists THEN [lists |-> TRUE, signal |-> s] ELSE Absent]
  /\ online' = online \cup {r}
  /\ UNCHANGED <<known, node, edges>>

\* A poll fails: the old data stay.
PollFails(r) == online' = online \ {r} /\ UNCHANGED <<sees, known, node, edges>>

\* The map is requested.
Snapshot ==
  /\ node' = Winner
  /\ edges' = {r \in Listing : ~Losing(r)}
  /\ UNCHANGED <<online, sees, known>>

Next == Snapshot \/ \E r \in Aps : Poll(r) \/ PollFails(r)

Spec == Init /\ [][Next]_vars

-------------------------------------------------------------------------------
\* The map shows a client once, at one router, which is the best witness: a fresh
\* report beats every stale one, and among equals the strongest signal wins
\* (docstring of _deduplicate_clients; "must hang off the winning router only").
ShownOnce ==
  [][<<node', edges'>> # <<node, edges>> /\ ~known =>
       IF Listing = {} THEN node' = 0 /\ edges' = {}
       ELSE /\ node' \in Listing /\ edges' = {node'}
            /\ (Listing \cap online # {} => node' \in online)
            /\ \A r \in Listing : (r \in online <=> node' \in online)
                                    => sees[r].signal <= sees[node'].signal]_vars
================================================================================
