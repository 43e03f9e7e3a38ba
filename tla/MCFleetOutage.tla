--------------------------- MODULE MCFleetOutage ---------------------------
(* Instances of FleetOutage.                                                *)
EXTENDS FleetOutage

CONSTANTS r1, r2, r3

ThreeRouters == {r1, r2, r3}
==============================================================================
