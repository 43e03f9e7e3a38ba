------------------------------ MODULE MCWifiSwitch ------------------------------
(* Instances of WifiSwitch.                                                 *)
EXTENDS WifiSwitch, TLC

CONSTANTS t1, t2, home, guest

TwoTasks    == {t1, t2}
TwoSections == {home, guest}

Symmetry == Permutations(TwoTasks)
================================================================================
