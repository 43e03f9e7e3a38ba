-------------------------- MODULE MCSshConnection --------------------------
(* Instances of SshConnection.                                              *)
EXTENDS SshConnection, TLC

CONSTANTS poll, switch, button, c1, c2, c3, c4

TwoTasks   == {poll, switch}
ThreeTasks == {poll, switch, button}
ThreeConns == {c1, c2, c3}
FourConns  == {c1, c2, c3, c4}

Symmetry == Permutations({switch, button}) \cup Permutations(FourConns)
==============================================================================
