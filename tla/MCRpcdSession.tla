---------------------------- MODULE MCRpcdSession ----------------------------
(* Small instances of RpcdSession: the poll of the coordinator, a command    *)
(* of a switch or button, and the unload of the entry.                       *)
EXTENDS RpcdSession, TLC

CONSTANTS poll, command, s1, s2, s3, s4, board, reboot

OneTask     == {poll}
TwoTasks    == {poll, command}
Granted     == {board}
OneMethod   == {board}
TwoMethods  == {board, reboot}
ThreeIds    == {s1, s2, s3}
FourIds     == {s1, s2, s3, s4}

Symmetry == Permutations(FourIds)
==============================================================================
