-------------------------------- MODULE LogStream -------------------------------
(***************************************************************************)
(* What the log ingestion of the coordinator promises: each line the router  *)
(* wrote is handed on at most once, and in the order of writing.             *)
(***************************************************************************)
EXTENDS Naturals, Sequences

CONSTANT Lines   \* <<boot, id>>, with ids that count from 1 in each boot

VARIABLES
  written,   \* the lines written so far
  handed     \* those handed on, in this order

Later(x, y) == x[1] > y[1] \/ (x[1] = y[1] /\ x[2] > y[2])

Init == written = {} /\ handed = <<>>

Write ==
  /\ \E x \in Lines : (\A y \in written : Later(x, y)) /\ written' = written \cup {x}
  /\ UNCHANGED handed

\* A run of lines, each later than what was handed on before.
HandOn ==
  /\ Len(handed') >= Len(handed)
  /\ SubSeq(handed', 1, Len(handed)) = handed
  /\ \A i \in (Len(handed) + 1)..Len(handed') :
       handed'[i] \in written /\ (i > 1 => Later(handed'[i], handed'[i - 1]))
  /\ UNCHANGED written

Spec == Init /\ [][Write \/ HandOn]_<<written, handed>>
================================================================================
