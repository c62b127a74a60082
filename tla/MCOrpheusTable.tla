--------------------------- MODULE MCOrpheusTable ---------------------------
(***************************************************************************)
(* OrpheusTable on small instances.                                        *)
(***************************************************************************)
EXTENDS OrpheusTable, TLC

CONSTANTS r1, r2, r3, v1, v2

TwoRecords == {r1, r2}
ThreeRecords == {r1, r2, r3}
OneValue == {v1}
TwoValues == {v1, v2}
Keys2 == 1..2
Keys5 == 1..5

\* Records are interchangeable; keys are not, they are handed out in order.
Symmetry3 == Permutations(ThreeRecords)
=============================================================================
