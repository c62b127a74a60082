--------------------------- MODULE MCOrpheusModule ---------------------------
(***************************************************************************)
(* OrpheusModule with orders, their lines, and the parts of a line.        *)
(***************************************************************************)
EXTENDS OrpheusModule

CONSTANTS o1, o2, l1, p1

ThreeTables == {"Order", "Line", "Part"}
Chain == [t \in ThreeTables |-> CASE t = "Order" -> None
                                  [] t = "Line" -> "Order"
                                  [] t = "Part" -> "Line"]
ChainLevel == [t \in ThreeTables |-> CASE t = "Order" -> 0
                                       [] t = "Line" -> 1
                                       [] t = "Part" -> 2]
MastersFirst == [t \in ThreeTables |-> ChainLevel[t] + 1]

TwoTables == {"Order", "Line"}
Pair == [t \in TwoTables |-> Chain[t]]
PairLevel == [t \in TwoTables |-> ChainLevel[t]]
PairPosition == [t \in TwoTables |-> MastersFirst[t]]

PairRecords == {o1, o2, l1}
PairTableOf == [r \in PairRecords |-> IF r = l1 THEN "Line" ELSE "Order"]

ChainRecords == {o1, o2, l1, p1}
ChainTableOf == [r \in ChainRecords |-> CASE r \in {o1, o2} -> "Order"
                                           [] r = l1 -> "Line"
                                           [] r = p1 -> "Part"]

\* The hypotheses of the theorems about OrpheusModule hold of these instances.
ASSUME HierarchyAssumption == MastersAbove /\ MastersListedFirst
===============================================================================
