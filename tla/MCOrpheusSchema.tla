--------------------------- MODULE MCOrpheusSchema ---------------------------
(***************************************************************************)
(* OrpheusSchema with customers, their orders, and the lines of an order.  *)
(***************************************************************************)
EXTENDS OrpheusSchema, TLC

Two == {"Customer", "SalesOrder"}
TwoDepend == [o \in Two |-> IF o = "SalesOrder" THEN {"Customer"} ELSE {}]

Three == {"Customer", "SalesOrder", "Line"}
ThreeDepend == [o \in Three |-> CASE o = "Customer" -> {}
                                   [] o = "SalesOrder" -> {"Customer"}
                                   [] o = "Line" -> {"SalesOrder", "Customer"}]

\* Every order of all objects, with the dependencies added at the end.
AllListed == {[list |-> l, late |-> TRUE] : l \in SetToSeqs(Objects)}

\* Also a list whose dependencies are added as it grows, before they can be found, and one
\* with a single object, as for a change of one model.
SomeListed ==
  {[list |-> <<"Customer", "SalesOrder", "Line">>, late |-> FALSE]}
    \cup {[list |-> <<"Line", "SalesOrder", "Customer">>, late |-> late] : late \in BOOLEAN}
    \cup {[list |-> <<"SalesOrder", "Customer", "Line">>, late |-> TRUE]}
    \cup {[list |-> <<o>>, late |-> TRUE] : o \in Objects}

\* From version 1 to 2 a column goes, one changes its type and one comes; in version 3
\* another one comes that has a unique key.
ThreeVersions == 1..3
Columns == << ("id" :> "guid") @@ ("code" :> "text") @@ ("price" :> "int"),
              ("id" :> "guid") @@ ("price" :> "real") @@ ("rank" :> "int"),
              ("id" :> "guid") @@ ("price" :> "real") @@ ("rank" :> "int")
                 @@ ("sku" :> "text") >>
Growing == [v \in ThreeVersions |->
              [columns |-> Columns[v], keys |-> IF v = 3 THEN {"sku"} ELSE {},
               nullable |-> {}]]

\* The application's releases: every model as first or as last, or one of them ahead.
SomeReleases ==
  {[o \in Objects |-> v] : v \in {1, 3}} \cup {[o \in Objects |-> IF o = "Line" THEN 2 ELSE 1]}

OrdersSeeded == {"SalesOrder"}
FirstRelease == {[o \in Objects |-> 1]}

\* The hypotheses of the theorems about OrpheusSchema hold of these instances.
ChainRank == [o \in Objects |-> CASE o = "Customer" -> 0
                                   [] o = "SalesOrder" -> 1
                                   [] o = "Line" -> 2]
ASSUME ModelsAssumption == ~Retries /\ KeysComeWithColumns /\ Follows(ChainRank)
==============================================================================
