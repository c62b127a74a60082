-------------------------- MODULE MCOrpheusConnection --------------------------
(***************************************************************************)
(* Two tables with two and one records on one connection.                  *)
(***************************************************************************)
EXTENDS OrpheusConnection

CONSTANTS t1, t2, r1, r2, r3

Two == {t1, t2}
Three == {r1, r2, r3}
Owner == [r \in Three |-> IF r = r3 THEN t2 ELSE t1]
Worst == {{"roundTrip", "break"}, {"beforeSave", "cancel", "break"}}
Cancelled == {{"cancel"}}
=============================================================================
