----------------------------- MODULE AtomicTable -----------------------------
(***************************************************************************)
(* What IOrpheusTable.Save promises, without transactions, commands or     *)
(* batches: the pending changes reach the database all together (deletes,  *)
(* then updates, then inserts) or not at all.  A Save that fails may       *)
(* forget the kinds of change that it had finished sending, never a part   *)
(* of one kind, and never the inserts while the updates are still pending. *)
(***************************************************************************)
EXTENDS TableRows

CONSTANT DbGenerated   (* the database assigns the keys of inserted rows   *)

VARIABLES
  rows,        (* the committed rows                                       *)
  pending      (* the queued deletes, updates and inserts                  *)

vars == <<rows, pending>>

Changes(del, upd, ins) == [del |-> del, upd |-> upd, ins |-> ins]

NoChanges == Changes(<<>>, <<>>, <<>>)

Init == rows \in Rows /\ pending = NoChanges

\* One entry of the queue is new or replaced, the others are as they were.
OneEntry(q, new) ==
  \E n \in 1..(Len(q) + 1) :
     /\ DOMAIN new = DOMAIN q \cup {n}
     /\ \A i \in DOMAIN q \ {n} : new[i] = q[i]

\* Add, Update or Delete queues one entry in one of the queues.
Call ==
  /\ LET new == pending' IN
     \/ OneEntry(pending.del, new.del) /\ new = Changes(new.del, pending.upd, pending.ins)
     \/ OneEntry(pending.upd, new.upd) /\ new = Changes(pending.del, new.upd, pending.ins)
     \/ OneEntry(pending.ins, new.ins) /\ new = Changes(pending.del, pending.upd, new.ins)
  /\ UNCHANGED rows

\* The keys that the inserted rows may get: their own, or any that are free.
KeyChoices(ins) ==
  IF DbGenerated THEN [1..Len(ins) -> Keys]
                 ELSE {[i \in 1..Len(ins) |-> ins[i].key]}

\* The rows that the pending deletes and updates leave.
WithoutInserts(t, p) ==
  UpdateRows(DeleteRows(t, p.del, 1, Len(p.del)), p.upd, 1, Len(p.upd))

Save ==
  /\ \E keys \in KeyChoices(pending.ins) :
        LET t == WithoutInserts(rows, pending)
            n == Len(pending.ins)
        IN /\ CanInsert(t, keys, 1, n)
           /\ rows' = InsertRows(t, pending.ins, keys, 1, n)
  /\ pending' = NoChanges

Fail ==
  /\ pending' \in { pending,
                    Changes(<<>>, pending.upd, pending.ins),
                    Changes(<<>>, <<>>, pending.ins),
                    NoChanges }
  /\ UNCHANGED rows

Next == Call \/ Save \/ Fail

Spec == Init /\ [][Next]_vars
=============================================================================
