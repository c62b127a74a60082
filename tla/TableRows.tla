------------------------------ MODULE TableRows ------------------------------
(***************************************************************************)
(* The rows of one database table and the three kinds of batched command   *)
(* that OrpheusTable<T> sends to it.  A table is a function from primary   *)
(* keys to row contents; None is the content of a row that is not there.   *)
(*                                                                         *)
(* A queue is the insertion-ordered Dictionary<T, List<KeyValuePair>> of   *)
(* OrpheusTable: a sequence of entries, one per record at most, with the   *)
(* parameter values that were captured when the entry was queued.          *)
(***************************************************************************)
EXTENDS Integers, Sequences

CONSTANTS
  Keys,      (* primary key values                                         *)
  Vals,      (* everything of a row that is not its key                    *)
  None       (* no value: an absent row, a key that is not set             *)

ASSUME NoneAssumption == None \notin Vals /\ None \notin Keys

Rows == [Keys -> Vals \cup {None}]

(***************************************************************************)
(* Queues.                                                                 *)
(***************************************************************************)
Queued(q, r) == \E i \in DOMAIN q : q[i].rec = r

\* Mutant: the entry is added even if the record has one.
EnqueueAlways(q, e) == Append(q, e)

\* Dictionary assignment keeps the position of a key that is already there.
Enqueue(q, e) ==
  IF Queued(q, e.rec)
  THEN [i \in DOMAIN q |-> IF q[i].rec = e.rec THEN e ELSE q[i]]
  ELSE Append(q, e)

OncePerRecord(q) == \A i, j \in DOMAIN q : q[i].rec = q[j].rec => i = j

(***************************************************************************)
(* The rows after the entries lo..hi of a queue were executed.             *)
(***************************************************************************)

\* DELETE FROM t WHERE key = @KEY_0 OR key = @KEY_1 ...
DeleteRows(t, q, lo, hi) ==
  [k \in Keys |-> IF \E i \in lo..hi : q[i].key = k THEN None ELSE t[k]]

\* UPDATE t SET ... WHERE key = @KEY_0; UPDATE t SET ... : of two statements for
\* one row the later one stays, and a row that is not there is not created.
LastFor(q, lo, hi, k) ==
  CHOOSE i \in lo..hi : /\ q[i].key = k
                        /\ \A j \in lo..hi : q[j].key = k => j <= i

UpdateRows(t, q, lo, hi) ==
  [k \in Keys |-> IF t[k] # None /\ \E i \in lo..hi : q[i].key = k
                  THEN q[LastFor(q, lo, hi, k)].val
                  ELSE t[k]]

\* INSERT INTO t VALUES (...),(...): entry i becomes the row with key keys[i].
\* The primary key constraint rejects the command as a whole.
CanInsert(t, keys, lo, hi) ==
  /\ \A i \in lo..hi : keys[i] \in Keys /\ t[keys[i]] = None
  /\ \A i, j \in lo..hi : keys[i] = keys[j] => i = j

InsertRows(t, q, keys, lo, hi) ==
  [k \in Keys |-> IF \E i \in lo..hi : keys[i] = k
                  THEN q[CHOOSE i \in lo..hi : keys[i] = k].val
                  ELSE t[k]]
=============================================================================
