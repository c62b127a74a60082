----------------------------- MODULE KeyRetrieval -----------------------------
(***************************************************************************)
(* ExecuteBatchedInsertWithKeyRetrieval of the three DDL helpers: which    *)
(* keys the engine gives to the rows of a batched INSERT, and which key    *)
(* the helper reports for each of them.                                    *)
(***************************************************************************)
EXTENDS Integers

AllEngines == {"SQLServer", "PostgreSQL", "MySQL"}

\* The keys, out of the values that were drawn while the command ran, that an engine may
\* give to the rows.  A MERGE inserts them in any order; an INSERT with RETURNING in the
\* order of the list, while other sessions draw from the sequence; MySQL reserves
\* consecutive values (lock mode "consecutive", increment one).
Assignments(engine, rows, values) ==
  {keys \in [rows -> values] :
     /\ \A i, j \in rows : keys[i] = keys[j] => i = j
     /\ engine = "PostgreSQL" => \A i, j \in rows : i < j => keys[i] < keys[j]
     /\ engine = "MySQL" => \A i, j \in rows : keys[j] - keys[i] = j - i}

\* OUTPUT src.__corr, INSERTED.key: a row for each inserted one, in no order.
Output(keys) == {<<i, keys[i]>> : i \in DOMAIN keys}

\* Mutant: the n-th row of the OUTPUT, which come by their keys, is taken for the n-th
\* of the list.
ByPosition(keys) ==
  CHOOSE sorted \in [DOMAIN keys -> {keys[i] : i \in DOMAIN keys}] :
     \A i, j \in DOMAIN keys : i < j => sorted[i] < sorted[j]

\* SQL Server: byCorrelation.
ByCorrelation(keys) ==
  [i \in DOMAIN keys |-> (CHOOSE out \in Output(keys) : out[1] = i)[2]]

\* PostgreSQL: the rows of RETURNING as they come.
AsReturned(keys) == keys

\* MySQL: LAST_INSERT_ID() is the key of the first row.
FromLastInsertId(keys, first) == [i \in DOMAIN keys |-> keys[first] + (i - first)]

Retrieved(engine, keys, first) ==
  CASE engine = "SQLServer" -> ByCorrelation(keys)
    [] engine = "PostgreSQL" -> AsReturned(keys)
    [] engine = "MySQL" -> FromLastInsertId(keys, first)
=============================================================================
