----------------------------- MODULE OrpheusTable -----------------------------
(***************************************************************************)
(* One OrpheusTable<T> (OrpheusCore/Core/OrpheusTable.cs) used by one      *)
(* caller over one connection: the records in memory, the index that maps  *)
(* a record to its position, the three queues of pending changes, and Save *)
(* (SaveAsync takes the same steps), which sends the queues in batches of  *)
(* BatchSize rows inside a transaction.  A record is an object with an     *)
(* identity: the caller keeps changing its properties after it was added,  *)
(* while the queues hold the values captured when it was queued.           *)
(***************************************************************************)
EXTENDS TableRows, KeyRetrieval, FiniteSets

CONSTANTS
  Records,       (* identities of model instances                          *)
  MaxKey,        (* bound: keys are 1..MaxKey, handed out in order         *)
  MaxData,       (* bound: records in memory                               *)
  MaxPending,    (* bound: entries in the three queues together            *)
  Calls,         (* the optional steps that the caller takes, see below    *)
  InitialRows,   (* bound: rows in the database at the start               *)
  BatchSize,     (* rows per round trip                                    *)
  DbGenerated,   (* hasAutoGeneratedKeys: the database assigns the keys    *)
  Engines,       (* the engines, any of which may run each command         *)
  Faults         (* what can go wrong in the environment, see below        *)

AllFaults == { "roundTrip",     (* the provider throws on a command        *)
               "beforeModify",  (* a handler of OnBeforeModify throws      *)
               "afterModify",   (* a handler of OnAfterModify throws       *)
               "beforeSave",    (* a handler of OnBeforeSave throws        *)
               "afterSave",     (* a handler of OnAfterSave throws         *)
               "cancel" }       (* the token of SaveAsync is cancelled     *)

AllCalls == { "assign", "assignKey", "update", "delete", "load" }

(* The properties of a record, and what a queue captures of it.            *)
Object == [key : Keys \cup {None}, val : Vals]
Entry == [rec : Records, key : Keys \cup {None}, val : Vals]
DeleteEntry == [rec : Records, key : Keys \cup {None}]
Pending == [del : Seq(DeleteEntry), upd : Seq(Entry), ins : Seq(Entry)]

ASSUME TableAssumption ==
  /\ MaxKey \in Nat /\ Keys = 1..MaxKey
  /\ MaxData \in Nat /\ MaxPending \in Nat /\ InitialRows \in 0..MaxKey
  /\ BatchSize \in Nat \ {0}
  /\ DbGenerated \in BOOLEAN
  /\ Engines \subseteq AllEngines /\ Engines # {}
  /\ Faults \subseteq AllFaults /\ Calls \subseteq AllCalls
  /\ None \notin Records /\ None \notin Object /\ None \notin Pending

VARIABLES
  obj,                  (* the heap: properties of every constructed record *)
  data,                 (* the list of records in memory                    *)
  indexedData,          (* record -> its position in data, 0 if not indexed *)
  deleteCommandValues,  (* the queue of pending deletes                     *)
  updateCommandValues,  (* the queue of pending updates                     *)
  insertCommandValues,  (* the queue of pending inserts                     *)
  modified,             (* the Modified flag                                *)
  db,                   (* the committed rows                               *)
  txRows,               (* the rows as the connection sees them             *)
  txOpen,               (* the connection has an open transaction           *)
  nextKey,              (* next value of the key generator or identity      *)
  pc,                   (* where Save is                                    *)
  pos,                  (* rows of the current queue sent so far            *)
  began,                (* the queues when Save began; None outside         *)
  result                (* how the last Save ended                          *)

memory == <<data, indexedData>>
queues == <<deleteCommandValues, updateCommandValues, insertCommandValues>>
store  == <<db, txRows, txOpen>>
saving == <<pc, pos, began, result>>
vars   == <<obj, memory, queues, modified, store, nextKey, saving>>

Queues == [del |-> deleteCommandValues, upd |-> updateCommandValues,
           ins |-> insertCommandValues]

Idle == pc = "idle"

Room == Len(deleteCommandValues) + Len(updateCommandValues)
           + Len(insertCommandValues) < MaxPending

-----------------------------------------------------------------------------
Init ==
  /\ \E n \in 0..InitialRows :
        /\ nextKey = n + 1
        /\ db \in {t \in Rows : \A k \in Keys : t[k] # None <=> k <= n}
  /\ txRows = db /\ txOpen = FALSE
  /\ obj = [r \in Records |-> None]
  /\ data = <<>> /\ indexedData = [r \in Records |-> 0]
  /\ deleteCommandValues = <<>>
  /\ updateCommandValues = <<>>
  /\ insertCommandValues = <<>>
  /\ modified = FALSE
  /\ pc = "idle" /\ pos = 0 /\ began = None /\ result = "none"

-----------------------------------------------------------------------------
(***************************************************************************)
(* The caller's own steps on its objects.                                  *)
(***************************************************************************)

\* new T { ... }: the key is left empty or is one that was handed out before.
Construct(r, k, v) ==
  /\ Idle /\ obj[r] = None
  /\ k # None => k < nextKey /\ ~DbGenerated
  /\ obj' = [obj EXCEPT ![r] = [key |-> k, val |-> v]]
  /\ UNCHANGED <<memory, queues, modified, store, nextKey, saving>>

\* record.Property = v, without a call of the table.
Assign(r, v) ==
  /\ "assign" \in Calls
  /\ Idle /\ obj[r] # None /\ obj[r].val # v
  /\ obj' = [obj EXCEPT ![r].val = v]
  /\ UNCHANGED <<memory, queues, modified, store, nextKey, saving>>

\* record.Key = k: a primary key that the caller edits.
AssignKey(r, k) ==
  /\ "assignKey" \in Calls
  /\ Idle /\ obj[r] # None /\ ~DbGenerated
  /\ k < nextKey /\ obj[r].key \notin {None, k}
  /\ obj' = [obj EXCEPT ![r].key = k]
  /\ UNCHANGED <<memory, queues, modified, store, nextKey, saving>>

-----------------------------------------------------------------------------
(***************************************************************************)
(* Add, Update and Delete.                                                 *)
(***************************************************************************)

\* The parameter values of an insert or update; a key that the database generates is
\* not among them, neither as a column nor, for an update, as the row to look for.
Snapshot(r, o) ==
  [rec |-> r, key |-> IF DbGenerated THEN None ELSE o.key, val |-> o.val]

\* A record that is added with an empty key gets a new one from the key generator,
\* unless the database will assign it.
NeedsKey(r) == obj[r].key = None /\ ~DbGenerated

Keyed(r) == IF NeedsKey(r) THEN [obj[r] EXCEPT !.key = nextKey] ELSE obj[r]

\* How processModifiedRecord ends: it returns, or a handler throws before or after
\* the record is queued; the caller's "modified = true" is then not reached.
Endings == {"returns"} \cup (Faults \cap {"beforeModify", "afterModify"})

\* data.Add comes before indexedData.Add, which throws for a record that is indexed.
Add(r, ending) ==
  /\ Idle /\ obj[r] # None /\ Room /\ Len(data) < MaxData
  /\ NeedsKey(r) => nextKey <= MaxKey
  /\ data' = Append(data, r)
  /\ \/ /\ indexedData[r] # 0
        /\ UNCHANGED <<indexedData, obj, nextKey, insertCommandValues, modified>>
     \/ /\ indexedData[r] = 0
        /\ indexedData' = [indexedData EXCEPT ![r] = Len(data')]
        /\ IF ending = "beforeModify"
           THEN UNCHANGED <<obj, nextKey, insertCommandValues>>
           ELSE /\ obj' = [obj EXCEPT ![r] = Keyed(r)]
                /\ nextKey' = IF NeedsKey(r) THEN nextKey + 1 ELSE nextKey
                /\ insertCommandValues' =
                      Enqueue(insertCommandValues, Snapshot(r, Keyed(r)))
        /\ modified' = (modified \/ ending = "returns")
  /\ UNCHANGED <<deleteCommandValues, updateCommandValues, store, saving>>

WithoutPosition(s, n) ==
  [i \in 1..(Len(s) - 1) |-> IF i < n THEN s[i] ELSE s[i + 1]]

\* The positions of the records behind the removed one are not adjusted, so a
\* position can name another record or none; RemoveAt throws in the second case.
Delete(r, ending) ==
  /\ "delete" \in Calls
  /\ Idle /\ obj[r] # None /\ Room
  /\ indexedData[r] <= Len(data)
  /\ data' = IF indexedData[r] = 0 THEN data
                                   ELSE WithoutPosition(data, indexedData[r])
  /\ indexedData' = [indexedData EXCEPT ![r] = 0]
  /\ deleteCommandValues' = IF ending = "beforeModify" THEN deleteCommandValues
                            ELSE Enqueue(deleteCommandValues,
                                         [rec |-> r, key |-> obj[r].key])
  /\ modified' = (modified \/ ending = "returns")
  /\ UNCHANGED <<obj, updateCommandValues, insertCommandValues, store, nextKey,
                 saving>>

\* The UPDATE is addressed with the key the record has now: data[idx] was just set to
\* the record itself, so it is never found to have another key than the record.
Update(r, ending) ==
  /\ "update" \in Calls
  /\ Idle /\ obj[r] # None /\ Room
  /\ indexedData[r] <= Len(data)
  /\ data' = IF indexedData[r] = 0 THEN data
                                   ELSE [data EXCEPT ![indexedData[r]] = r]
  /\ updateCommandValues' = IF ending = "beforeModify" THEN updateCommandValues
                            ELSE Enqueue(updateCommandValues, Snapshot(r, obj[r]))
  /\ UNCHANGED <<obj, indexedData, deleteCommandValues, insertCommandValues,
                 modified, store, nextKey, saving>>

-----------------------------------------------------------------------------
(***************************************************************************)
(* Load and ClearData leave the queues alone, and loaded records are not   *)
(* indexed.  The filter may select any of the rows; a reader that fails    *)
(* half way leaves what it had read, which is a Load of fewer rows.        *)
(***************************************************************************)
Unborn == {r \in Records : obj[r] = None}

\* The sequences that list every element of S once.
Listings(S) ==
  {s \in [1..Cardinality(S) -> S] : \A x \in S : \E i \in DOMAIN s : s[i] = x}

\* loadData: the i-th row that was read is the record recAt[i], appended to the list.
ReadRows(kept, keyAt, recAt) ==
  /\ Len(kept) + Len(recAt) <= MaxData
  /\ obj' = [r \in Records |->
               IF \E i \in DOMAIN recAt : recAt[i] = r
               THEN LET k == keyAt[CHOOSE i \in DOMAIN recAt : recAt[i] = r]
                    IN [key |-> k, val |-> txRows[k]]
               ELSE obj[r]]
  /\ data' = kept \o recAt

Load(clearExistingData) ==
  /\ "load" \in Calls
  /\ Idle
  /\ \E selected \in SUBSET {k \in Keys : txRows[k] # None}, new \in SUBSET Unborn :
        /\ Cardinality(new) = Cardinality(selected)
        /\ \E keyAt \in Listings(selected), recAt \in Listings(new) :
              ReadRows(IF clearExistingData THEN <<>> ELSE data, keyAt, recAt)
  /\ indexedData' = IF clearExistingData THEN [r \in Records |-> 0]
                                         ELSE indexedData
  /\ UNCHANGED <<queues, modified, store, nextKey, saving>>

ClearData ==
  /\ "load" \in Calls
  /\ Idle
  /\ data' = <<>> /\ indexedData' = [r \in Records |-> 0]
  /\ UNCHANGED <<obj, queues, modified, store, nextKey, saving>>

-----------------------------------------------------------------------------
(***************************************************************************)
(* Save.                                                                   *)
(***************************************************************************)

\* BeginTransaction, then OnBeforeSave, which is invoked before the try block: a
\* handler that throws leaves the transaction open.
BeginSave ==
  /\ Idle /\ ~txOpen
  /\ txOpen' = TRUE
  /\ pos' = 0
  /\ \/ /\ pc' = "delete" /\ began' = Queues /\ result' = "none"
     \/ /\ "beforeSave" \in Faults
        /\ result' = "failed"
        /\ UNCHANGED <<pc, began>>
  /\ UNCHANGED <<obj, memory, queues, modified, db, txRows, nextKey>>

\* The last row of the chunk that starts after the rows sent so far.
ChunkEnd(q) == IF pos + BatchSize <= Len(q) THEN pos + BatchSize ELSE Len(q)

ChunkRows == (pos + 1)..ChunkEnd(insertCommandValues)

\* The key columns of the rows in the chunk: captured, or handed out by the engine, which
\* draws the values up to last for them and for other sessions.
ChunkKeys(engine, last) ==
  IF DbGenerated
  THEN Assignments(engine, ChunkRows, nextKey..last)
  ELSE {[i \in ChunkRows |-> insertCommandValues[i].key]}

\* Mutant: the last row of a chunk is left out of the command.
SendDeletesButOne ==
  /\ pc = "delete" /\ pos < Len(deleteCommandValues)
  /\ txRows' = DeleteRows(txRows, deleteCommandValues, pos + 1,
                          ChunkEnd(deleteCommandValues) - 1)
  /\ pos' = ChunkEnd(deleteCommandValues)
  /\ UNCHANGED <<obj, memory, queues, modified, db, txOpen, nextKey, pc, began,
                 result>>

\* Mutant: the chunk is empty, and the loop over the chunks does not advance.
SendDeletesForever ==
  /\ pc = "delete" /\ pos < Len(deleteCommandValues)
  /\ txRows' = DeleteRows(txRows, deleteCommandValues, pos + 1, pos)
  /\ UNCHANGED <<obj, memory, queues, modified, db, txOpen, nextKey, pc, pos, began,
                 result>>

SendDeletes ==
  /\ pc = "delete" /\ pos < Len(deleteCommandValues)
  /\ txRows' = DeleteRows(txRows, deleteCommandValues, pos + 1,
                          ChunkEnd(deleteCommandValues))
  /\ pos' = ChunkEnd(deleteCommandValues)
  /\ UNCHANGED <<obj, memory, queues, modified, db, txOpen, nextKey, pc, began,
                 result>>

EndDeletes ==
  /\ pc = "delete" /\ pos = Len(deleteCommandValues)
  /\ deleteCommandValues' = <<>>
  /\ pc' = "update" /\ pos' = 0
  /\ UNCHANGED <<obj, memory, updateCommandValues, insertCommandValues, modified,
                 store, nextKey, began, result>>

\* buildBatchedUpdateCommand finds no @KEY_ value of a key that the database generates.
SendUpdates ==
  /\ pc = "update" /\ pos < Len(updateCommandValues)
  /\ ~DbGenerated
  /\ txRows' = UpdateRows(txRows, updateCommandValues, pos + 1,
                          ChunkEnd(updateCommandValues))
  /\ pos' = ChunkEnd(updateCommandValues)
  /\ UNCHANGED <<obj, memory, queues, modified, db, txOpen, nextKey, pc, began,
                 result>>

\* Mutant: the queue of updates is not cleared.
EndUpdatesKeepingThem ==
  /\ pc = "update" /\ pos = Len(updateCommandValues)
  /\ pc' = "insert" /\ pos' = 0
  /\ UNCHANGED <<obj, memory, queues, modified, store, nextKey, began, result>>

EndUpdates ==
  /\ pc = "update" /\ pos = Len(updateCommandValues)
  /\ updateCommandValues' = <<>>
  /\ pc' = "insert" /\ pos' = 0
  /\ UNCHANGED <<obj, memory, deleteCommandValues, insertCommandValues, modified,
                 store, nextKey, began, result>>

\* Generated keys are written back to the records of the chunk, in row order.
WithGeneratedKeys(q, keys) ==
  [r \in Records |->
     IF \E i \in DOMAIN keys : q[i].rec = r
     THEN [obj[r] EXCEPT !.key = keys[CHOOSE i \in DOMAIN keys : q[i].rec = r]]
     ELSE obj[r]]

\* Mutant: every chunk is committed.
InsertChunkOutside(engine, last, keys) ==
  /\ pc = "insert" /\ pos < Len(insertCommandValues)
  /\ CanInsert(txRows, keys, pos + 1, ChunkEnd(insertCommandValues))
  /\ txRows' = InsertRows(txRows, insertCommandValues, keys, pos + 1,
                          ChunkEnd(insertCommandValues))
  /\ db' = txRows'
  /\ pos' = ChunkEnd(insertCommandValues)
  /\ IF DbGenerated
     THEN /\ obj' = WithGeneratedKeys(insertCommandValues, Retrieved(engine, keys, pos + 1))
          /\ nextKey' = last + 1
     ELSE UNCHANGED <<obj, nextKey>>
  /\ UNCHANGED <<memory, queues, modified, txOpen, pc, began, result>>

\* Mutant: a chunk that is not full is not sent.
InsertFullChunk(engine, last, keys) ==
  /\ pc = "insert" /\ pos < Len(insertCommandValues)
  /\ CanInsert(txRows, keys, pos + 1, ChunkEnd(insertCommandValues))
  /\ txRows' = IF pos + BatchSize > Len(insertCommandValues) THEN txRows
               ELSE InsertRows(txRows, insertCommandValues, keys, pos + 1, pos + BatchSize)
  /\ pos' = ChunkEnd(insertCommandValues)
  /\ IF DbGenerated
     THEN /\ obj' = WithGeneratedKeys(insertCommandValues, Retrieved(engine, keys, pos + 1))
          /\ nextKey' = last + 1
     ELSE UNCHANGED <<obj, nextKey>>
  /\ UNCHANGED <<memory, queues, modified, db, txOpen, pc, began, result>>

InsertChunk(engine, last, keys) ==
  /\ pc = "insert" /\ pos < Len(insertCommandValues)
  /\ CanInsert(txRows, keys, pos + 1, ChunkEnd(insertCommandValues))
  /\ txRows' = InsertRows(txRows, insertCommandValues, keys, pos + 1,
                          ChunkEnd(insertCommandValues))
  /\ pos' = ChunkEnd(insertCommandValues)
  /\ IF DbGenerated
     THEN /\ obj' = WithGeneratedKeys(insertCommandValues, Retrieved(engine, keys, pos + 1))
          /\ nextKey' = last + 1
     ELSE UNCHANGED <<obj, nextKey>>
  /\ UNCHANGED <<memory, queues, modified, db, txOpen, pc, began, result>>

SendInserts ==
  \E engine \in Engines, last \in (nextKey - 1)..MaxKey :
     \E keys \in ChunkKeys(engine, last) : InsertChunk(engine, last, keys)

EndInserts ==
  /\ pc = "insert" /\ pos = Len(insertCommandValues)
  /\ insertCommandValues' = <<>>
  /\ pc' = "commit" /\ pos' = 0
  /\ UNCHANGED <<obj, memory, deleteCommandValues, updateCommandValues, modified,
                 store, nextKey, began, result>>

Commit ==
  /\ pc = "commit"
  /\ db' = txRows /\ txOpen' = FALSE
  /\ pc' = "committed" /\ began' = None
  /\ UNCHANGED <<obj, memory, queues, modified, txRows, nextKey, pos, result>>

\* OnAfterSave runs inside the try block: when a handler throws, the catch block rolls
\* back a transaction that is complete, which throws in its turn.
EndSave ==
  /\ pc = "committed" /\ pc' = "idle"
  /\ \/ result' = "ok"
     \/ "afterSave" \in Faults /\ result' = "failed"
  /\ UNCHANGED <<obj, memory, queues, modified, store, nextKey, pos, began>>

\* The next command must fail: the primary key constraint rejects the rows, the
\* identity column is exhausted, or the update cannot be addressed.
Doomed ==
  \/ /\ pc = "update" /\ pos < Len(updateCommandValues) /\ DbGenerated
  \/ /\ pc = "insert" /\ pos < Len(insertCommandValues)
     /\ \A engine \in Engines, last \in (nextKey - 1)..MaxKey :
           \A keys \in ChunkKeys(engine, last) :
              ~CanInsert(txRows, keys, pos + 1, ChunkEnd(insertCommandValues))

InTransaction == pc \in {"delete", "update", "insert", "commit"}

\* The catch block: the transaction is rolled back and the exception thrown again.
\* The queues that were cleared stay empty, generated keys stay in the records.
FailSave ==
  /\ InTransaction
  /\ "roundTrip" \in Faults \/ Doomed
  /\ txRows' = db /\ txOpen' = FALSE
  /\ pc' = "idle" /\ pos' = 0 /\ began' = None /\ result' = "failed"
  /\ UNCHANGED <<obj, memory, queues, modified, db, nextKey>>

\* SaveAsync hands its own cancelled token to RollbackTransactionAsync, which gives up
\* before it reaches the transaction: it stays open, with what was done in it.
CancelSave ==
  /\ InTransaction
  /\ "cancel" \in Faults
  /\ pc' = "idle" /\ pos' = 0 /\ began' = None /\ result' = "failed"
  /\ UNCHANGED <<obj, memory, queues, modified, store, nextKey>>

-----------------------------------------------------------------------------
\* The steps that Save takes by itself, also when the environment never fails.
ForwardStep ==
  \/ SendDeletes \/ EndDeletes \/ SendUpdates \/ EndUpdates
  \/ SendInserts \/ EndInserts \/ Commit \/ EndSave
  \/ Doomed /\ FailSave

SaveStep == ForwardStep \/ FailSave \/ CancelSave

ObjectStep ==
  \E r \in Records :
     \/ \E k \in Keys \cup {None}, v \in Vals : Construct(r, k, v)
     \/ \E v \in Vals : Assign(r, v)
     \/ \E k \in Keys : AssignKey(r, k)

TableStep ==
  \/ \E r \in Records, ending \in Endings :
        Add(r, ending) \/ Update(r, ending) \/ Delete(r, ending)
  \/ \E clearExistingData \in BOOLEAN : Load(clearExistingData)
  \/ ClearData

Next == ObjectStep \/ TableStep \/ BeginSave \/ SaveStep

\* The thread that is inside Save keeps running it; nothing has to fail.
Fairness == WF_vars(ForwardStep)

Spec == Init /\ [][Next]_vars /\ Fairness

-----------------------------------------------------------------------------
(***************************************************************************)
(* Properties.                                                             *)
(***************************************************************************)

(***************************************************************************)
(* Save, step by step, does what AtomicTable does in one.                  *)
(***************************************************************************)
PendingNow == IF began = None THEN Queues ELSE began

Atomic == INSTANCE AtomicTable WITH rows <- db, pending <- PendingNow

\* The shape of the state of a table (the fields of OrpheusTable<T>), of the rows and
\* of a Save in progress; a queue holds one entry per record, as a Dictionary does.
TypeOK ==
  /\ obj \in [Records -> Object \cup {None}]
  /\ data \in Seq(Records) /\ indexedData \in [Records -> Nat]
  /\ deleteCommandValues \in Seq(DeleteEntry) /\ OncePerRecord(deleteCommandValues)
  /\ updateCommandValues \in Seq(Entry) /\ OncePerRecord(updateCommandValues)
  /\ insertCommandValues \in Seq(Entry) /\ OncePerRecord(insertCommandValues)
  /\ modified \in BOOLEAN
  /\ db \in Rows /\ txRows \in Rows /\ txOpen \in BOOLEAN
  /\ nextKey \in Nat \ {0}
  /\ pc \in {"idle", "delete", "update", "insert", "commit", "committed"}
  /\ pos \in Nat
  /\ began \in Pending \cup {None}
  /\ result \in {"none", "ok", "failed"}

\* The committed rows with the first n entries of one queue applied, and the queues
\* before it applied in full: what a Save without batches would have done.
AfterDeletes(n) == DeleteRows(db, began.del, 1, n)

AfterUpdates(n) ==
  UpdateRows(AfterDeletes(Len(began.del)), began.upd, 1, n)

InsertedKeys ==
  [i \in 1..Len(began.ins) |->
     IF DbGenerated THEN obj[began.ins[i].rec].key ELSE began.ins[i].key]

AfterInserts(n) ==
  InsertRows(AfterUpdates(Len(began.upd)), began.ins, InsertedKeys, 1, n)

\* Wherever a Save has got to, its transaction holds exactly the rows that the entries
\* sent so far make of the committed rows: no batch boundary drops, repeats or
\* reorders an entry (executeDelete, executeUpdate, executeInsert).
BatchesAddUp ==
  /\ pc = "delete" => txRows = AfterDeletes(pos)
  /\ pc = "update" => txRows = AfterUpdates(pos)
  /\ pc = "insert" => txRows = AfterInserts(pos)
  /\ pc = "commit" => txRows = AfterInserts(Len(began.ins))

\* The records in the insert queue were constructed.
InsertsExist ==
  \A i \in DOMAIN insertCommandValues : obj[insertCommandValues[i].rec] # None

\* What a Save in progress relies on: which queues it has cleared, that every record in
\* the insert queue exists, and that the keys inserted so far are distinct and new.
SaveInvariant ==
  /\ pc \in {"idle", "committed"} => began = None /\ pos = 0
  /\ InTransaction => began # None /\ txOpen
  /\ ~txOpen => txRows = db
  /\ pc = "delete" => /\ deleteCommandValues = began.del
                      /\ pos <= Len(deleteCommandValues)
  /\ pc \in {"update", "insert", "commit"} => deleteCommandValues = <<>>
  /\ pc \in {"delete", "update"} => updateCommandValues = began.upd
  /\ pc = "update" => pos <= Len(updateCommandValues)
  /\ pc \in {"insert", "commit"} => updateCommandValues = <<>>
  /\ pc \in {"delete", "update", "insert"} => insertCommandValues = began.ins
  /\ pc = "insert" => pos <= Len(insertCommandValues)
  /\ pc = "commit" => insertCommandValues = <<>> /\ pos = 0
  /\ InsertsExist
  /\ pc = "insert" => CanInsert(AfterUpdates(Len(began.upd)), InsertedKeys, 1, pos)
  /\ pc = "commit" => CanInsert(AfterUpdates(Len(began.upd)), InsertedKeys, 1,
                                Len(began.ins))

IInv == TypeOK /\ SaveInvariant /\ BatchesAddUp

\* When Save is about to commit, the key that an inserted record carries (for a table
\* without generated keys: the key it was queued with) finds the row that was inserted
\* for this record, and no other inserted record has it (applyGeneratedKey pairs the
\* returned keys with the rows of a chunk by position).
InsertedRecordsFindTheirRows ==
  pc = "commit" =>
     \A i \in DOMAIN began.ins :
        /\ InsertedKeys[i] \in Keys
        /\ txRows[InsertedKeys[i]] = began.ins[i].val
        /\ \A j \in DOMAIN began.ins \ {i} : InsertedKeys[j] # InsertedKeys[i]

\* A Save returns or throws: no queue keeps its loop over the chunks from ending.
SaveTerminates == (pc # "idle") ~> (pc = "idle")

\* Whatever the interleaving of calls, batches, failures and cancellations, the
\* committed rows change by a whole Save or not at all, and a Save that fails forgets
\* only whole kinds of change, in the order in which they are sent (Save).
SaveIsAtomic == Atomic!Init /\ [][Atomic!Next]_(Atomic!vars)

(***************************************************************************)
(* What the documentation says and the code does not do.                   *)
(***************************************************************************)

\* A record that was deleted is no longer in memory, and no other record left with it
\* (Delete).
DeleteRemovesTheRecord ==
  [][\A r \in Records, ending \in Endings :
        Delete(r, ending) /\ indexedData[r] # 0 =>
           \A other \in Records \ {r} :
              (\E i \in DOMAIN data : data[i] = other) =>
                 \E i \in DOMAIN data' : data'[i] = other]_vars
=============================================================================
