----------------------------- MODULE OrpheusModule -----------------------------
(***************************************************************************)
(* An OrpheusModule (OrpheusCore/Core/OrpheusModule.cs): tables in a       *)
(* master-detail hierarchy that are filled separately and saved together   *)
(* in one transaction, table by table along their levels.  The detail      *)
(* records refer to their masters by foreign keys, which the database      *)
(* enforces with every command.                                            *)
(*                                                                         *)
(* What OrpheusTable shows is taken for granted: the commands of one table *)
(* act as one, and queues hold one entry per record.  The key of a record  *)
(* is the record itself, known to the program once the record is in keyed; *)
(* of two instances that were read with one key, the caller goes on with   *)
(* the later.  Every detail table knows the key fields of its master (see  *)
(* ModuleTables for when it does).                                         *)
(***************************************************************************)
EXTENDS Integers, Sequences, FiniteSets

CONSTANTS
  Tables,        (* the tables of the module                               *)
  MainTable,     (* the one at the top                                     *)
  Master,        (* table -> its master table, None for the others         *)
  Level,         (* table -> its level                                     *)
  Position,      (* table -> its place in the module's list of tables      *)
  Records,       (* identities of model instances                          *)
  TableOf,       (* record -> its table                                    *)
  DbKeys,        (* the tables whose keys the database generates           *)
  NeverEmpty,    (* those whose foreign key has a type without an empty    *)
                 (* value, an int                                          *)
  None,          (* no master, no key                                      *)
  Stored,        (* the records that may be in the database at the start   *)
  MaxPending,    (* bound: pending changes                                 *)
  MaxListed,     (* bound: main records in memory when further ones are    *)
                 (* read beside them                                       *)
  Calls,         (* the optional steps of the caller                       *)
  Faults         (* what can go wrong in the environment                   *)

AllCalls == {"update", "assignMaster", "delete", "load", "loadByFields", "clear"}

ASSUME ModuleAssumption ==
  /\ IsFiniteSet(Tables) /\ IsFiniteSet(Records)
  /\ MainTable \in Tables /\ None \notin Tables /\ None \notin Records
  /\ Master \in [Tables -> Tables \cup {None}] /\ Master[MainTable] = None
  /\ Level \in [Tables -> Nat] /\ Position \in [Tables -> 1..Cardinality(Tables)]
  /\ \A s, t \in Tables : Position[s] = Position[t] => s = t
  /\ TableOf \in [Records -> Tables]
  /\ DbKeys \subseteq Tables /\ NeverEmpty \subseteq Tables /\ Stored \subseteq Records
  /\ MaxPending \in Nat /\ MaxListed \in Nat
  /\ Calls \subseteq AllCalls /\ Faults \subseteq {"roundTrip"}

VARIABLES
  born,      (* the records that were constructed                          *)
  keyed,     (* the records that carry their key                           *)
  fk,        (* the foreign key that a record carries                      *)
  data,      (* table -> the list of its records in memory                 *)
  index,     (* record -> its position in that list, 0 if not indexed      *)
  del,       (* the pending deletes: a set of records                      *)
  upd, ins,  (* the pending updates and inserts: record and captured key   *)
  rows,      (* the committed rows: key -> foreign key                     *)
  txRows,    (* the rows as the connection sees them                       *)
  pc,        (* where Save is                                              *)
  sent,      (* the tables whose commands of this kind were sent           *)
  began      (* what was pending when Save began                           *)

memory  == <<data, index>>
objects == <<born, keyed, fk>>
queues  == <<del, upd, ins>>
saving  == <<pc, sent, began>>
vars    == <<objects, memory, queues, rows, txRows, saving>>

Entry == [rec : Records, fk : Records \cup {None}]
Of(t) == {r \in Records : TableOf[r] = t}
MasterOf(r) == Master[TableOf[r]]
Listed(s) == {s[i] : i \in DOMAIN s}
Idle == pc = "idle"
Room == Cardinality(del) + Cardinality(upd) + Cardinality(ins) < MaxPending
Pending == [del |-> del, upd |-> upd, ins |-> ins]
OneEach(q) == \A d, e \in q : d.rec = e.rec => d = e
NothingPending == del = {} /\ upd = {} /\ ins = {}

-----------------------------------------------------------------------------
\* Every detail row refers to a row of its master table.
Consistent(t) ==
  \A r \in DOMAIN t :
     IF MasterOf(r) = None THEN t[r] = None ELSE t[r] \in DOMAIN t \cap Of(MasterOf(r))

Init ==
  /\ born = {} /\ keyed = {} /\ fk = [r \in Records |-> None]
  /\ data = [t \in Tables |-> <<>>] /\ index = [r \in Records |-> 0]
  /\ del = {} /\ upd = {} /\ ins = {}
  /\ \E S \in SUBSET Stored :
        rows \in {t \in [S -> Stored \cup {None}] : Consistent(t)}
  /\ txRows = rows
  /\ pc = "idle" /\ sent = {} /\ began = None

-----------------------------------------------------------------------------
(***************************************************************************)
(* Add, Update and Delete of the module's tables.                          *)
(***************************************************************************)

\* The key values of the master's records in memory, in their order (GetKeyValues).
MasterKeys(t) ==
  [i \in DOMAIN data[Master[t]] |->
     IF data[Master[t]][i] \in keyed THEN data[Master[t]][i] ELSE None]

\* An empty foreign key has to be filled in, from the first record of the master table:
\* where the master table has none, First() throws.  An int is never taken for empty: the
\* foreign key stays the key of no master.
MustFill(r, f) == MasterOf(r) # None /\ TableOf[r] \notin NeverEmpty /\ f = None
CannotFill(r, f) == MustFill(r, f) /\ MasterKeys(TableOf[r]) = <<>>
Filled(r, f) == IF MustFill(r, f) THEN MasterKeys(TableOf[r])[1] ELSE f

\* Mutant of Queue: an earlier entry of the record stays.
QueueBesides(q, r, f) == q \cup {[rec |-> r, fk |-> f]}

\* The dictionary keeps one entry per record.
Queue(q, r, f) == {e \in q : e.rec # r} \cup {[rec |-> r, fk |-> f]}

\* The caller can give a new record the key of any master that it knows, or none.
KnownKeys(t) == {None} \cup {m \in keyed : TableOf[m] = t}

Add(r, f) ==
  /\ Idle /\ r \notin born /\ r \notin DOMAIN rows /\ Room
  /\ f \in IF MasterOf(r) = None THEN {None} ELSE KnownKeys(MasterOf(r))
  /\ born' = born \cup {r}
  /\ data' = [data EXCEPT ![TableOf[r]] = Append(@, r)]
  /\ index' = [index EXCEPT ![r] = Len(data'[TableOf[r]])]
  /\ IF CannotFill(r, f)
     THEN UNCHANGED <<keyed, fk, ins>>
     ELSE /\ fk' = [fk EXCEPT ![r] = Filled(r, f)]
          /\ keyed' = IF TableOf[r] \in DbKeys THEN keyed ELSE keyed \cup {r}
          /\ ins' = Queue(ins, r, Filled(r, f))
  /\ UNCHANGED <<del, upd, rows, txRows, saving>>

\* record.ForeignKey = f, without a call of the table.
AssignMaster(r, f) ==
  /\ "assignMaster" \in Calls
  /\ Idle /\ r \in born /\ MasterOf(r) # None
  /\ f \in KnownKeys(MasterOf(r)) /\ f # fk[r]
  /\ fk' = [fk EXCEPT ![r] = f]
  /\ UNCHANGED <<born, keyed, memory, queues, rows, txRows, saving>>

\* The list gets the record at its recorded position, which may have become another's;
\* where the list has become shorter than that, the call throws and changes nothing.
Update(r) ==
  /\ "update" \in Calls
  /\ Idle /\ r \in born /\ Room
  /\ index[r] <= Len(data[TableOf[r]])
  /\ data' = IF index[r] = 0 THEN data
             ELSE [data EXCEPT ![TableOf[r]][index[r]] = r]
  /\ IF CannotFill(r, fk[r])
     THEN UNCHANGED <<fk, upd>>
     ELSE /\ fk' = [fk EXCEPT ![r] = Filled(r, fk[r])]
          /\ upd' = Queue(upd, r, Filled(r, fk[r]))
  /\ UNCHANGED <<born, keyed, index, del, ins, rows, txRows, saving>>

WithoutPosition(s, n) ==
  [i \in 1..(Len(s) - 1) |-> IF i < n THEN s[i] ELSE s[i + 1]]

\* Nothing is done about the details of a master that is deleted.
Delete(r) ==
  /\ "delete" \in Calls
  /\ Idle /\ r \in born /\ Room
  /\ index[r] <= Len(data[TableOf[r]])
  /\ data' = IF index[r] = 0 THEN data
             ELSE [data EXCEPT ![TableOf[r]] = WithoutPosition(@, index[r])]
  /\ index' = [index EXCEPT ![r] = 0]
  /\ del' = del \cup {r}
  /\ UNCHANGED <<objects, upd, ins, rows, txRows, saving>>

-----------------------------------------------------------------------------
(***************************************************************************)
(* Load and ClearData.                                                     *)
(***************************************************************************)

\* The rows of t that refer to one of the masters.
DetailRows(t, masters) == {r \in DOMAIN rows \cap Of(t) : rows[r] \in masters}

\* Mutant of LoadedBy: the keys of the masters are read before any table is loaded.
LoadedByOldMasters(selected) ==
  [t \in Tables |->
     IF t = MainTable THEN selected
     ELSE IF Master[t] = None THEN Listed(data[t])
     ELSE DetailRows(t, Listed(data[Master[t]]))]

\* Module.Load(keys): the main table, then each table with a master in the order of the
\* list, by the master records that are in memory when its turn comes.
LoadedBy(selected) ==
  LET L[t \in Tables] ==
        IF t = MainTable THEN selected
        ELSE IF Master[t] = None THEN Listed(data[t])
        ELSE DetailRows(t, IF Position[Master[t]] < Position[t]
                           THEN L[Master[t]] ELSE Listed(data[Master[t]]))
  IN L

\* Mutant of LoadedByFields: the details of the masters that are kept are forgotten.
LoadedForSelected(selected, kept) ==
  [t \in Tables |->
     IF t = MainTable THEN selected
     ELSE IF Master[t] = MainTable THEN DetailRows(t, selected)
     ELSE Listed(data[t])]

\* Module.Load(fields, operator) and Load(command): the main table, beside the records
\* that are kept, and the details of all its records.
LoadedByFields(selected, kept) ==
  [t \in Tables |->
     IF t = MainTable THEN selected
     ELSE IF Master[t] = MainTable THEN DetailRows(t, kept \cup selected)
     ELSE Listed(data[t])]

Listings(S) ==
  {s \in [1..Cardinality(S) -> S] : \A x \in S : \E i \in DOMAIN s : s[i] = x}

\* The tables in fresh get the rows in loaded as new, unindexed records, those in appended
\* after the records they have; the others keep their lists.
ReadRows(loaded, fresh, appended) ==
  LET before == [t \in Tables |-> IF t \in fresh \ appended THEN <<>> ELSE data[t]]
      read == UNION {loaded[t] : t \in fresh}
  IN /\ \E listing \in [fresh -> UNION {Listings(loaded[t]) : t \in fresh}] :
           /\ \A t \in fresh : listing[t] \in Listings(loaded[t])
           /\ data' = [t \in Tables |->
                         IF t \in fresh THEN before[t] \o listing[t] ELSE before[t]]
     /\ born' = born \cup read /\ keyed' = keyed \cup read
     /\ fk' = [r \in Records |-> IF r \in read THEN rows[r] ELSE fk[r]]
     /\ index' = [r \in Records |->
                    IF r \in read \/ TableOf[r] \in fresh \ appended THEN 0 ELSE index[r]]
     /\ UNCHANGED <<queues, rows, txRows, saving>>

\* The changes that are pending stay so, also those of the rows that are read.
Load(selected) ==
  /\ "load" \in Calls
  /\ Idle
  /\ ReadRows(LoadedBy(selected), {t \in Tables : t = MainTable \/ Master[t] # None}, {})

\* Without clearExistingData, the rows come beside the records that are in memory, also
\* those that are in memory already.
LoadByFields(selected, clearExistingData) ==
  LET kept == IF clearExistingData THEN {} ELSE Listed(data[MainTable])
  IN /\ "loadByFields" \in Calls
     /\ Idle
     /\ clearExistingData \/ Len(data[MainTable]) + Cardinality(selected) <= MaxListed
     /\ ReadRows(LoadedByFields(selected, kept),
                 {t \in Tables : t = MainTable \/ Master[t] = MainTable},
                 IF clearExistingData THEN {} ELSE {MainTable})

ClearData ==
  /\ "clear" \in Calls
  /\ Idle
  /\ data' = [t \in Tables |-> <<>>] /\ index' = [r \in Records |-> 0]
  /\ UNCHANGED <<objects, queues, rows, txRows, saving>>

-----------------------------------------------------------------------------
(***************************************************************************)
(* Save: the deletes from the highest level to the lowest, the updates in  *)
(* the same order, the inserts from the lowest level to the highest; the   *)
(* tables of a level in the order of the list.                             *)
(***************************************************************************)
SameLevel(t) == {s \in Tables : Level[s] = Level[t] /\ Position[s] < Position[t]}
LevelDown(t) == {s \in Tables : Level[s] > Level[t]} \cup SameLevel(t)
LevelUp(t)   == {s \in Tables : Level[s] < Level[t]} \cup SameLevel(t)

\* Mutant of DeletesBefore: the masters first.
DeletesFromTheTop(t) == LevelUp(t)

\* The tables whose deletes, updates, inserts are executed before those of t.
DeletesBefore(t) == LevelDown(t)
UpdatesBefore(t) == LevelDown(t)
InsertsBefore(t) == LevelUp(t)

\* It is the turn of table t.
Turn(t, before) == t \notin sent /\ before \subseteq sent

BeginSave ==
  /\ Idle
  /\ pc' = "delete" /\ sent' = {} /\ began' = Pending
  /\ UNCHANGED <<objects, memory, queues, rows, txRows>>

\* The commands of one table, and whether the foreign keys let them pass.
DeletesOf(t) == del \cap Of(t)
UpdatesOf(t) == {e \in upd : TableOf[e.rec] = t}
InsertsOf(t) == {e \in ins : TableOf[e.rec] = t}

CanDelete(t) ==
  \A r \in DOMAIN txRows \ DeletesOf(t) : txRows[r] \notin DeletesOf(t)

CanRefer(e) == MasterOf(e.rec) = None \/ e.fk \in DOMAIN txRows

CanUpdate(t) ==
  /\ t \in DbKeys => UpdatesOf(t) = {}
  /\ \A e \in UpdatesOf(t) : e.rec \in DOMAIN txRows => CanRefer(e)

CanInsert(t) == \A e \in InsertsOf(t) : e.rec \notin DOMAIN txRows /\ CanRefer(e)

Removed(table, D) == [r \in DOMAIN table \ D |-> table[r]]

Updated(table, entries) ==
  [r \in DOMAIN table |->
     IF \E e \in entries : e.rec = r
     THEN (CHOOSE e \in entries : e.rec = r).fk ELSE table[r]]

Inserted(table, entries) ==
  [r \in DOMAIN table \cup {e.rec : e \in entries} |->
     IF \E e \in entries : e.rec = r
     THEN (CHOOSE e \in entries : e.rec = r).fk ELSE table[r]]

\* Mutant of ExecuteDeletes: the loop does not move on.
ExecuteDeletesAgain(t) ==
  /\ pc = "delete" /\ Turn(t, DeletesBefore(t)) /\ CanDelete(t)
  /\ txRows' = Removed(txRows, DeletesOf(t))
  /\ del' = del \ Of(t)
  /\ UNCHANGED <<objects, memory, upd, ins, rows, pc, sent, began>>

ExecuteDeletes(t) ==
  /\ pc = "delete" /\ Turn(t, DeletesBefore(t)) /\ CanDelete(t)
  /\ txRows' = Removed(txRows, DeletesOf(t))
  /\ del' = del \ Of(t)
  /\ sent' = sent \cup {t}
  /\ UNCHANGED <<objects, memory, upd, ins, rows, pc, began>>

ExecuteUpdates(t) ==
  /\ pc = "update" /\ Turn(t, UpdatesBefore(t)) /\ CanUpdate(t)
  /\ txRows' = Updated(txRows, UpdatesOf(t))
  /\ upd' = upd \ UpdatesOf(t)
  /\ sent' = sent \cup {t}
  /\ UNCHANGED <<objects, memory, del, ins, rows, pc, began>>

\* Keys that the database generates are written back to the records.
ExecuteInserts(t) ==
  /\ pc = "insert" /\ Turn(t, InsertsBefore(t)) /\ CanInsert(t)
  /\ txRows' = Inserted(txRows, InsertsOf(t))
  /\ ins' = ins \ InsertsOf(t)
  /\ keyed' = keyed \cup {e.rec : e \in InsertsOf(t)}
  /\ sent' = sent \cup {t}
  /\ UNCHANGED <<born, fk, memory, del, upd, rows, pc, began>>

\* Mutant of NextPhase: saveUpdates is not called.
NextPhaseWithoutUpdates ==
  /\ pc \in {"delete", "insert"} /\ sent = Tables
  /\ pc' = IF pc = "delete" THEN "insert" ELSE "commit"
  /\ sent' = {}
  /\ UNCHANGED <<objects, memory, queues, rows, txRows, began>>

NextPhase ==
  /\ pc \in {"delete", "update", "insert"} /\ sent = Tables
  /\ pc' = CASE pc = "delete" -> "update"
             [] pc = "update" -> "insert"
             [] pc = "insert" -> "commit"
  /\ sent' = {}
  /\ UNCHANGED <<objects, memory, queues, rows, txRows, began>>

Commit ==
  /\ pc = "commit"
  /\ rows' = txRows
  /\ pc' = "idle" /\ began' = None
  /\ UNCHANGED <<objects, memory, queues, txRows, sent>>

\* The command of the table whose turn it is must fail.
Doomed ==
  \E t \in Tables :
     \/ pc = "delete" /\ Turn(t, DeletesBefore(t)) /\ ~CanDelete(t)
     \/ pc = "update" /\ Turn(t, UpdatesBefore(t)) /\ ~CanUpdate(t)
     \/ pc = "insert" /\ Turn(t, InsertsBefore(t)) /\ ~CanInsert(t)

\* Mutant of FailSave: what was sent before the failure is committed.
FailSaveCommitting ==
  /\ pc # "idle"
  /\ "roundTrip" \in Faults \/ Doomed
  /\ rows' = txRows
  /\ pc' = "idle" /\ sent' = {} /\ began' = None
  /\ UNCHANGED <<objects, memory, queues, txRows>>

\* The catch block: roll back and throw again.  Queues that were executed stay empty.
FailSave ==
  /\ pc # "idle"
  /\ "roundTrip" \in Faults \/ Doomed
  /\ txRows' = rows
  /\ pc' = "idle" /\ sent' = {} /\ began' = None
  /\ UNCHANGED <<objects, memory, queues, rows>>

-----------------------------------------------------------------------------
ForwardStep ==
  \/ \E t \in Tables : ExecuteDeletes(t) \/ ExecuteUpdates(t) \/ ExecuteInserts(t)
  \/ NextPhase \/ Commit
  \/ Doomed /\ FailSave

CallerStep ==
  \/ \E r \in Records, f \in Records \cup {None} : Add(r, f) \/ AssignMaster(r, f)
  \/ \E r \in Records : Update(r) \/ Delete(r)
  \/ \E selected \in SUBSET (DOMAIN rows \cap Of(MainTable)) :
        Load(selected) \/ \E clearExistingData \in BOOLEAN : LoadByFields(selected, clearExistingData)
  \/ ClearData

Next == CallerStep \/ BeginSave \/ ForwardStep \/ FailSave

\* The thread that is inside Save keeps running it; nothing has to fail.
Spec == Init /\ [][Next]_vars /\ WF_vars(ForwardStep)

-----------------------------------------------------------------------------
(***************************************************************************)
(* Properties.                                                             *)
(***************************************************************************)

\* The shape of the module's state; queues hold one entry per record (OrpheusModule and
\* the fields of OrpheusTable<T>).
TypeOK ==
  /\ born \subseteq Records /\ keyed \subseteq born
  /\ fk \in [Records -> Records \cup {None}]
  /\ data \in [Tables -> Seq(Records)] /\ index \in [Records -> Nat]
  /\ del \subseteq born /\ upd \subseteq Entry /\ ins \subseteq Entry
  /\ OneEach(upd) /\ OneEach(ins)
  /\ \A t \in {rows, txRows} : /\ DOMAIN t \subseteq Records
                               /\ t \in [DOMAIN t -> Records \cup {None}]
  /\ pc \in {"idle", "delete", "update", "insert", "commit"}
  /\ sent \subseteq Tables

\* What a Save makes of the rows if all its changes are made at once.
Applied(table, p) == Inserted(Updated(Removed(table, p.del), p.upd), p.ins)

\* The committed rows change by all that was pending in all the tables when Save began,
\* in one step, whatever the order of the tables and whatever fails between (Save).
ModuleSaveIsAtomic == [][rows' # rows => rows' = Applied(rows, began)]_vars

\* A Save whose changes, taken together, keep the foreign keys intact is not rejected: in
\* the order of the levels, no single command violates a foreign key on the way to a
\* state that does not (saveDeletes, saveUpdates, saveInserts).
ConsistentSavesGoThrough == Doomed => ~Consistent(Applied(rows, began))

\* The updates that Save found move no detail to another master, and none is in a table
\* whose keys the database generates, where executeUpdate throws.
PlainUpdates ==
  \A e \in began.upd : /\ TableOf[e.rec] \notin DbKeys
                       /\ e.rec \in DOMAIN rows => e.fk = rows[e.rec]

\* The same where callers also move details, for the Saves that have no such change
\* (saveDeletes, saveUpdates, saveInserts).
PlainSavesGoThrough == Doomed /\ PlainUpdates => ~Consistent(Applied(rows, began))

\* A Save returns or throws: the loops over levels and tables visit every table once.
ModuleSaveTerminates == (pc # "idle") ~> (pc = "idle")

\* Load brings the whole graph: after it, the detail records in memory are the rows of
\* the master records in memory, on every level where the masters were listed before
\* their details; Load by fields does so for the details of the main table, also beside
\* masters that it keeps.
DetailsMatch(t) == Listed(data'[t]) = DetailRows(t, Listed(data'[Master[t]]))

LoadBringsTheWholeGraph ==
  [][\A selected \in SUBSET (DOMAIN rows \cap Of(MainTable)), t \in Tables :
        /\ Load(selected) /\ Master[t] # None => DetailsMatch(t)
        /\ \A clearExistingData \in BOOLEAN :
              LoadByFields(selected, clearExistingData) /\ Master[t] = MainTable
                => DetailsMatch(t)]_vars

-----------------------------------------------------------------------------
(***************************************************************************)
(* The inductive invariant.                                                *)
(***************************************************************************)

\* Foreign keys refer to the right tables, also those that wait to be sent.
Refers(r, f) == IF MasterOf(r) = None THEN f = None ELSE f \in Of(MasterOf(r)) \cup {None}

KeysInvariant ==
  /\ \A r \in Records : Refers(r, fk[r])
  /\ \A e \in upd \cup ins : Refers(e.rec, e.fk)
  /\ \A t \in Tables : \A i \in DOMAIN data[t] : data[t][i] \in Of(t) \cap born
  /\ Consistent(rows) /\ Consistent(txRows)

\* A record that waits to be inserted has no row yet.
InsertsAreNew ==
  /\ \A e \in ins : e.rec \in born /\ e.rec \notin DOMAIN txRows
  /\ pc # "idle" => \A e \in began.ins : e.rec \notin DOMAIN rows

\* What was pending, of the tables whose commands were sent and of the others.
SentOf(D) == {r \in D : TableOf[r] \in sent}
SentEntries(q) == {e \in q : TableOf[e.rec] \in sent}

PendingSet == [del : SUBSET Records, upd : SUBSET Entry, ins : SUBSET Entry]

\* While Save runs, the transaction has the rows that the commands sent so far have made,
\* and the queues have what is left to send.
SaveInvariant ==
  /\ pc # "idle" => /\ began \in PendingSet
                    /\ OneEach(began.upd) /\ OneEach(began.ins)
  /\ pc = "idle" => txRows = rows
  /\ pc = "delete" =>
       /\ txRows = Removed(rows, SentOf(began.del))
       /\ del = began.del \ SentOf(began.del) /\ upd = began.upd /\ ins = began.ins
  /\ pc = "update" =>
       /\ txRows = Updated(Removed(rows, began.del), SentEntries(began.upd))
       /\ del = {} /\ upd = began.upd \ SentEntries(began.upd) /\ ins = began.ins
  /\ pc = "insert" =>
       /\ txRows = Inserted(Updated(Removed(rows, began.del), began.upd),
                            SentEntries(began.ins))
       /\ del = {} /\ upd = {} /\ ins = began.ins \ SentEntries(began.ins)
  /\ pc = "commit" => txRows = Applied(rows, began) /\ NothingPending

IInv == TypeOK /\ KeysInvariant /\ InsertsAreNew /\ SaveInvariant

(***************************************************************************)
(* What the theorems assume of a module, where they need it.               *)
(***************************************************************************)

\* The levels grow from the masters down; the list has the masters before their details.
MastersAbove == \A t \in Tables : Master[t] # None => Level[Master[t]] < Level[t]
MastersListedFirst ==
  \A t \in Tables : Master[t] # None => Position[Master[t]] < Position[t]

\* No caller moves a detail, or updates a record whose key the database generates.
NothingMoves == "assignMaster" \notin Calls /\ ("update" \notin Calls \/ DbKeys = {})

\* Where nothing moves, records refer to what their rows refer to.
FixedMasters ==
  /\ \A r \in born \cap DOMAIN rows : fk[r] = rows[r]
  /\ \A r \in born \cap DOMAIN txRows : fk[r] = txRows[r]
  /\ \A e \in ins : e.fk \in {None, fk[e.rec]}
  /\ \A e \in upd : e.rec \in born /\ e.fk = fk[e.rec] /\ "update" \in Calls
  /\ pc # "idle" =>
       \A e \in began.upd : e.rec \in born /\ e.fk = fk[e.rec] /\ "update" \in Calls
===============================================================================
