# Verification of OrpheusORM

OrpheusORM is an object-relational mapper for .NET.  A caller fills tables of model
instances in memory and saves them in batches; modules group tables in a master-detail
hierarchy and save them in one transaction; schemas create, alter and drop the tables of
an application.  This directory holds TLA+ models of these parts, the configurations
that check them with TLC, and proofs about all of them.

All line numbers refer to the repository's `src/` directory.

## 1. Inventory

| Component | State it keeps | Operations |
|---|---|---|
| `OrpheusTable<T>` (`OrpheusCore/Core/OrpheusTable.cs`) | the list `data`, the index `indexedData` (record to position), three dictionaries of pending commands, the `Modified` flag | `Add`, `Update`, `Delete`, `Load`, `ClearData`, `Save`/`SaveAsync`, `ExecuteDeletes`/`-Updates`/`-Inserts`, four events |
| `OrpheusModule` (`OrpheusModule.cs`) | the list of tables with their masters and levels, the main table | initialisation from a definition, `Load` (by keys, fields, command), `ClearData`, `Save` |
| `OrpheusModuleDefinition` | the options of the tables | read and write as file or row |
| `Schema` (`SchemaBuilder/Schema.cs`) | the list of objects, the cache of registered names, the internal schema | `AddSchemaTable`..., `Execute`, `Drop`, `SchemaObjectExists`, `RegisterSchema` |
| `SchemaObject`, `SchemaDataObject`, `SchemaObjectTable`, views (`SchemaObject.cs`) | `IsCreated`, `Action`, dependencies both ways, fields, constraints, seed data | `Execute`, `Drop`, registration |
| `OrpheusDatabase` | the connection, the open transaction, `LastActiveTransaction` | `Connect`, `Disconnect`, begin, commit, roll back, commands, queries |
| `OrpheusModelHelper` | cached reflection data of a model class | `GetAlterDDLCommands`, creation of fields |
| DDL helpers for SQL Server, MySQL, PostgreSQL | a second connection | existence checks, retrieval of generated keys, SQL dialect |
| Key generators | none (or a random source) | `NewKey` |
| Fields, constraints, joins; attributes; configuration; errors | constant after construction | build SQL text, read settings |
| File logger (`OrpheusLogger`) | current file name, configuration | `Log`, change of configuration |
| Demo API, tests, benchmarks, documentation | | show how the library is called |

How they interact: a table sends its commands through the database's connection inside a
transaction that it, its module, or the caller began, and calls the handlers of its
events on the way.  A module calls `Execute...` of its tables, one table at a time.  A
detail table asks its master table for key values when a record is added.  A schema
object calls the `Execute` and `Drop` of the objects it depends on or that depend on it;
after its own transaction it saves a row through an `OrpheusTable`.  The DDL helpers
answer over a connection of their own, outside any transaction.

What is hard:

* *Partial failure.*  A Save is many round trips.  Memory (queues, records) is not part
  of the transaction that is rolled back.
* *Legal sequences of calls.*  Positions, queues, flags and caches are kept beside the
  data they describe; several legal calls make them disagree.
* *Ordering.*  Foreign keys are checked with every command; tables, levels, options and
  schema objects come in orders that the caller chooses.
* *Restarts.*  A schema is two transactions per table, over applications that stop at
  any point and come back with other models.
* *Cancellation and handlers.*  Both can end a Save at any of its steps.
* *One connection for all.*  Tables, modules and the caller share one connection with one
  open transaction; a SaveAsync gives control back while it waits, so that records are
  added and the connection is lost under it; the answer to a commit can be lost.

`PROJECT.json` lists the hazards at their lines, with the properties that cover them or
the reason why none does.

What makes each component correct, in one sentence each: a table's Save changes the
rows as a whole or not at all, sends every entry once whatever the batch size, and gives
each record the key of its own row; a module's Save does so over all its tables and is
not rejected on the way between two consistent states, and its Load leaves the details
of the masters in memory; initialisation links every table once, tells it the key fields of its
master, and levels it below that one; a schema never leaves a half-made table, makes what its models say, drops what
it made, and keeps its register true; a connection remembers the transaction that is open
on it, ends those that its tables begin, and commits a unit of the caller as a whole and
nothing of it twice.

## 2. The modules

| Module | What it models |
|---|---|
| `TableRows` | rows of a table, queues of entries, and what batched DELETE, UPDATE and INSERT commands make of the rows |
| `KeyRetrieval` | how the three DDL helpers report the keys that the database gave to the rows of a batch |
| `AtomicTable` | the contract of a table (`IOrpheusTable`): Save is one step |
| `OrpheusTable` | `OrpheusTable<T>`, step by step |
| `OrpheusTableProofs` | theorems about `OrpheusTable` and `KeyRetrieval` |
| `OrpheusConnection` | `OrpheusDatabase`'s connection and transactions, with several tables and a caller on it |
| `OrpheusConnectionProofs` | theorems about `OrpheusConnection` |
| `OrpheusModule` | an `OrpheusModule` with its tables, loads and Save |
| `OrpheusModuleProofs` | theorems about `OrpheusModule` |
| `ModuleTables` | `initializeModuleDefinition`: linking and levels |
| `ModuleTablesProofs` | theorems about `ModuleTables` |
| `OrpheusSchema` | `Schema`, `SchemaDataObject`, `SchemaObjectTable`, over restarts |
| `OrpheusSchemaProofs` | the inductive invariant of `OrpheusSchema`, its types, and that tables are whole |
| `OrpheusSchemaCallProofs` | theorems about what the calls of `OrpheusSchema` achieve |
| `SetInduction` | induction over the natural numbers for a set |
| `MCOrpheusTable`, `MCOrpheusConnection`, `MCOrpheusModule`, `MCOrpheusSchema` | the small instances |

**OrpheusTable.**  A record is an object with an identity: `obj` holds its current
properties, which the caller may change after it was added, while the queues hold the
values captured by `processModifiedRecord`.  `indexedData` is the position noted by
`Add`, 0 for records that are not indexed (loaded ones never are).  `Add`, `Update`,
`Delete`, `Load` and `ClearData` are one action each, with the handlers of
`OnBeforeModify`/`OnAfterModify` as a parameter.  Save is `BeginSave`, then per queue a
`Send...` action for each batch and an `End...` action that clears the queue, then
`Commit` and `EndSave`; `FailSave` is the catch block, `CancelSave` the catch block of
`SaveAsync` with its cancelled token.  `db` is what is committed, `txRows` what the
connection sees.  `SaveAsync` awaits each step and takes the same ones.

The refinement: `AtomicTable` has two variables, the rows and the pending changes.  The
detailed state maps to `db` and to `PendingNow`, the queues as they were when the Save
in progress began.  A batch is then a stutter, `Commit` is the atomic Save, and a
failure is the atomic Fail, which may forget whole queues in the order they are sent.

**KeyRetrieval.**  `Assignments` is what an engine may do with the rows of a batched
INSERT: SQL Server's MERGE gives the keys in any order, PostgreSQL in the order of the
list with gaps, as other sessions draw from the same sequence, MySQL consecutively (the
lock mode that the helper's comments count on).  `Retrieved` is what the helper reports:
by the correlation number, as returned, or from `LAST_INSERT_ID()`.  `SendInserts` of
`OrpheusTable` takes every chunk through both.

**OrpheusConnection.**  `active` is the transaction that the engine has open, `last` the
field `LastActiveTransaction`, `rows` what is committed and `work` what the connection
sees; `rows` and `work` count the rows of a record, so that a double insert shows.  Each
table has a Save of its own, in `save`, which is synchronous or not: while it waits,
other actions are interleaved with it.  `Add` while a Save runs is the caller of a
SaveAsync that goes on (`"overlap"`); a second Save then fails to begin its transaction,
as no engine opens two on one connection.  `unit` is a transaction of the caller
(`BeginTransaction`, then `Save(transaction, commit)` of any tables, then a commit or a
rollback through `OrpheusDatabase` or of the transaction itself, `"direct"`).  The `Async`
forms of begin, commit and roll back are two steps each: the provider opens or ends the
transaction, and `LastActiveTransaction` is assigned only when the program is given back
control (OrpheusDatabase.cs:625, 634, 647).  `opening` is the transaction that a
`BeginTransactionAsync` waits for, `ended` those whose commit or rollback has not come back
yet; other steps, also the begin of the next transaction, fall in between.  The fault
model: a command or a commit throws; the connection breaks at any point, also while a
commit is under way, which may or may not have happened (`LoseCommit`, `FailUnit`); a
handler of `OnBeforeSave` throws; a token is cancelled.  Connections come back with
`Connect`.  Of a table only the queue of inserts is kept, as `OrpheusTable` has shown
that the queues are sent alike.

**OrpheusModule.**  Takes what `OrpheusTable` shows for granted: the commands of one
table in one phase are one step.  The key of a record is the record itself; `keyed`
says whether the program knows it yet.  The foreign keys of the database guard every
command (`CanDelete`, `CanUpdate`, `CanInsert`); a command that they reject makes the
Save fail (`Doomed`).  `Load` by keys goes through the levels; `LoadByFields` replaces
what memory holds, or reads beside it without clearExistingData.  Both run with changes
pending too, which stay in the queues; a record read twice is one record here, where the
program has two instances with one key and the caller goes on with the later.  `NeverEmpty`
are the tables whose foreign key is of a type that is never empty, as a non-nullable int
(OrpheusTable.cs:296): a value that the caller leaves out is not filled from the master.
The levels and the positions of the tables are constants here, and every detail knows the
key fields of its master; `ModuleTables` says what the initialisation makes of them.

**ModuleTables.**  The state is the list of tables, who is linked to whom, which tables
know the key fields of their master, and the levels, during the two passes; the initial
states are all trees over the given detail tables in all orders of the options.  A table
that is listed after its master is constructed with it (`ConstructUnder`); the others are
created without one, and the second pass links them by the `MasterTable` setter
(`SetMaster`).  Only the constructor takes `MasterTableKeyFields` from the foreign keys of
the model (OrpheusTable.cs:419-432), so that a table of the second pass has them only if its
options came with them (`Keyed`).  The definition outlives the module: the master that the
first pass finds is written into the option (`optionMaster`, OrpheusModule.cs:111-113), and
the options share their list of key fields with the tables.  `NextModule` makes a further
module from the same definition; a table object is therefore the pair of its module and
its name.  `Above` is a table with its masters of all degrees,
as the least set that is closed under "the master of": this says the same as following the
names upwards, and can be reasoned about without recursion.

**OrpheusSchema.**  `agenda` is what is left of the running `Execute` or `Drop`, `stack`
the objects that are executing, as the code's recursion has them.  `tables` is committed
and `work` is what the DDL transaction sees; `rows` are the rows of
`OrpheusSchemaObject`.  An application lists all its objects or only those that have
changed, as the documentation recommends for updates, and adds dependencies as it goes
or at the end; `declared` is what `AddDependency` found by then, `DependsOn` what the
foreign keys refer to.  `AlterCommands` computes, for a table and a model, the columns
after each ALTER command that `GetAlterDDLCommands` would return.  Seed data is inserted
with a CREATE, and again after each ALTER command, where the rows that are there reject
it (`Reseeds`).  `Restart` is a new instance of the application, of any release and with
any of its schemas, at any moment (in the middle of a call it is a crash).  `Accepted`
says what the engine demands of a command; the engines are SQL Server and PostgreSQL,
whose transactions cover DDL.  They reject an ALTER that drops or retypes a column under a
unique key, as SQL Server does.

## 3. What the runs check

| Run | Instance | Properties |
|---|---|---|
| `table_calls` | two records, two keys, one value, batches of one, every call and every fault | `TypeOK`, `BatchesAddUp`, `SaveIsAtomic`, `SaveTerminates` |
| `table_generated` | three records with keys of the database out of five, the three engines, batches of two, failing round trips, reassigned values | `InsertedRecordsFindTheirRows`, `BatchesAddUp`, `SaveIsAtomic` |
| `connection` | two tables with two and one records, batches of one, four transactions, two fault models | `TypeOK`, `OpenTransactionIsLast`, `GoesStaleOnlyByLoss`, `CommittedOnce`, `UnitIsHeldBack`, `SuccessMeansSaved`, `OwnTransactionsEnd` |
| `module_changes` | two orders, a line and a part on three levels; adds, updates, deletes, loads | `ConsistentSavesGoThrough`, `ModuleSaveIsAtomic`, `LoadBringsTheWholeGraph` |
| `module_pair` | two orders and a line; every call | `TypeOK`, `PlainSavesGoThrough`, `ModuleSaveIsAtomic`, `LoadBringsTheWholeGraph`, `ModuleSaveTerminates` |
| `module_definition` | two modules from one definition: every tree of four detail tables, every order of options, one with key fields in its options | `LinksFollowTheDefinition`, `KeyFieldsFollowTheOrder`, `LevelsCountTheMasters` |
| `schema_calls` | three tables with dependencies, one with seed data, three releases, seven schemas, two calls per instance, one fault | `TypeOK`, `TablesAreWhole`, `FirstCallsAreAccepted`, `ExecuteMakesTheSchema`, `FreshDropLeavesNothing`, `RowsMatchTables`, `CallsEnd` |

Five runs show a disagreement between the code and what it says of itself; TLC finds a
behaviour that violates the property:

* `v_delete_other`: positions go stale after a Delete, and the next Delete takes another
  record out of the list.
* `v_orphan`: a SaveAsync whose token is cancelled leaves its transaction open, as the
  rollback gets the cancelled token too.
* `v_option_order`: with the options in an unlucky order, a table gets a level that is
  not below its master's, and could be inserted first.
* `v_schema_drop`: Drop of a Schema that has executed does nothing.
* `v_schema_registration`: a table whose registration was lost to a crash is never
  registered again.

**Bounds.**  `MaxKey`, `MaxData`, `MaxPending` and `InitialRows` bound a table;
`MaxTx` bounds a connection; `MaxPending` bounds a module, with `MaxListed` for the list
of its main table; `MaxModules` bounds the modules made from one definition; `MaxCalls` and `MaxFaults`
bound a schema.  Two records are enough for the interesting cases of the index and the
queues (a second record whose position has moved, two entries of one queue, one entry in
each of two queues); with batches of one, every entry is a batch and a failure can fall
between any two.  Three entries and batches of two, in `table_generated`, give one full
and one short batch, the two cases the loop distinguishes, and five keys leave room for
gaps and for a failed Save before.  The proofs remove these bounds for the table.  On a
connection, two tables are the least that can share a transaction or get in each other's
way; a table with two records has a Save of two batches and a record that comes too late
for the copy; four transactions are a failed one, a retry, a unit, and one after it, and
let a transaction begin while the answers to two earlier ones are still awaited.  The
two fault models are a provider that fails and a caller that fails, each with a
connection that breaks; the proofs hold for all of them at once, and without the bounds.
A module needs three levels for the order of levels to matter, and two records of a table
for the wrong master to exist; as foreign keys relate records in pairs, two pending
changes are enough for every pair of commands to come in the wrong order.  Four detail
tables are the first number at which a link of the second pass can come both before and
after the one it depends on; a third module would do what the second does, as the options
change no more.  For a schema, three tables make a chain with a shortcut;
the first release, the last, and one with one model ahead have all kinds of change, forwards
and back; the schemas are lists with dependencies in order, in reverse and in between,
added in time and too early, and lists of a single object; two calls of an instance let
its flags and its cache matter, and one fault is enough as no step repairs what an earlier
one broke: two faults would concern two separate calls.

**Stopping.**  The runs of tables, connections, modules and definitions say
`CHECK_DEADLOCK FALSE`: the caller may stop, uses up the bounds, and the initialisation
ends.  A schema always can be restarted, so its runs check for deadlock.

**Fairness.**  Weak fairness of `ForwardStep` (`Progress` in `OrpheusSchema`, `SaveStep`
of each table in `OrpheusConnection`): the thread that is inside Save, Execute or Drop, or
the task of a SaveAsync, keeps running.  The code is sequential inside these calls and
waits for nothing but the database, and each round trip returns or fails.  No fairness is
assumed for callers, failures or cancellation; nor does anything make a caller end its
unit, which is why `OwnTransactionsEnd` speaks of the transactions of Saves only.

## 4. What is proved

`OrpheusTableProofs` proves, for every set of records, keys and values, every set of the
three engines, every `BatchSize` and every bound:

* `TypeCorrect`: `TypeOK` always holds.
* `BatchesAreCorrect`: `BatchesAddUp` always holds.
* `InsertsAreFound`: `InsertedRecordsFindTheirRows` always holds.
* `HelpersReportTheKeys`: for each engine, each batch and each way the engine hands out
  its keys, the helper reports for every row the key of that row.
* `Atomicity`: `SaveIsAtomic`, that every step of the table maps to a step of
  `AtomicTable` or to a stutter.
* `Invariant`: `IInv`, from which they follow.

The assumptions are `TableAssumption` and the assumption on `None` of `TableRows`: the
bounds are natural numbers, `BatchSize` is at least one, `None` is not a value, the engines
are the three.  TLC evaluates both with every run of the table.

`BatchesAddUp` is not inductive by itself.  `IInv` adds to it and to `TypeOK` the
`SaveInvariant`: at each place of Save, which queues are still what they were when it
began and which are cleared, how far `pos` can be, and that the keys inserted so far are
distinct and were free in the rows before the inserts.  The last part is what lets a
further chunk be appended to the rows that the entries so far have made.  The lemmas
split the commands of a chunk from the commands before it (a DELETE, UPDATE or INSERT of
the entries 1..n followed by one of n+1..m is one of 1..m), so that a `Send...` step
extends the equation of `BatchesAddUp` by a chunk and an `End...` step hands it to the
next queue.  `InsertedRecordsFindTheirRows` follows from the equation at the commit, from
the distinct keys, and from `HelpersReportTheKeys`.  For `Atomicity`, the equation at the
commit is the atomic Save; the queues that a failing step leaves are, by `SaveInvariant`,
those that the atomic Fail allows.

`OrpheusConnectionProofs` proves, for every set of tables and records, every batch size,
every number of transactions, every choice of the caller's steps and every fault model,
from `ConnectionAssumption`:

* `ConnectionTypeCorrect`: `TypeOK` always holds.
* `LastTransactionIsTheOpenOne`: `OpenTransactionIsLast` always holds: the open transaction
  is `LastActiveTransaction`, or the one that `BeginTransactionAsync` still waits for.
* `OnlyLossLeavesItStale`: the action property `GoesStaleOnlyByLoss`, that the field is left
  at a transaction that is gone only by a loss of the connection or a call of the
  transaction itself.
* `NothingIsCommittedTwice`: `CommittedOnce` always holds.
* `UnitsAreHeldBack`: `UnitIsHeldBack` always holds.
* `SuccessIsCommitted`: the action property `SuccessMeansSaved`.

The inductive invariant is `IInv` of `OrpheusConnection`.  `CommittedOnce` needs to know
why a record in a queue cannot be in the transaction that is about to be committed: it is
in `work` only if the Save in progress has sent it and will drop it from the queue before
it commits, or if the Save that sent it has failed in a unit that can then only be rolled
back (`WaitingInvariant`).  `AwaitInvariant` says that the transaction that
`BeginTransactionAsync` waits for is the open one unless it is lost, that nothing has been done
in it yet, and that none that ended is open.  `CommittedOnce` in turn needs that at most one Save works in the open
transaction and what it has sent (`SaveInvariant`), and that `work` never holds a record
twice (`RowsInvariant`).  Lemma `MayCommit` draws the conclusion once for the five places
where a transaction may be committed, and `ClosingKeeps` treats every step that ends the
open transaction, by commit, rollback or loss.

`OrpheusModuleProofs` proves, from `ModuleAssumption` (in particular for every hierarchy,
number of levels, set of records and choice of calls):

* `ModuleTypes`: `TypeOK` always holds.
* `ModuleAtomicity`: the action property `ModuleSaveIsAtomic`.
* `ConsistentSaves`: `ConsistentSavesGoThrough` always holds, where the levels grow from
  the masters down (`MastersAbove`) and the callers move no detail (`NothingMoves`).
* `PlainSaves`: `PlainSavesGoThrough`, the same for the Saves that move no detail where
  others may; it assumes `MastersAbove` only.
* `WholeGraph`: the action property `LoadBringsTheWholeGraph`, where the list of tables has
  the masters first (`MastersListedFirst`).

The inductive invariant `IInv` says, for each phase of Save, what the transaction and the
queues are in terms of what was pending at the start and of the tables sent so far
(`SaveInvariant`), so that `ModuleSaveIsAtomic` can be read off at the commit; that
foreign keys in memory, in the queues and in the rows refer to the right tables
(`KeysInvariant`); and that what waits to be inserted has no row (`InsertsAreNew`).  For
`ConsistentSaves` and `PlainSaves`, a command that the database rejects is traced to a row
of what the Save as a whole would make, one whose master is missing: the levels tell which
commands of the other tables have been sent by then.  `WholeGraph` goes along the list: when
a table is read, what its master will hold is already final.  The hypotheses are about the
hierarchy and the callers, they are true of the instances (`HierarchyAssumption` of
`MCOrpheusModule`, evaluated with every run), and none can go: without `MastersAbove` a
detail may be inserted first (`v_option_order` shows such levels); a detail that moves to
a new master is updated before that master is inserted; and a table that is listed before
its master is loaded for the former masters.

`ModuleTablesProofs` proves, from `TablesAssumption`, for every number of tables, every
hierarchy and every order of the options:

* `DefinitionIsFollowed`: `LinksFollowTheDefinition` always holds: the first module made
  from a definition follows it, and a further one where a table is listed before its
  master; the others hang off the first module's tables.
* `KeyFieldsAreTheConstructors`: `KeyFieldsFollowTheOrder` always holds.
* `LevelsAreCounted`: `LevelsCountTheMasters` always holds.
* `LevelsGrow`: `MastersAreAbove`, that a table is below its master where all its masters
  are listed after their own.  Where the definition does this for every table, this is
  `MastersAbove`, so that `PlainSaves` applies to the module that results.

The inductive invariant `IInv` says that the list has the tables in the order of the options
(`ListInvariant`); that `DetailTables` and `MasterTable` are inverse to each other, each
detail once (`DetailsInvariant`); that the options of the tables listed after their masters
have the first module's, and their key fields, from the moment the table is created
(`OptionsInvariant`); which tables are linked, to whom and by when, in this module and those
before it (`LinksInvariant`); and that a table whose masters are in order has its level as
soon as it is linked, as these are linked in the first pass and before it
(`LevelsInvariant`).  The masters of a table are those of its
master with that one added, which is a fact about closed sets (`Above`) and about the
cardinality of finite sets.

`OrpheusSchemaProofs` and `OrpheusSchemaCallProofs` prove, from `SchemaAssumption`, for
every set of objects with any foreign keys, every set of models, releases and schemas,
every number of calls, failures, lost answers and crashes:

* `SchemaTypes`: `TypeOK` always holds.
* `WholeTables`: `TablesAreWhole` always holds.
* `FreshDrop`: `FreshDropLeavesNothing` always holds.
* `SchemaRowFirst`: no object has a row before the schema has one.
* `ListedTables`: `RowsMatchTables` always holds, under `~Retries`.
* `ExecutedSchema`: `ExecuteMakesTheSchema` always holds, under `~Retries` and
  `KeysComeWithColumns`.
* `FirstCalls`: `FirstCallsAreAccepted` always holds, where the foreign keys are `Acyclic`.

The inductive invariant `IInv` has the shape of the instance (`InstanceInvariant`); of the
stack, where only the innermost object can be beyond its visits, and of the agenda
(`StackInvariant`); and what an open transaction has made of the tables (`WorkInvariant`):
nothing of any other object, and of the executing one, after its last command, what its
model says, to which the commands that `AlterCommands` computes lead.  This last fact is
about the operators alone and is proved as a lemma of its own, with the sequences of
columns that `AlterCommands` builds.  `TablesAreWhole` is then carried by each commit.

On top of it come four further invariants.  `DropInvariant`: what is still a table in a
first Drop waits in the agenda or executes.  `RowsInvariant`: the register is behind by
the object between its two transactions, and no name in the cache is of an object that the
call can still drop or create; from this `ListedTables`.  `ExecuteInvariant`: a set flag
`IsCreated` means that the table is as the model has it, and what is not so yet waits.
`FirstCallInvariant`: what a CREATE needs, or a DROP has to see gone, is done, is still to
be visited, or is right above on the stack; the objects on the stack are ordered by a
rank that follows the foreign keys, so that no object waits for itself.

What the hypotheses leave out is in the code.  `~Retries`: an instance that has thrown is
not called again.  Its flags may be set for tables that were rolled back, and its cache may
hold names that a Drop had removed before it threw: with `Retries = TRUE`, TLC violates
`ExecuteMakesTheSchema` on the instance of `schema_calls`, and `RowsMatchTables` when a
schema that lists only the lines and the customers is added to it.
`KeysComeWithColumns`: two models with the same columns have the same unique keys;
`GetAlterDDLCommands` has no command for a change of keys alone, so that such a change is
never made (TLC violates `ExecuteMakesTheSchema` with one).  `Acyclic`: with a cycle,
Execute visits without end, as flags are set only after the visits.  `ModelsAssumption` of
`MCOrpheusSchema` says all three of the instances, and is evaluated with every run.

`SetInduction` derives induction in the form of a statement about a set from the
library's facts about well-founded relations, as the induction theorems with an operator
as their parameter cannot be used by the provers here.  The proof of `WholeGraph` uses it to
show that the function by which a Load goes through the list of tables is defined.

Only model-checked: the liveness properties (`SaveTerminates`, `OwnTransactionsEnd`,
`ModuleSaveTerminates`, `CallsEnd`), which need fairness and ENABLED, and the five
violations.  Every invariant and every action property of a passing run, and the
refinement, is proved.

## 5. What is not modelled

* MySQL's commit with every DDL command: with it a failure between CREATE TABLE and its
  constraints leaves a table without them, and a later Execute finds the columns as they
  should be and adds nothing, so that neither `TablesAreWhole` nor `ExecuteMakesTheSchema`
  holds.
* RawDDL, which is one command with any effect; lookups of `AddDependency` in referenced
  schemas, which end in `AddDependency(null)` and add nothing (SchemaObject.cs:257).
* `OrpheusModuleDefinition` in a file or in the database: the row goes to `ORPH_MODULES`
  (OrpheusModuleDefinition.cs:204), a table that nothing in the library creates.
* A foreign key of a table to itself, which is no dependency between objects.
* Several key fields of a table.  Reference tables of a module are created by its
  initialisation, and none of its operations reads or changes them.
* Reflection, SQL text, configuration, registration of services, views: no state that
  changes, or no control beyond the text they build.
* The file logger: its state is text in files, beside the path of the data.
* The scripts of the documentation site (`OrpheusDocumentation/styles/*.js`,
  `docs/public/main.js`): the output of a documentation generator with its bundled search
  library, the only JavaScript in the repository and no part of the program, which is
  written in C#.

Reading the code beside the models showed more places where it differs from what its
documents say, which the models contain as steps but no run is spent on:

* A handler of `OnBeforeSave` that throws leaves the transaction open
  (OrpheusTable.cs:1627), as the cancelled `SaveAsync` of `v_orphan` does (1767).
* A handler of `OnAfterSave` that throws makes Save throw although the rows have changed
  (1635).
* A failed Save has already forgotten the queues it sent (765); the next Save does not
  send them.  A caller that rolls a unit back has lost its changes likewise.
* A record that is added while a SaveAsync waits is dropped with the queue it was too late
  for (787).
* A record that is added and deleted before Save is inserted by it (1578); one that is
  added and then updated is saved with its first values (1606); `Modified` is not set by
  Update.
* The update of a record whose key was edited is addressed to the new key (1153); an
  update in a table whose keys the database generates has no key value (1120) and makes
  Save throw (836).
* A detail row that moves to a new master is rejected, as updates are sent before
  inserts (OrpheusModule.cs:286); a table listed before its master is loaded for the
  former masters (309); Load by fields leaves the third level alone (339); details of a
  master whose key the database generates are saved without it.
* A detail table that is listed before its master gets no key fields when it is linked
  (OrpheusTable.cs:1458; only the constructor reads them, 419-432): Load builds an empty
  WHERE for it (627), and Add fills no foreign key (320).  `KeyFieldsFollowTheOrder` says for
  which tables.
* A definition that is used for a second module keeps the first module's tables as the
  masters (OrpheusModule.cs:113).  `LinksFollowTheDefinition` says for which tables.
* `IsCreated` is set before the commit (SchemaObject.cs:712), so that a call repeated
  after a failure returns without doing anything.
* `AddDependency<T>` of a model that is listed later adds nothing (SchemaObject.cs:233), so
  that the CREATE is rejected, although the documentation says that Execute resolves the
  dependencies (orpheus_creating_schema.md:172).
* A table with seed data cannot be altered (SchemaObject.cs:727; DemoDataSeeder.cs:12 says
  so), nor, on SQL Server, one that another table refers to, as every ALTER drops the
  primary key and adds it again (865).
* `OrpheusSchemaModule` is never created after a crash between it and
  `OrpheusSchemaObject` (Schema.cs:607).
* Changes of nullable types and of constraints alone are not reconciled
  (orpheus_creating_schema.md:185); on PostgreSQL tables are not found when they are
  altered.
* The file logger writes the header of an existing file over its first bytes
  (OrpheusFileLogger.cs:104) and takes the full path of its file for a name when it rotates
  (118, 90).

## 6. Plan

1. Done: `OrpheusTable` with its contract, `KeyRetrieval`, `OrpheusConnection`,
   `OrpheusModule`, `ModuleTables`, `OrpheusSchema`, and proofs of their invariants and
   action properties.
2. Proofs still worth having: bounds under the liveness properties (a measure that every
   step of Save decreases, as an action property), and that the steps of a connection
   implement a contract in which a unit is one step.
3. Possible extensions: several key fields; the file logger.
