----------------------------- MODULE OrpheusSchema -----------------------------
(***************************************************************************)
(* A Schema and its SchemaObjectTables (OrpheusCore/SchemaBuilder): how    *)
(* Execute creates, alters and registers the tables of an application and  *)
(* how Drop removes them, over restarts of the application with newer      *)
(* models.  Each object runs its DDL in a transaction of its own and is    *)
(* then registered by a second one; dependencies are visited recursively.  *)
(*                                                                         *)
(* The engine is SQL Server or PostgreSQL, where a transaction covers DDL. *)
(***************************************************************************)
EXTENDS Integers, Sequences, FiniteSets, SequencesExt

CONSTANTS
  Objects,      (* the application's schema objects                        *)
  DependsOn,    (* object -> the objects its foreign keys refer to         *)
  Schemas,      (* the schemas that an application builds: the list of its *)
                (* objects, and whether it adds the dependencies after the *)
                (* last of them (late) or with each of them                *)
  Versions,     (* the versions of a model                                 *)
  Releases,     (* the applications: object -> the version of its model    *)
  Model,        (* version -> its columns with their types, the columns    *)
                (* under a unique key, and those of a nullable type        *)
  Seeded,       (* the objects that were given seed data (SetData)         *)
  MaxCalls,     (* bound: calls of one instance of Schema                  *)
  Retries,      (* the application calls an instance again that has thrown *)
  Faults,       (* what can go wrong in the environment                    *)
  MaxFaults     (* bound: how often it does                                *)

(* Orpheus's own tables: OrpheusSchemaInfo, OrpheusSchemaObject and        *)
(* OrpheusSchemaModule.                                                    *)
Internal == {"Info", "Object", "Module"}
All == Objects \cup Internal

(* The columns of a table: their names with their types.                   *)
ColumnNames == {"id"} \cup UNION {DOMAIN Model[v].columns : v \in Versions}
ColumnTypes ==
  {"guid"} \cup UNION {{Model[v].columns[c] : c \in DOMAIN Model[v].columns} : v \in Versions}
ColumnSets == UNION {[names -> ColumnTypes] : names \in SUBSET ColumnNames}

ASSUME SchemaAssumption ==
  /\ IsFiniteSet(Objects) /\ Objects \cap Internal = {}
  /\ DependsOn \in [Objects -> SUBSET Objects]
  /\ \A s \in Schemas : s.list \in Seq(Objects) /\ IsInjective(s.list) /\ s.late \in BOOLEAN
  /\ \A v \in Versions : /\ Model[v].columns \in ColumnSets
                         /\ IsFiniteSet(DOMAIN Model[v].columns)
                         /\ Model[v].keys \subseteq DOMAIN Model[v].columns
  /\ Releases \subseteq [Objects -> Versions] /\ Seeded \subseteq Objects
  /\ Retries \in BOOLEAN /\ MaxCalls \in Nat /\ MaxFaults \in Nat
  /\ Faults \subseteq {"crash", "roundTrip", "check"}

VARIABLES
  engine,     (* "SQLServer" or "PostgreSQL"                               *)
  tables,     (* the tables in the database                                *)
  rows,       (* the objects with a row in OrpheusSchemaObject             *)
  registered, (* the schema has a row in OrpheusSchemaInfo                 *)
  work,       (* the tables as the open transaction sees them              *)
  release,    (* the application that runs                                 *)
  order,      (* SchemaObjects                                             *)
  isCreated,  (* the objects whose IsCreated flag is set                   *)
  declared,   (* object -> the dependencies that AddDependency has found   *)
  depends,    (* object -> SchemaObjectsThatIDepend                        *)
  cache,      (* the names in schemaObjectCache                            *)
  call,       (* the call in progress                                      *)
  calls,      (* the calls that this instance has had                      *)
  agenda,     (* what is left of the call                                  *)
  stack,      (* the objects that are executing, the innermost first       *)
  unseen,     (* in this call, the database's answer was lost              *)
  faults      (* faults so far                                             *)

database == <<engine, tables, rows, registered>>
application == <<release, order, declared>>
instance == <<application, isCreated, depends, cache>>
progress == <<call, calls, agenda, stack>>
vars     == <<database, work, instance, progress, unseen, faults>>

Exists(o) == o \in DOMAIN tables

\* The model of an object; Orpheus's own tables keep theirs.
OwnModel == [columns |-> [c \in {"id"} |-> "guid"], keys |-> {}, nullable |-> {}]
Wanted(o) == IF o \in Internal THEN OwnModel ELSE Model[release[o]]

\* The tables its foreign keys refer to.
RefersTo(o) ==
  CASE o \in Objects -> DependsOn[o]
    [] o = "Info" -> {}
    [] o \in {"Object", "Module"} -> {"Info"}

\* AddDependency(Type) looks for the object in the list as it is by then, and adds nothing
\* where it is not found.
Found(s) ==
  [o \in Objects |->
     {d \in DependsOn[o] :
        \E i, j \in DOMAIN s.list : s.list[i] = o /\ s.list[j] = d /\ (s.late \/ j < i)}]

\* AddSchemaObject makes every object depend on OrpheusSchemaObject.
Dependencies(o) == IF o \in Objects THEN depends[o] \cup {"Object"} ELSE {}

\* Mutant of Dependents: nothing is dropped before the object.
NoDependents(o) == {}

Dependents(o) == {p \in Objects : o \in declared[p]}

Fault(kind) == kind \in Faults /\ faults < MaxFaults
Strike(kind) == Fault(kind) /\ faults' = faults + 1

-----------------------------------------------------------------------------
(***************************************************************************)
(* Instances of the application and their calls.                           *)
(***************************************************************************)
Init ==
  /\ engine \in {"SQLServer", "PostgreSQL"}
  /\ tables = <<>> /\ work = tables
  /\ rows = {} /\ registered = FALSE
  /\ release \in Releases
  /\ \E s \in Schemas : order = s.list /\ declared = Found(s)
  /\ isCreated = {} /\ depends = declared /\ cache = {}
  /\ call = "none" /\ calls = 0 /\ agenda = <<>> /\ stack = <<>>
  /\ unseen = FALSE /\ faults = 0

\* The application starts anew, as another release or with another schema, where it had
\* finished, or crashes; a transaction that was open is rolled back.  One that has made no
\* call is as if it had not started.
Restart ==
  /\ \/ call = "none" /\ calls > 0 /\ UNCHANGED faults
     \/ call # "none" /\ Strike("crash")
  /\ release' \in Releases
  /\ \E s \in Schemas : order' = s.list /\ declared' = Found(s)
  /\ isCreated' = {} /\ depends' = declared' /\ cache' = {}
  /\ call' = "none" /\ calls' = 0 /\ agenda' = <<>> /\ stack' = <<>>
  /\ work' = tables /\ unseen' = FALSE
  /\ UNCHANGED database

Task(do, o) == [do |-> do, obj |-> o]
Each(do) == [i \in DOMAIN order |-> Task(do, order[i])]

\* Orpheus's own tables are created where OrpheusSchemaObject is not seen to exist.
OwnTables(seen) ==
  IF seen THEN <<>>
  ELSE << Task("execute", "Info"), Task("execute", "Object"), Task("execute", "Module") >>

Call(kind, tasks) ==
  /\ call = "none" /\ calls < MaxCalls
  /\ call' = kind /\ calls' = calls + 1 /\ agenda' = tasks
  /\ UNCHANGED <<database, work, instance, stack>>

\* The DDL helper asks over a second connection and takes an error for a "no".
Execute ==
  \E seen \in BOOLEAN :
     /\ \/ seen = Exists("Object") /\ unseen' = FALSE /\ UNCHANGED faults
        \/ ~seen /\ Exists("Object") /\ unseen' = TRUE /\ Strike("check")
     /\ Call("execute", OwnTables(seen) \o << Task("registerSchema", "Info") >> \o Each("execute"))

Drop ==
  /\ Call("drop", Each("drop") \o << Task("clearCache", "Info") >>)
  /\ unseen' = FALSE /\ UNCHANGED faults

-----------------------------------------------------------------------------
(***************************************************************************)
(* One schema object: canExecuteSchema, the dependencies, the DDL in a     *)
(* transaction, the bookkeeping.                                           *)
(***************************************************************************)
Top == stack[1]
Stage(s) == stack # <<>> /\ Top.stage = s

\* No object is executing, and the call goes on with one of these tasks.
Turn(kinds) == stack = <<>> /\ agenda # <<>> /\ agenda[1].do \in kinds

Frame(action, o, visit) ==
  << [obj |-> o, action |-> action, visit |-> visit, ddl |-> <<>>, stage |-> "visit"] >>

\* Mutant of Entered: Drop goes by the register and not by the database.
EnteredIfRegistered(o, drop, seen) ==
  IF o \in isCreated \/ (drop /\ o \notin rows) THEN <<>>
  ELSE IF drop THEN Frame("drop", o, Dependents(o))
  ELSE IF seen THEN Frame("alter", o, {})
  ELSE Frame("create", o, Dependencies(o))

\* What canExecuteSchema makes of a database that answers that o is there or is not:
\* an object whose flag is set does nothing, not even for a Drop.
Entered(o, drop, seen) ==
  IF o \in isCreated \/ (drop /\ ~seen) THEN <<>>
  ELSE IF drop THEN Frame("drop", o, Dependents(o))
  ELSE IF seen THEN Frame("alter", o, {})
  ELSE Frame("create", o, Dependencies(o))

\* An error on the helper's connection is again taken for a "no".
Enter(o, drop, below) ==
  \/ /\ stack' = Entered(o, drop, Exists(o)) \o below
     /\ UNCHANGED <<unseen, faults>>
  \/ /\ o \notin isCreated /\ Exists(o) /\ Strike("check")
     /\ stack' = Entered(o, drop, FALSE) \o below
     /\ unseen' = TRUE

\* The list's next object.
NextObject ==
  /\ Turn({"execute", "drop"})
  /\ Enter(agenda[1].obj, agenda[1].do = "drop", <<>>)
  /\ agenda' = Tail(agenda)
  /\ UNCHANGED <<database, work, instance, call, calls>>

\* Mutant of VisitDependency: the visits do not come to an end.
VisitForever ==
  /\ Stage("visit")
  /\ \E o \in Top.visit : Enter(o, Top.action = "drop", stack)
  /\ UNCHANGED <<database, work, instance, call, calls, agenda>>

\* What it depends on is executed before a CREATE, what depends on it is dropped before
\* a DROP.
VisitDependency ==
  /\ Stage("visit")
  /\ \E o \in Top.visit :
        Enter(o, Top.action = "drop", [stack EXCEPT ![1].visit = @ \ {o}])
  /\ UNCHANGED <<database, work, instance, call, calls, agenda>>

(***************************************************************************)
(* GetAlterDDLCommands: the columns after each of the ALTER commands that  *)
(* take a table from its columns to those of the model: one that drops     *)
(* columns, one for each type that differs and is not nullable, one that   *)
(* adds columns.                                                           *)
(***************************************************************************)
\* Mutant of AlterCommands: the new columns are not added.
AlterCommandsWithoutNew(old, m) ==
  LET kept == [c \in DOMAIN old \cap DOMAIN m.columns |-> m.columns[c]]
  IN IF kept = old THEN <<>> ELSE << kept >>

AlterCommands(old, m) ==
  LET kept == [c \in DOMAIN old \cap DOMAIN m.columns |-> old[c]]
      differing == SetToSeq({c \in DOMAIN kept \ m.nullable : kept[c] # m.columns[c]})
      retyped[n \in 0..Len(differing)] ==
        [c \in DOMAIN kept |-> IF c \in ToSet(SubSeq(differing, 1, n))
                               THEN m.columns[c] ELSE kept[c]]
      final == [c \in DOMAIN m.columns |->
                  IF c \in DOMAIN kept THEN retyped[Len(differing)][c] ELSE m.columns[c]]
  IN (IF kept = old THEN <<>> ELSE << kept >>)
       \o [n \in 1..Len(differing) |-> retyped[n]]
       \o (IF DOMAIN final = DOMAIN kept THEN <<>> ELSE << final >>)

\* Where no column differs, nothing is executed.
Begin ==
  /\ Stage("visit") /\ Top.visit = {}
  /\ LET o == Top.obj
         ddl == IF Top.action = "alter" THEN AlterCommands(tables[o].columns, Wanted(o))
                ELSE << Wanted(o).columns >>
     IN stack' = IF ddl = <<>> THEN Tail(stack)
                 ELSE [stack EXCEPT ![1].stage = "run", ![1].ddl = ddl]
  /\ work' = tables
  /\ UNCHANGED <<database, instance, call, calls, agenda, unseen, faults>>

\* What the engine demands of the next command and the constraints applied after it: the
\* tables of its foreign keys exist; a table that is dropped exists, and neither it nor one
\* whose primary key is dropped and added again is referred to; unique keys are on existing
\* columns, and a column under one is neither dropped nor retyped.
\* PostgreSQL drops with CASCADE; it cannot alter a table whose name has capitals, as
\* only its ALTER commands quote the name.
CommandAccepted ==
  LET o == Top.obj
      referred == \E p \in DOMAIN work \ {o} : o \in work[p].refs
  IN CASE Top.action = "create" -> ~(o \in DOMAIN work) /\ RefersTo(o) \subseteq DOMAIN work
       [] Top.action = "drop" -> o \in DOMAIN work /\ (engine = "PostgreSQL" \/ ~referred)
       [] Top.action = "alter" ->
             /\ engine = "SQLServer" /\ ~referred
             /\ Wanted(o).keys \subseteq DOMAIN Head(Top.ddl)
             /\ work[o].keys \cap Wanted(o).keys \subseteq tables[o].keys
             /\ \A c \in work[o].keys : /\ c \in DOMAIN Head(Top.ddl)
                                       /\ Head(Top.ddl)[c] = work[o].columns[c]

\* seedData inserts the seed rows after a CREATE and after every ALTER; rows that are in
\* the table already violate its primary key.
Reseeds == Top.action = "alter" /\ work[Top.obj].seeded

Accepted == CommandAccepted /\ ~Reseeds

Without(o) == [p \in DOMAIN work \ {o} |-> [work[p] EXCEPT !.refs = @ \ {o}]]

\* The table of o after its next command, the constraints and the seed rows; no
\* constraint is dropped for good.
Changed(o) ==
  [columns |-> Head(Top.ddl),
   keys |-> Wanted(o).keys \cup (IF o \in DOMAIN work THEN work[o].keys ELSE {}),
   refs |-> RefersTo(o),
   seeded |-> o \in Seeded]

\* Mutant of RunCommand: the command is not part of a transaction.
RunCommandAlone ==
  /\ Stage("run") /\ Top.ddl # <<>> /\ Accepted
  /\ LET o == Top.obj IN
     IF Top.action = "drop"
     THEN work' = Without(o) /\ isCreated' = isCreated \ {o}
     ELSE /\ work' = [p \in DOMAIN work \cup {o} |-> IF p = o THEN Changed(o) ELSE work[p]]
          /\ isCreated' = isCreated \cup {o}
  /\ tables' = work'
  /\ stack' = [stack EXCEPT ![1].ddl = Tail(@)]
  /\ UNCHANGED <<engine, rows, registered, application, depends, cache, call, calls,
                 agenda, unseen, faults>>

RunCommand ==
  /\ Stage("run") /\ Top.ddl # <<>> /\ Accepted
  /\ LET o == Top.obj IN
     IF Top.action = "drop"
     THEN work' = Without(o) /\ isCreated' = isCreated \ {o}
     ELSE /\ work' = [p \in DOMAIN work \cup {o} |-> IF p = o THEN Changed(o) ELSE work[p]]
          /\ isCreated' = isCreated \cup {o}
  /\ stack' = [stack EXCEPT ![1].ddl = Tail(@)]
  /\ UNCHANGED <<database, application, depends, cache, call, calls, agenda, unseen,
                 faults>>

Commit ==
  /\ Stage("run") /\ Top.ddl = <<>>
  /\ tables' = work
  /\ stack' = [stack EXCEPT ![1].stage = "committed"]
  /\ UNCHANGED <<engine, rows, registered, work, instance, call, calls, agenda, unseen,
                 faults>>

(***************************************************************************)
(* The bookkeeping, in a transaction of its own after the DDL.             *)
(***************************************************************************)

\* Schema.SchemaObjectExists: a name in the cache is believed if the table exists, any
\* other is looked up in OrpheusSchemaObject and then cached.
SchemaObjectExists(o) == IF o \in cache THEN Exists(o) ELSE o \in rows
Remember(o) == cache' = IF SchemaObjectExists(o) THEN cache \cup {o} ELSE cache \ {o}

Leave == stack' = Tail(stack)

RegisterObject ==
  /\ Stage("committed") /\ Top.action = "create"
  /\ LET o == Top.obj IN
     /\ rows' = IF SchemaObjectExists(o) \/ o = "Info" THEN rows ELSE rows \cup {o}
     /\ Remember(o)
  /\ Leave
  /\ UNCHANGED <<engine, tables, registered, work, application, isCreated, depends,
                 call, calls, agenda, unseen, faults>>

\* A query that fails is logged and taken for "not registered".  The objects that depend
\* on the dropped one forget that they do.
UnregisterObject ==
  /\ Stage("committed") /\ Top.action = "drop"
  /\ LET o == Top.obj IN
     /\ \/ /\ rows' = IF SchemaObjectExists(o) THEN rows \ {o} ELSE rows
           /\ Remember(o)
           /\ UNCHANGED <<unseen, faults>>
        \/ /\ o \notin cache /\ Strike("check")
           /\ unseen' = TRUE
           /\ UNCHANGED <<rows, cache>>
     /\ depends' = [p \in Objects |-> depends[p] \ {o}]
  /\ Leave
  /\ UNCHANGED <<engine, tables, registered, work, application, isCreated, call, calls,
                 agenda>>

\* A table that was altered stays as registered or unregistered as it was.
LeaveAltered ==
  /\ Stage("committed") /\ Top.action = "alter"
  /\ Leave
  /\ UNCHANGED <<database, work, instance, call, calls, agenda, unseen, faults>>

RegisterSchema ==
  /\ Turn({"registerSchema"})
  /\ registered' = TRUE
  /\ agenda' = Tail(agenda)
  /\ UNCHANGED <<engine, tables, rows, work, instance, call, calls, stack, unseen, faults>>

\* Mutant of ClearCache: the cache stays as it is.
ClearNothing ==
  /\ Turn({"clearCache"})
  /\ agenda' = Tail(agenda)
  /\ UNCHANGED <<database, work, instance, call, calls, stack, unseen, faults>>

ClearCache ==
  /\ Turn({"clearCache"})
  /\ cache' = {}
  /\ agenda' = Tail(agenda)
  /\ UNCHANGED <<database, work, application, isCreated, depends, call, calls, stack,
                 unseen, faults>>

Done(kind) == call = kind /\ agenda = <<>> /\ stack = <<>>

Return ==
  /\ \E kind \in {"execute", "drop"} : Done(kind)
  /\ call' = "none"
  /\ UNCHANGED <<database, work, instance, calls, agenda, stack, unseen, faults>>

\* The next command must fail; or a round trip can.
Rejected == Stage("run") /\ Top.ddl # <<>> /\ ~Accepted

CanFail ==
  \/ Stage("visit") /\ Top.visit = {}
  \/ Stage("run")
  \/ Stage("committed") /\ Top.action # "alter"
  \/ Turn({"registerSchema"})

\* IsCreated where the next command fails at its seed rows: an ALTER has set it.
Flagged ==
  IF Stage("run") /\ Top.ddl # <<>> /\ CommandAccepted /\ Reseeds
  THEN isCreated \cup {Top.obj} ELSE isCreated

\* Mutant of Throw: the transaction is not rolled back.
ThrowInTransaction ==
  /\ \/ Rejected /\ UNCHANGED faults /\ isCreated' = Flagged
     \/ CanFail /\ Strike("roundTrip") /\ isCreated' \in {isCreated, Flagged}
  /\ call' = "none" /\ agenda' = <<>> /\ stack' = <<>>
  /\ calls' = IF Retries THEN calls ELSE MaxCalls
  /\ UNCHANGED <<database, work, application, depends, cache, unseen>>

\* An exception leaves every Execute that is under way, and the call; the transaction is
\* rolled back or disposed, while IsCreated keeps what the last command made of it.
Throw ==
  /\ \/ Rejected /\ UNCHANGED faults /\ isCreated' = Flagged
     \/ CanFail /\ Strike("roundTrip") /\ isCreated' \in {isCreated, Flagged}
  /\ call' = "none" /\ agenda' = <<>> /\ stack' = <<>>
  /\ calls' = IF Retries THEN calls ELSE MaxCalls
  /\ work' = tables
  /\ UNCHANGED <<database, application, depends, cache, unseen>>

-----------------------------------------------------------------------------
Progress ==
  \/ NextObject \/ VisitDependency \/ Begin \/ RunCommand \/ Commit
  \/ RegisterObject \/ UnregisterObject \/ LeaveAltered
  \/ RegisterSchema \/ ClearCache \/ Return
  \/ Rejected /\ Throw

Next == Restart \/ Execute \/ Drop \/ Progress \/ Throw

\* The thread that is inside Execute or Drop keeps running.
Spec == Init /\ [][Next]_vars /\ WF_vars(Progress)

-----------------------------------------------------------------------------
(***************************************************************************)
(* Properties.                                                             *)
(***************************************************************************)
TableShape(t) == /\ DOMAIN t = {"columns", "keys", "refs", "seeded"}
                 /\ t.keys \subseteq DOMAIN t.columns /\ t.refs \subseteq All

\* The shape of the database and of an instance of Schema; between the calls nothing is
\* executing and no transaction is open (Schema, SchemaDataObject).
TypeOK ==
  /\ \A t \in {tables, work} :
        DOMAIN t \subseteq All /\ \A o \in DOMAIN t : TableShape(t[o])
  /\ rows \subseteq All /\ registered \in BOOLEAN
  /\ isCreated \subseteq All /\ cache \subseteq All
  /\ depends \in [Objects -> SUBSET Objects]
  /\ call \in {"none", "execute", "drop"} /\ calls \in 0..MaxCalls
  /\ faults \in 0..MaxFaults
  /\ call = "none" => agenda = <<>> /\ stack = <<>> /\ work = tables

\* The columns are those of the model; types of nullable ones are not compared.
Fits(columns, m) ==
  /\ DOMAIN columns = DOMAIN m.columns
  /\ \A c \in DOMAIN m.columns \ m.nullable : columns[c] = m.columns[c]

Matches(t, m) == Fits(t.columns, m) /\ m.keys \subseteq t.keys

\* Whatever fails or crashes, a table that exists is as one version of its model has it:
\* no step of a CREATE or ALTER is left alone, a table with seed data has it, and on SQL
\* Server all its foreign keys are there (SchemaDataObject.Execute).
TablesAreWhole ==
  \A o \in Objects \cap DOMAIN tables :
     /\ \E v \in Versions : Matches(tables[o], Model[v])
     /\ tables[o].seeded = (o \in Seeded)
     /\ engine = "SQLServer" => tables[o].refs = RefersTo(o)

\* One of these objects refers to one of those, and the schema does not know it.
Undeclared(these, those) ==
  \E o \in these \cap Objects, d \in those : d \in DependsOn[o] \ declared[o]

\* In whatever order the application lists its objects, all of them or only those that
\* have changed, and whatever earlier instances left behind, the first call of an instance
\* sends no CREATE and no DROP that the engine rejects, unless AddDependency did not find
\* what is missing or in the way: what an object depends on is there, what depends on it
\* is gone (SchemaObjectsThatIDepend, SchemaObjectsThatDependOnMe).
FirstCallsAreAccepted ==
  Rejected /\ calls = 1 /\ ~unseen =>
    \/ Top.action = "alter"
    \/ Top.action = "create" /\ Undeclared({Top.obj}, Objects \ DOMAIN tables)
    \/ Top.action = "drop" /\ Undeclared(DOMAIN tables, {Top.obj})

\* When Execute returns, every object of its schema is a table with the columns and unique keys of the
\* model of this release, whichever release had created it and wherever an earlier call
\* had stopped (Schema.Execute, GetAlterDDLCommands).
ExecuteMakesTheSchema ==
  Done("execute") =>
     \A o \in ToSet(order) : Exists(o) /\ Matches(tables[o], Wanted(o))

\* When the first call of an instance is a Drop and it returns, no object of its schema is
\* a table any more, unless the database could not be asked (Schema.Drop).
FreshDropLeavesNothing ==
  Done("drop") /\ calls = 1 /\ ~unseen => ToSet(order) \cap DOMAIN tables = {}

\* As long as nothing fails, OrpheusSchemaObject lists exactly the tables that exist,
\* also when one instance drops and creates them and its cache has seen both
\* (registerSchema, unRegisterSchema, SchemaObjectExists).
RowsMatchTables ==
  call = "none" /\ faults = 0 =>
     /\ rows \cap Objects = DOMAIN tables \cap Objects
     /\ rows \cap Objects # {} => registered

\* Execute and Drop return or throw: the visits of dependencies end.
CallsEnd == (call # "none") ~> (call = "none")

(***************************************************************************)
(* What the documentation says and the code does not do.                   *)
(***************************************************************************)

\* "Removes all schema objects from the database": after Drop no object is a table
\* (Schema.Drop, canExecuteSchema).
DropLeavesNothing == Done("drop") => ToSet(order) \cap DOMAIN tables = {}

\* Orpheus records "which objects it has already created": after Execute every object
\* has its row (registerSchema).
ExecutedObjectsAreRegistered == Done("execute") => ToSet(order) \subseteq rows

-----------------------------------------------------------------------------
(***************************************************************************)
(* The inductive invariant.                                                *)
(***************************************************************************)
TableSet ==
  [columns : ColumnSets, keys : SUBSET ColumnNames, refs : SUBSET All, seeded : BOOLEAN]

FrameSet ==
  [obj : All, action : {"create", "alter", "drop"}, visit : SUBSET All,
   ddl : Seq(ColumnSets), stage : {"visit", "run", "committed"}]

TaskSet == [do : {"execute", "drop", "registerSchema", "clearCache"}, obj : All]

\* The tables of a database, their unique keys on columns that they have.
Database(T) ==
  /\ DOMAIN T \subseteq All /\ T \in [DOMAIN T -> TableSet]
  /\ \A o \in DOMAIN T : T[o].keys \subseteq DOMAIN T[o].columns

\* The instance of Schema, and what a call makes of it.
InstanceInvariant ==
  /\ engine \in {"SQLServer", "PostgreSQL"}
  /\ rows \subseteq All /\ registered \in BOOLEAN
  /\ release \in Releases /\ order \in Seq(Objects)
  /\ declared \in [Objects -> SUBSET Objects] /\ depends \in [Objects -> SUBSET Objects]
  /\ \A o \in Objects : declared[o] \subseteq DependsOn[o]
  /\ isCreated \subseteq All /\ cache \subseteq All
  /\ call \in {"none", "execute", "drop"} /\ calls \in 0..MaxCalls
  /\ unseen \in BOOLEAN /\ faults \in 0..MaxFaults
  /\ IF call = "none" THEN calls = 0 => isCreated = {} /\ depends = declared
                      ELSE calls > 0

\* The innermost object, and those that wait for it: only the innermost is beyond its
\* visits; an ALTER and Orpheus's own tables have none, and what is altered exists.
Active(f) ==
  /\ f.stage # "visit" \/ f.action = "alter" \/ f.obj \in Internal => f.visit = {}
  /\ f.action = "alter" => Exists(f.obj)

Waiting(f) == f.stage = "visit" /\ f.action # "alter" /\ f.obj \in Objects

\* Execute creates and alters, Drop drops, and only the application's objects.
OfCall(f) ==
  /\ call = "execute" => f.action \in {"create", "alter"}
  /\ call = "drop" => f.action = "drop" /\ f.obj \in Objects /\ f.visit \subseteq Objects

FrameInvariant ==
  \A i \in DOMAIN stack :
     OfCall(stack[i]) /\ IF i = 1 THEN Active(stack[i]) ELSE Waiting(stack[i])

\* At the end of a Drop the cache is cleared.
AgendaInvariant ==
  /\ call = "none" => agenda = <<>> /\ stack = <<>>
  /\ call = "execute" => \A i \in DOMAIN agenda : agenda[i].do \in {"execute", "registerSchema"}
  /\ call = "drop" =>
       /\ \A i \in DOMAIN agenda :
             IF i = Len(agenda) THEN agenda[i].do = "clearCache"
             ELSE agenda[i].do = "drop" /\ agenda[i].obj \in Objects
       /\ agenda = <<>> => stack = <<>>

StackInvariant ==
  stack \in Seq(FrameSet) /\ agenda \in Seq(TaskSet) /\ FrameInvariant /\ AgendaInvariant

\* A table as the model of this release has it.
Made(T, o) ==
  /\ o \in DOMAIN T /\ Matches(T[o], Wanted(o))
  /\ T[o].seeded = (o \in Seeded) /\ T[o].refs = RefersTo(o)

\* A table as the open transaction leaves it that is about another one.
Alike(t, u) ==
  /\ t.columns = u.columns /\ t.keys = u.keys /\ t.seeded = u.seeded
  /\ t.refs \subseteq u.refs /\ (engine = "SQLServer" => t.refs = u.refs)

OthersUntouched ==
  \A p \in All \ {Top.obj} :
     /\ p \in DOMAIN work <=> p \in DOMAIN tables
     /\ p \in DOMAIN work => Alike(work[p], tables[p])

\* The open transaction before and after the CREATE or DROP, and with ALTER commands
\* still to come, of which the last leads to the model's columns.
TransactionInvariant ==
  /\ OthersUntouched
  /\ Top.action # "alter" /\ Top.ddl # <<>> => Len(Top.ddl) = 1 /\ work = tables
  /\ Top.action # "drop" =>
       IF Top.ddl = <<>> THEN Made(work, Top.obj)
       ELSE Fits(Top.ddl[Len(Top.ddl)], Wanted(Top.obj))
  /\ Top.action # "alter" /\ Top.ddl = <<>> =>
       /\ Top.obj \in DOMAIN tables <=> Top.action = "drop"
       /\ Top.obj \in DOMAIN work <=> Top.action = "create"
  /\ Top.action = "alter" => Top.obj \in DOMAIN work

WorkInvariant ==
  /\ Database(tables) /\ Database(work)
  /\ IF Stage("run") THEN TransactionInvariant ELSE work = tables
  /\ Stage("committed") =>
       IF Top.action = "drop" THEN ~Exists(Top.obj) ELSE Made(tables, Top.obj)
  /\ \A o \in Internal \cap DOMAIN tables : tables[o].refs \subseteq Internal

IInv == InstanceInvariant /\ StackInvariant /\ WorkInvariant /\ TablesAreWhole

\* The object waits for its turn in the call, or is executing.
Queued(task) == \E i \in DOMAIN agenda : agenda[i] = task
Executing(o) == \E i \in DOMAIN stack : stack[i].obj = o
Waits(do, o) == Queued(Task(do, o)) \/ Executing(o)

\* A first Drop comes to every object of the schema that is a table.
DropInvariant ==
  call = "drop" /\ calls = 1 /\ ~unseen =>
     isCreated = {} /\ \A o \in ToSet(order) \cap DOMAIN tables : Waits("drop", o)

\* The object whose CREATE or DROP is committed and not yet in the register.
Pending == IF Stage("committed") /\ Top.action # "alter" THEN {Top.obj} ELSE {}

\* As long as nothing fails, the register is behind by the pending object only, and no
\* name in the cache is of an object that the call may still create or drop.
RowsInvariant ==
  faults = 0 =>
     /\ \A o \in Objects \ Pending : o \in rows <=> Exists(o)
     /\ \A o \in Objects \cap Pending : o \in rows <=> Top.action = "drop"
     /\ (call = "none" => calls < MaxCalls) /\ (call = "drop" => agenda = <<>>) =>
          cache \cap Objects = {}
     /\ call = "drop" => cache \cap Objects \cap (DOMAIN tables \cup Pending) = {}

\* Before the schema is registered no object of the application is.
RegisteredInvariant ==
  ~registered =>
     /\ rows \cap Objects = {}
     /\ call = "execute" =>
          /\ \A i \in DOMAIN stack : stack[i].obj \in Internal
          /\ \A i \in DOMAIN agenda :
                agenda[i].do = "execute" /\ agenda[i].obj \in Objects =>
                  \E j \in 1..(i - 1) : agenda[j].do = "registerSchema"

Present(o) == Exists(o) /\ Matches(tables[o], Wanted(o))

\* What is flagged as created is as the model has it, and so is every object that the call
\* has dealt with.
ExecuteInvariant ==
  /\ call # "none" \/ calls < MaxCalls =>
       \A o \in isCreated \cap Objects :
          Present(o) \/ (Stage("run") /\ Top.obj = o /\ Top.action # "drop")
  /\ Stage("run") /\ Top.action = "drop" /\ Top.ddl = <<>> => Top.obj \notin isCreated
  /\ call = "execute" => \A o \in ToSet(order) : Present(o) \/ Waits("execute", o)

\* A table with the columns of the model has its unique keys: a model does not change its
\* keys alone, for which GetAlterDDLCommands has no command.
KeysComeWithColumns ==
  \A v, w \in Versions :
     DOMAIN Model[v].columns = DOMAIN Model[w].columns => Model[w].keys \subseteq Model[v].keys

\* The foreign keys have no cycle, in which Execute would visit without end.
Follows(rank) ==
  /\ rank \in [Objects -> Nat]
  /\ \A o \in Objects : \A d \in DependsOn[o] : rank[d] < rank[o]

Acyclic == \E rank \in [Objects -> Nat] : Follows(rank)

\* One object is visited from another.
Deeper(rank, o, p, action) ==
  /\ p \in Objects
  /\ \/ o \in Internal
     \/ action = "drop" /\ rank[p] < rank[o]
     \/ action # "drop" /\ rank[o] < rank[p]

\* What a CREATE needs and what a DROP has to see gone is still to be visited, or done, or
\* executing right now.
VisitInvariant(i) ==
  LET f == stack[i]
      above(d) == i > 1 /\ stack[i - 1].obj = d
  IN /\ f.action = "create" =>
          /\ f.stage # "committed" => ~Exists(f.obj)
          /\ f.obj \in Objects =>
               /\ Exists("Object") /\ f.visit \subseteq declared[f.obj] \cup {"Object"}
               /\ \A d \in declared[f.obj] : d \in f.visit \/ Exists(d) \/ above(d)
          /\ f.obj \in {"Object", "Module"} => Exists("Info")
     /\ f.action = "drop" =>
          /\ f.stage # "committed" => Exists(f.obj)
          /\ f.visit \subseteq Dependents(f.obj)
          /\ \A p \in Dependents(f.obj) : p \in f.visit \/ ~Exists(p) \/ above(p)

\* One task of the call comes before another, or its table exists, or is being created.
ComesBefore(o, i) ==
  Exists(o) \/ Executing(o) \/ \E j \in 1..(i - 1) : agenda[j] = Task("execute", o)

FirstCallInvariant(rank) ==
  call # "none" /\ calls = 1 /\ ~unseen =>
     /\ call = "execute" =>
          /\ depends = declared
          /\ \A o \in isCreated : Exists(o) \/ (Stage("run") /\ Top.obj = o)
          /\ \A i \in DOMAIN agenda : agenda[i].do = "execute" =>
               /\ agenda[i].obj \in {"Object", "Module"} => ComesBefore("Info", i)
               /\ agenda[i].obj \in Objects => ComesBefore("Object", i)
     /\ \A i \in DOMAIN stack : VisitInvariant(i)
     /\ \A i, j \in DOMAIN stack :
           i < j => Deeper(rank, stack[i].obj, stack[j].obj, stack[j].action)
===============================================================================
