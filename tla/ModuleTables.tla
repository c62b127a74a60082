----------------------------- MODULE ModuleTables -----------------------------
(***************************************************************************)
(* How a module builds its tables from its definition (OrpheusModule.cs,   *)
(* initializeModuleDefinition; the constructor and MasterTable setter of   *)
(* OrpheusTable.cs).  The options of the detail tables come in any order,  *)
(* each naming its master: the tables are created in that order, and a     *)
(* second pass links those whose master did not exist yet.  The levels     *)
(* that result are the order in which OrpheusModule saves the tables.      *)
(*                                                                         *)
(* A definition outlives the module that is made from it: the master that  *)
(* the first pass has found is written into the option, and is what the    *)
(* option has when a further module is made from the same definition.      *)
(***************************************************************************)
EXTENDS Integers, Sequences, FiniteSets

CONSTANTS
  MainTable,    (* the main table                                          *)
  Details,      (* the detail tables                                       *)
  Keyed,        (* those whose options come with their MasterTableKeyFields*)
  MaxModules,   (* bound: modules made from the definition                 *)
  None          (* no master table yet                                     *)

Tables == {MainTable} \cup Details

\* The table objects: table t of the k-th module.
Object(k, t) == <<k, t>>
Objects == (1..MaxModules) \X Tables
DetailObjects == (1..MaxModules) \X Details

ASSUME TablesAssumption ==
  /\ IsFiniteSet(Details) /\ Keyed \subseteq Details /\ MaxModules \in Nat \ {0}
  /\ MainTable \notin Details /\ None \notin Tables \cup Objects

VARIABLES
  options,      (* DetailTableOptions: the details in their order          *)
  masterName,   (* detail -> the master that its option names              *)
  optionMaster, (* detail -> the MasterTable of its option                 *)
  keyFields,    (* the details with their MasterTableKeyFields: a table    *)
                (* shares the list of its option                           *)
  module,       (* the module that is made                                 *)
  list,         (* its Tables: those created so far                        *)
  master,       (* object -> its MasterTable                               *)
  level,        (* object -> its Level                                     *)
  detailTables, (* object -> its DetailTables                              *)
  pass, next    (* the loop that runs, and its next option                 *)

definition == <<options, masterName>>
links == <<optionMaster, keyFields, master, level, detailTables>>
vars == <<definition, links, module, list, pass, next>>

Listed(s) == {s[i] : i \in DOMAIN s}

\* The tables that the names lead to from t, with t: what every set of tables has that has t
\* and with each detail its master.
Closed(names, S) == \A s \in S \cap Details : names[s] \in S
Above(names, t) == {m \in Tables : \A S \in SUBSET Tables : t \in S /\ Closed(names, S) => m \in S}

\* Every definition whose tables hang off the main table, in every order.
Init ==
  /\ options \in {s \in [1..Cardinality(Details) -> Details] : Listed(s) = Details}
  /\ masterName \in {m \in [Details -> Tables] : \A t \in Details : MainTable \in Above(m, t)}
  /\ optionMaster = [t \in Details |-> None] /\ keyFields = Keyed
  /\ module = 1 /\ list = <<>>
  /\ master = [o \in Objects |-> None]
  /\ level = [o \in Objects |-> 0]
  /\ detailTables = [o \in Objects |-> <<>>]
  /\ pass = "main" /\ next = 1

CreateMainTable ==
  /\ pass = "main"
  /\ list' = <<MainTable>>
  /\ pass' = "create"
  /\ UNCHANGED <<definition, links, module, next>>

\* The table of that name in the module, if it has been created.
getTableByName(name) == IF name \in Listed(list) THEN Object(module, name) ELSE None

\* Mutant of ConstructUnder: the key fields of the master are not taken from the model.
ConstructUnderWithoutKeys(t, m) ==
  LET o == Object(module, t)
  IN /\ master' = [master EXCEPT ![o] = m]
     /\ level' = [level EXCEPT ![o] = level[m] + 1]
     /\ detailTables' = [detailTables EXCEPT ![m] = Append(@, o)]
     /\ UNCHANGED keyFields

\* The constructor of a table with a master: it counts its level from the master's level of
\* the moment, and takes the key fields of the master from the foreign keys of its model.
ConstructUnder(t, m) ==
  LET o == Object(module, t)
  IN /\ master' = [master EXCEPT ![o] = m]
     /\ level' = [level EXCEPT ![o] = level[m] + 1]
     /\ detailTables' = [detailTables EXCEPT ![m] = Append(@, o)]
     /\ keyFields' = keyFields \cup {t}

\* Mutant of SetMaster: the level stays what it was.
SetMasterKeepingLevel(t, m) ==
  LET o == Object(module, t)
  IN /\ master' = [master EXCEPT ![o] = m]
     /\ detailTables' =
          [detailTables EXCEPT ![m] = IF o \in Listed(@) THEN @ ELSE Append(@, o)]
     /\ UNCHANGED <<optionMaster, keyFields, level>>

\* The MasterTable setter: it takes no key fields.
SetMaster(t, m) ==
  LET o == Object(module, t)
  IN /\ master' = [master EXCEPT ![o] = m]
     /\ level' = [level EXCEPT ![o] = level[m] + 1]
     /\ detailTables' =
          [detailTables EXCEPT ![m] = IF o \in Listed(@) THEN @ ELSE Append(@, o)]
     /\ UNCHANGED <<optionMaster, keyFields>>

\* Mutant of CreateDetailTable: the name is looked up although the option has its master.
CreateDetailTableAnew ==
  /\ pass = "create" /\ next <= Len(options)
  /\ LET t == options[next]
         m == getTableByName(masterName[t])
     IN /\ optionMaster' = [optionMaster EXCEPT ![t] = m]
        /\ IF m = None THEN UNCHANGED <<keyFields, master, level, detailTables>>
                       ELSE ConstructUnder(t, m)
        /\ list' = Append(list, t)
  /\ next' = next + 1
  /\ UNCHANGED <<definition, module, pass>>

\* The next detail is created, under the master that its option has or that is found now.
CreateDetailTable ==
  /\ pass = "create" /\ next <= Len(options)
  /\ LET t == options[next]
         m == IF optionMaster[t] = None THEN getTableByName(masterName[t]) ELSE optionMaster[t]
     IN /\ optionMaster' = [optionMaster EXCEPT ![t] = m]
        /\ IF m = None THEN UNCHANGED <<keyFields, master, level, detailTables>>
                       ELSE ConstructUnder(t, m)
        /\ list' = Append(list, t)
  /\ next' = next + 1
  /\ UNCHANGED <<definition, module, pass>>

StartLinking ==
  /\ pass = "create" /\ next > Len(options)
  /\ pass' = "link" /\ next' = 1
  /\ UNCHANGED <<definition, links, module, list>>

LinkDetailTable ==
  /\ pass = "link" /\ next <= Len(options)
  /\ LET t == options[next]
     IN IF master[Object(module, t)] = None THEN SetMaster(t, getTableByName(masterName[t]))
        ELSE UNCHANGED links
  /\ next' = next + 1
  /\ UNCHANGED <<definition, module, list, pass>>

Finish ==
  /\ pass = "link" /\ next > Len(options)
  /\ pass' = "done"
  /\ UNCHANGED <<definition, links, module, list, next>>

\* Another module is made from the same definition.
NextModule ==
  /\ pass = "done" /\ module < MaxModules
  /\ module' = module + 1
  /\ list' = <<>> /\ pass' = "main" /\ next' = 1
  /\ UNCHANGED <<definition, links>>

Next ==
  \/ CreateMainTable \/ CreateDetailTable
  \/ StartLinking \/ LinkDetailTable \/ Finish \/ NextModule

Spec == Init /\ [][Next]_vars

-----------------------------------------------------------------------------
Place(t) == CHOOSE i \in DOMAIN list : list[i] = t

\* A detail is listed after its master.
AfterItsMaster(t) ==
  \/ masterName[t] = MainTable
  \/ \E i, j \in DOMAIN options : i < j /\ options[i] = masterName[t] /\ options[j] = t

\* The first module that is made from a definition links its tables as the definition names
\* them, in whatever order it lists them: every detail has its master, is among the details
\* of that master and of no other table, and is there once.  In a further module this is so
\* of the details that are listed before their masters; the others hang off the tables of
\* the first module (initializeModuleDefinition writes the master it finds into the option).
LinksFollowTheDefinition ==
  pass = "done" =>
    \A t \in Details :
      LET o == Object(module, t)
          due == Object(IF AfterItsMaster(t) THEN 1 ELSE module, masterName[t])
      IN /\ master[o] = due
         /\ \A m \in Objects :
              Cardinality({i \in DOMAIN detailTables[m] : detailTables[m][i] = o})
                = IF m = due THEN 1 ELSE 0

\* A table knows the key fields of its master, by which Load reads and Add fills the foreign
\* key, exactly if its options came with them or it is listed after its master: a table that
\* the second pass links has a master and no key fields (constructor, MasterTable setter).
KeyFieldsFollowTheOrder ==
  pass = "done" => \A t \in Details : t \in keyFields <=> t \in Keyed \/ AfterItsMaster(t)

\* The level of a table counts its masters wherever the definition lists each of these
\* masters after its own; the table itself may be listed anywhere, and the definition used
\* again.
LevelsCountTheMasters ==
  pass = "done" =>
    \A t \in Details :
      LET masters == Above(masterName, t) \ {t}
      IN (\A m \in masters \ {MainTable} : Place(masterName[m]) < Place(m))
           => level[Object(module, t)] = Cardinality(masters)

\* "we cannot know in what order the detail table options will be entered": in every
\* order, OrpheusModule inserts into a table after it inserted into its master
\* (initializeModuleDefinition, saveInserts).
MastersAreInsertedFirst ==
  pass = "done" =>
    \A t \in Details :
      LET m == masterName[t]
          levelOf(u) == level[Object(module, u)]
      IN levelOf(m) < levelOf(t) \/ (levelOf(m) = levelOf(t) /\ Place(m) < Place(t))

-----------------------------------------------------------------------------
(***************************************************************************)
(* The inductive invariant.                                                *)
(***************************************************************************)

\* The shape of the tables while they are created and linked.
TypeOK ==
  /\ options \in [1..Cardinality(Details) -> Details] /\ Listed(options) = Details
  /\ masterName \in [Details -> Tables]
  /\ optionMaster \in [Details -> Objects \cup {None}] /\ keyFields \subseteq Details
  /\ module \in 1..MaxModules
  /\ list \in Seq(Tables)
  /\ master \in [Objects -> Objects \cup {None}]
  /\ level \in [Objects -> Nat]
  /\ detailTables \in [Objects -> Seq(DetailObjects)]
  /\ pass \in {"main", "create", "link", "done"}
  /\ next \in 1..(Cardinality(Details) + 1)

\* The tables are created in the order of the options, each once.
Created == IF pass = "create" THEN next - 1 ELSE Cardinality(Details)
ListInvariant ==
  /\ \A i, j \in DOMAIN options : options[i] = options[j] => i = j
  /\ pass = "main" => next = 1 /\ list = <<>>
  /\ pass # "main" => /\ Len(list) = Created + 1 /\ list[1] = MainTable
                      /\ \A i \in 1..Created : list[i + 1] = options[i]

\* DetailTables has every detail once, and is the inverse of MasterTable.
DetailsInvariant ==
  /\ \A m \in Objects : \A i, j \in DOMAIN detailTables[m] :
        detailTables[m][i] = detailTables[m][j] => i = j
  /\ \A o \in DetailObjects, m \in Objects : o \in Listed(detailTables[m]) <=> master[o] = m

\* The option of a detail that is listed after its master has the table of the first module
\* from then on; the key fields come with it.
OptionsInvariant ==
  /\ \A t \in Details :
        optionMaster[t] = IF AfterItsMaster(t) /\ (module > 1 \/ t \in Listed(list))
                          THEN Object(1, masterName[t]) ELSE None
  /\ keyFields = Keyed \cup {t \in Details : optionMaster[t] # None}

\* A detail is linked once it is created, if it is listed after its master, and by the
\* second pass at the latest.
Due(k, t) == Object(IF AfterItsMaster(t) THEN 1 ELSE k, masterName[t])
Linked(k, t) == master[Object(k, t)] # None
LinksInvariant ==
  /\ \A k \in 1..MaxModules : \A t \in Details :
        /\ Linked(k, t) => master[Object(k, t)] = Due(k, t)
        /\ k < module => Linked(k, t)
        /\ k > module => ~Linked(k, t)
  /\ \A t \in Details :
        /\ Linked(module, t) => t \in Listed(list)
        /\ t \in Listed(list) /\ AfterItsMaster(t) => Linked(module, t)
        /\ pass = "done" => Linked(module, t)
  /\ pass = "link" => \A i \in 1..(next - 1) : Linked(module, options[i])

\* All masters of a detail are listed after their own: their levels are final when they are
\* created, and so is what is counted from them.
MastersInOrder(t) == \A m \in Above(masterName, t) \ {t, MainTable} : AfterItsMaster(m)
LevelsInvariant ==
  /\ \A t \in Details : MainTable \in Above(masterName, t)
  /\ \A k \in 1..MaxModules :
        /\ level[Object(k, MainTable)] = 0
        /\ \A t \in Details :
              Linked(k, t) /\ MastersInOrder(t)
                => level[Object(k, t)] = Cardinality(Above(masterName, t) \ {t})

IInv ==
  TypeOK /\ ListInvariant /\ DetailsInvariant /\ OptionsInvariant /\ LinksInvariant
  /\ LevelsInvariant

\* What follows for Save: a detail is below its master if all its masters are listed after
\* their own (MastersAbove of OrpheusModule).
MastersAreAbove ==
  pass = "done" =>
    \A t \in Details :
      MastersInOrder(t) => level[Object(module, masterName[t])] < level[Object(module, t)]
===============================================================================
