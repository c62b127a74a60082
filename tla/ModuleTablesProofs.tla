-------------------------- MODULE ModuleTablesProofs --------------------------
(***************************************************************************)
(* Theorems about ModuleTables, for every number of detail tables, every   *)
(* hierarchy and every order of the options, and for every number of       *)
(* modules that are made from a definition.                                *)
(***************************************************************************)
EXTENDS ModuleTables, TLAPS, FiniteSetTheorems

LEMMA DetailsAreFinite == Cardinality(Details) \in Nat
BY TablesAssumption, FS_CardinalityType

LEMMA DetailsAreNotMain ==
  /\ MainTable \in Tables /\ Details \subseteq Tables /\ MainTable \notin Details
  /\ None \notin Tables
BY TablesAssumption DEF Tables

\* An object is one table of one module.
LEMMA ObjectsAreDistinct ==
  /\ \A k \in 1..MaxModules, t \in Tables : Object(k, t) \in Objects /\ Object(k, t) # None
  /\ \A k \in 1..MaxModules, t \in Details : Object(k, t) \in DetailObjects
  /\ \A k, l \in 1..MaxModules : \A t, u \in Tables :
        Object(k, t) = Object(l, u) => k = l /\ t = u
BY TablesAssumption, DetailsAreNotMain DEF Object, Objects, DetailObjects

LEMMA ObjectsOfDetails ==
  /\ DetailObjects \subseteq Objects /\ None \notin Objects /\ 1 \in 1..MaxModules
  /\ \A o \in DetailObjects : \E k \in 1..MaxModules, t \in Details : o = Object(k, t)
BY TablesAssumption, DetailsAreNotMain DEF Object, Objects, DetailObjects

\* A table that is not yet in a list of tables is added at its end.
LEMMA Appended ==
  ASSUME NEW s \in Seq(DetailObjects), NEW t \in DetailObjects,
         \A i, j \in DOMAIN s : s[i] = s[j] => i = j,
         NEW u, u = IF t \in Listed(s) THEN s ELSE Append(s, t)
  PROVE  /\ u \in Seq(DetailObjects) /\ Listed(u) = Listed(s) \cup {t}
         /\ \A i, j \in DOMAIN u : u[i] = u[j] => i = j
<1>1. CASE t \in Listed(s)
  BY <1>1
<1>2. CASE t \notin Listed(s)
  <2>1. /\ u = Append(s, t) /\ u \in Seq(DetailObjects) /\ Len(s) \in Nat
        /\ DOMAIN s = 1..Len(s) /\ DOMAIN u = 1..(Len(s) + 1)
        /\ u[Len(s) + 1] = t /\ \A i \in 1..Len(s) : u[i] = s[i]
    BY <1>2
  <2>2. \A i \in 1..Len(s) : s[i] # t
    BY <1>2, <2>1 DEF Listed
  <2>3. \A i \in DOMAIN u : i \in 1..Len(s) \/ i = Len(s) + 1
    BY <2>1
  <2>4. \A i, j \in DOMAIN u : u[i] = u[j] => i = j
    BY <2>1, <2>2, <2>3
  <2>5. Listed(u) \subseteq Listed(s) \cup {t}
    BY <2>1, <2>3 DEF Listed
  <2>6. Listed(s) \cup {t} \subseteq Listed(u)
    <3>1. \A i \in DOMAIN s : i \in DOMAIN u /\ u[i] = s[i]
      BY <2>1
    <3>2. Len(s) + 1 \in DOMAIN u /\ u[Len(s) + 1] = t
      BY <2>1
    <3>3. QED BY <3>1, <3>2 DEF Listed
  <2>7. QED BY <2>1, <2>4, <2>5, <2>6
<1>3. QED BY <1>1, <1>2

\* What a link of table object o to the object m comes to, by the constructor or the setter.
LinkedTo(o, m) ==
  /\ master' = [master EXCEPT ![o] = m]
  /\ level' = [level EXCEPT ![o] = level[m] + 1]
  /\ detailTables' = [detailTables EXCEPT ![m] =
                        IF o \in Listed(detailTables[m]) THEN detailTables[m]
                        ELSE Append(detailTables[m], o)]

\* It makes o one of the details of m, once, and changes no other object's master or level.
LEMMA LinkKeeps ==
  ASSUME TypeOK, DetailsInvariant, NEW o \in DetailObjects, NEW m0 \in Objects,
         master[o] = None, LinkedTo(o, m0)
  PROVE  /\ master' \in [Objects -> Objects \cup {None}]
         /\ level' \in [Objects -> Nat]
         /\ detailTables' \in [Objects -> Seq(DetailObjects)]
         /\ DetailsInvariant'
         /\ master'[o] = m0 /\ level'[o] = level[m0] + 1
         /\ \A p \in Objects \ {o} : master'[p] = master[p] /\ level'[p] = level[p]
<1> DEFINE s == detailTables[m0]
           u == IF o \in Listed(s) THEN s ELSE Append(s, o)
<1>1. /\ o \in Objects /\ None \notin Objects /\ DetailObjects \subseteq Objects
      /\ master \in [Objects -> Objects \cup {None}] /\ level \in [Objects -> Nat]
      /\ detailTables \in [Objects -> Seq(DetailObjects)]
  BY ObjectsOfDetails DEF TypeOK
<1>2. /\ master' = [master EXCEPT ![o] = m0] /\ level' = [level EXCEPT ![o] = level[m0] + 1]
      /\ detailTables' = [detailTables EXCEPT ![m0] = u]
  BY DEF LinkedTo
<1>3. /\ u \in Seq(DetailObjects) /\ Listed(u) = Listed(s) \cup {o}
      /\ \A i, j \in DOMAIN u : u[i] = u[j] => i = j
  <2>1. s \in Seq(DetailObjects)
    BY <1>1
  <2>2. \A i, j \in DOMAIN s : s[i] = s[j] => i = j
    BY DEF DetailsInvariant
  <2>3. u = IF o \in Listed(s) THEN s ELSE Append(s, o)
    OBVIOUS
  <2> HIDE DEF u, s
  <2>4. QED BY <2>1, <2>2, <2>3, Appended
<1>4. Listed(u) = Listed(detailTables[m0]) \cup {o}
  BY <1>3
<1> HIDE DEF u, s
<1>5. /\ master' \in [Objects -> Objects \cup {None}] /\ level' \in [Objects -> Nat]
      /\ detailTables' \in [Objects -> Seq(DetailObjects)]
  BY <1>1, <1>2, <1>3
<1>6. detailTables'[m0] = u /\ \A m \in Objects \ {m0} : detailTables'[m] = detailTables[m]
  BY <1>1, <1>2
<1>7. /\ master'[o] = m0 /\ level'[o] = level[m0] + 1
      /\ \A p \in Objects \ {o} : master'[p] = master[p] /\ level'[p] = level[p]
  BY <1>1, <1>2
<1>8. \A m \in Objects : \A i, j \in DOMAIN detailTables'[m] :
         detailTables'[m][i] = detailTables'[m][j] => i = j
  BY <1>3, <1>6 DEF DetailsInvariant
<1>9. ASSUME NEW p \in DetailObjects, NEW m \in Objects
      PROVE  p \in Listed(detailTables'[m]) <=> master'[p] = m
  <2>1. (p \in Listed(detailTables[m]) <=> master[p] = m) /\ p \in Objects /\ None # m
    BY <1>1 DEF DetailsInvariant
  <2>2. CASE m = m0
    BY <1>4, <1>6, <1>7, <2>1, <2>2
  <2>3. CASE m # m0
    <3>1. o \notin Listed(detailTables[m])
      BY <1>1, <2>1 DEF DetailsInvariant
    <3>2. QED BY <1>6, <1>7, <2>1, <2>3, <3>1
  <2>4. QED BY <2>2, <2>3
<1>10. DetailsInvariant'
  BY <1>8, <1>9 DEF DetailsInvariant
<1>11. QED BY <1>5, <1>7, <1>10

-----------------------------------------------------------------------------
(***************************************************************************)
(* The list of the tables.                                                 *)
(***************************************************************************)

\* The options have every detail once.
LEMMA OptionsAreDistinct ==
  ASSUME options \in [1..Cardinality(Details) -> Details], Listed(options) = Details
  PROVE  \A i, j \in DOMAIN options : options[i] = options[j] => i = j
<1> DEFINE N == Cardinality(Details)
<1>1. N \in Nat /\ IsFiniteSet(1..N) /\ Cardinality(1..N) = N
  <2>1. N \in Nat
    BY DetailsAreFinite
  <2> HIDE DEF N
  <2>2. IsFiniteSet(1..N) /\ Cardinality(1..N) = IF 1 > N THEN 0 ELSE N - 1 + 1
    BY <2>1, FS_Interval
  <2>3. QED BY <2>1, <2>2
<1>2. options \in Surjection(1..N, Details)
  BY DEF Surjection, Listed
<1>3. options \in Injection(1..N, Details)
  BY <1>1, <1>2, FS_SurjSameCardinalityImpliesInj
<1>4. QED BY <1>3 DEF Injection, IsInjective

\* The list of the tables holds the main table and the options that were created.
LEMMA ListedTables ==
  ASSUME TypeOK, ListInvariant, pass # "main"
  PROVE  Listed(list) = {MainTable} \cup {options[i] : i \in 1..Created}
<1> DEFINE n == Created
<1>1. n \in Nat /\ Len(list) = n + 1 /\ list[1] = MainTable
      /\ \A i \in 1..n : list[i + 1] = options[i]
  BY DetailsAreFinite DEF ListInvariant, Created, TypeOK
<1>2. list \in Seq(Tables)
  BY DEF TypeOK
<1> HIDE DEF n
<1>3. DOMAIN list = 1..(n + 1)
  BY <1>1, <1>2
<1>4. ASSUME NEW i \in DOMAIN list
      PROVE  list[i] \in {MainTable} \cup {options[j] : j \in 1..n}
  <2>1. CASE i = 1
    BY <1>1, <2>1
  <2>2. CASE i # 1
    <3>1. i - 1 \in 1..n /\ (i - 1) + 1 = i
      BY <1>1, <1>3, <2>2
    <3>2. list[i] = options[i - 1]
      BY <1>1, <3>1
    <3>3. QED BY <3>1, <3>2
  <2>3. QED BY <2>1, <2>2
<1>5. \A j \in 1..n : j + 1 \in DOMAIN list /\ 1 \in DOMAIN list
  BY <1>1, <1>3
<1>6. MainTable \in Listed(list)
  BY <1>1, <1>3 DEF Listed
<1>7. \A j \in 1..n : options[j] \in Listed(list)
  BY <1>1, <1>5 DEF Listed
<1>8. Listed(list) = {MainTable} \cup {options[j] : j \in 1..n}
  BY <1>4, <1>6, <1>7 DEF Listed
<1>9. QED BY <1>8 DEF n

\* The steps of the two passes: the list grows by the options in their order.
LEMMA ListKeeps ==
  ASSUME TypeOK, ListInvariant, [Next]_vars
  PROVE  ListInvariant'
<1> DEFINE N == Cardinality(Details)
<1>1. N \in Nat /\ options \in [1..N -> Details] /\ Len(options) = N /\ next \in 1..(N + 1)
      /\ list \in Seq(Tables)
  BY DetailsAreFinite DEF TypeOK
<1> HIDE DEF N
<1>2. \A i, j \in DOMAIN options : options[i] = options[j] => i = j
  BY DEF ListInvariant
<1>3. CASE CreateMainTable
  <2>1. /\ list' = <<MainTable>> /\ pass' = "create" /\ next' = 1 /\ UNCHANGED options
    BY <1>3 DEF CreateMainTable, ListInvariant, definition
  <2>2. Created' = 0
    BY <2>1 DEF Created
  <2>3. Len(list') = 1 /\ list'[1] = MainTable
    BY <2>1
  <2>4. QED BY <1>2, <2>1, <2>2, <2>3 DEF ListInvariant
<1>4. CASE CreateDetailTable
  <2>1. /\ list' = Append(list, options[next]) /\ next' = next + 1 /\ pass = "create"
        /\ pass' = "create" /\ UNCHANGED options /\ next \in 1..N
    BY <1>1, <1>4 DEF CreateDetailTable, definition
  <2>2. Created = next - 1 /\ Created' = next
    BY <1>1, <2>1 DEF Created
  <2>3. /\ Len(list) = next /\ list[1] = MainTable
        /\ \A i \in 1..(next - 1) : list[i + 1] = options[i]
    BY <1>1, <2>1, <2>2 DEF ListInvariant
  <2>4. options[next] \in Tables
    BY <1>1, <2>1, DetailsAreNotMain
  <2>5. /\ Len(list') = next + 1 /\ list'[next + 1] = options[next]
        /\ \A i \in 1..next : list'[i] = list[i]
    BY <1>1, <2>1, <2>3, <2>4
  <2>6. \A i \in 1..next : list'[i + 1] = options[i]
    <3>1. SUFFICES ASSUME NEW i \in 1..next PROVE list'[i + 1] = options[i]
      OBVIOUS
    <3>2. CASE i = next
      BY <2>5, <3>2
    <3>3. CASE i # next
      <4>1. i \in 1..(next - 1) /\ i + 1 \in 1..next
        BY <2>1, <3>3
      <4>2. QED BY <2>3, <2>5, <4>1
    <3>4. QED BY <3>2, <3>3
  <2>7. list'[1] = MainTable
    BY <2>1, <2>3, <2>5
  <2>8. QED BY <1>2, <2>1, <2>2, <2>5, <2>6, <2>7 DEF ListInvariant
<1>5. CASE StartLinking
  <2>1. pass = "create" /\ next > N /\ pass' = "link" /\ UNCHANGED <<options, list>>
    BY <1>1, <1>5 DEF StartLinking, definition
  <2>2. Created = N /\ Created' = N
    BY <1>1, <2>1 DEF Created, N
  <2>3. QED BY <2>1, <2>2 DEF ListInvariant
<1>6. CASE LinkDetailTable \/ Finish
  <2>1. pass = "link" /\ pass' \in {"link", "done"} /\ UNCHANGED <<options, list>>
    BY <1>6 DEF LinkDetailTable, Finish, definition
  <2>2. Created = Created'
    BY <2>1 DEF Created
  <2>3. QED BY <2>1, <2>2 DEF ListInvariant
<1>7. CASE NextModule
  BY <1>2, <1>7 DEF NextModule, definition, ListInvariant
<1>8. CASE UNCHANGED vars
  BY <1>8 DEF vars, definition, ListInvariant, Created
<1>9. QED BY <1>3, <1>4, <1>5, <1>6, <1>7, <1>8 DEF Next

-----------------------------------------------------------------------------
(***************************************************************************)
(* The masters above a table.                                              *)
(***************************************************************************)

\* Above is the least set of tables that has t and with each detail its master.
LEMMA AboveIsClosed ==
  ASSUME NEW names \in [Details -> Tables], NEW t \in Tables
  PROVE  /\ Above(names, t) \in SUBSET Tables /\ t \in Above(names, t)
         /\ Closed(names, Above(names, t))
BY DetailsAreNotMain DEF Above, Closed

LEMMA AboveIsLeast ==
  ASSUME NEW names, NEW t, NEW S \in SUBSET Tables, t \in S, Closed(names, S)
  PROVE  Above(names, t) \subseteq S
BY DEF Above

\* Above the main table there is nothing; above a detail there are its master and what is
\* above that.
LEMMA AboveMain ==
  ASSUME NEW names \in [Details -> Tables]
  PROVE  Above(names, MainTable) = {MainTable}
<1>1. Closed(names, {MainTable}) /\ {MainTable} \in SUBSET Tables
  BY DetailsAreNotMain DEF Closed
<1>2. Above(names, MainTable) \subseteq {MainTable}
  BY <1>1, AboveIsLeast
<1>3. QED BY <1>2, AboveIsClosed, DetailsAreNotMain

LEMMA AboveStep ==
  ASSUME NEW names \in [Details -> Tables], NEW t \in Details
  PROVE  Above(names, t) = {t} \cup Above(names, names[t])
<1> DEFINE A == Above(names, t)
           B == Above(names, names[t])
<1>1. t \in Tables /\ names[t] \in Tables
  BY DetailsAreNotMain
<1>2. /\ A \in SUBSET Tables /\ t \in A /\ Closed(names, A)
      /\ B \in SUBSET Tables /\ names[t] \in B /\ Closed(names, B)
  BY <1>1, AboveIsClosed
<1> HIDE DEF A, B
<1>3. A \subseteq {t} \cup B
  <2>1. Closed(names, {t} \cup B) /\ {t} \cup B \in SUBSET Tables
    BY <1>1, <1>2 DEF Closed
  <2>2. QED BY <2>1, AboveIsLeast DEF A
<1>4. B \subseteq A
  <2>1. names[t] \in A
    BY <1>2 DEF Closed
  <2>2. QED BY <1>2, <2>1, AboveIsLeast DEF B
<1>5. A = {t} \cup B
  BY <1>2, <1>3, <1>4
<1>6. QED BY <1>5 DEF A, B

\* A detail that hangs off the main table is not above its own master.
LEMMA AboveIsAcyclic ==
  ASSUME NEW names \in [Details -> Tables], NEW t \in Details, MainTable \in Above(names, t)
  PROVE  t \notin Above(names, names[t])
<1> SUFFICES ASSUME t \in Above(names, names[t]) PROVE FALSE
  OBVIOUS
<1> DEFINE S == {x \in Tables : t \in Above(names, x)}
<1>1. t \in S
  BY AboveIsClosed, DetailsAreNotMain
<1>2. ASSUME NEW x \in S \cap Details
      PROVE  names[x] \in S
  <2>1. Above(names, x) = {x} \cup Above(names, names[x]) /\ t \in Above(names, x)
    BY AboveStep
  <2>2. t \in Above(names, names[x])
    BY <2>1
  <2>3. QED BY <2>2
<1>3. Closed(names, S) /\ S \in SUBSET Tables
  BY <1>2 DEF Closed
<1> HIDE DEF S
<1>4. Above(names, t) \subseteq S
  BY <1>1, <1>3, AboveIsLeast
<1>5. MainTable \in S
  BY <1>4
<1>6. t \in Above(names, MainTable)
  BY <1>5 DEF S
<1>7. QED BY <1>6, AboveMain, DetailsAreNotMain

\* A detail has one master more than its master has.
LEMMA MastersCount ==
  ASSUME NEW names \in [Details -> Tables], NEW t \in Details, MainTable \in Above(names, t)
  PROVE  /\ Above(names, t) \ {t} = Above(names, names[t])
         /\ Cardinality(Above(names, t) \ {t}) = Cardinality(Above(names, names[t]) \ {names[t]}) + 1
         /\ Cardinality(Above(names, t) \ {t}) \in Nat
<1> DEFINE B == Above(names, names[t])
<1>1. names[t] \in Tables /\ t \in Tables
  BY DetailsAreNotMain
<1>2. B \in SUBSET Tables /\ names[t] \in B
  BY <1>1, AboveIsClosed
<1>3. Above(names, t) \ {t} = B
  BY AboveStep, AboveIsAcyclic
<1>4. IsFiniteSet(Tables)
  <2>1. IsFiniteSet(Details \cup {MainTable})
    BY TablesAssumption, FS_AddElement
  <2>2. Tables = Details \cup {MainTable}
    BY DEF Tables
  <2>3. QED BY <2>1, <2>2
<1> HIDE DEF B
<1>5. IsFiniteSet(B) /\ Cardinality(B) \in Nat
  BY <1>2, <1>4, FS_Subset, FS_CardinalityType
<1>6. Cardinality(B \ {names[t]}) = Cardinality(B) - 1
  <2>1. Cardinality(B \ {names[t]}) =
          IF names[t] \in B THEN Cardinality(B) - 1 ELSE Cardinality(B)
    BY <1>5, FS_RemoveElement, Zenon
  <2>2. QED BY <1>2, <2>1
<1>7. Cardinality(B) = Cardinality(B \ {names[t]}) + 1
  BY <1>5, <1>6
<1>8. QED BY <1>3, <1>5, <1>7 DEF B

\* What the invariant says of the pass that creates, and of the one that links: the next
\* detail is not listed yet, and is listed after its master if its master is.
LEMMA Creating ==
  ASSUME TypeOK, ListInvariant, pass = "create", next <= Len(options)
  PROVE  /\ options[next] \in Details /\ options[next] \notin Listed(list)
         /\ next + 1 \in 1..(Cardinality(Details) + 1)
         /\ AfterItsMaster(options[next]) <=> masterName[options[next]] \in Listed(list)
         /\ Listed(Append(list, options[next])) = Listed(list) \cup {options[next]}
         /\ Append(list, options[next]) \in Seq(Tables)
<1> DEFINE N == Cardinality(Details)
<1>1. /\ N \in Nat /\ options \in [1..N -> Details] /\ next \in 1..N
      /\ list \in Seq(Tables) /\ masterName \in [Details -> Tables] /\ DOMAIN options = 1..N
  BY DetailsAreFinite DEF TypeOK
<1> HIDE DEF N
<1>2. PICK t \in Details : t = options[next]
  BY <1>1
<1>3. Listed(list) = {MainTable} \cup {options[i] : i \in 1..(next - 1)}
  BY ListedTables DEF Created
<1>4. \A i \in 1..N : options[i] = t => i = next
  BY <1>1, <1>2 DEF ListInvariant
<1>5. t \notin Listed(list)
  <2>1. \A i \in 1..(next - 1) : i \in 1..N /\ i # next
    BY <1>1
  <2>2. QED BY <1>3, <1>4, <2>1, DetailsAreNotMain
<1>6. ASSUME AfterItsMaster(t)
      PROVE  masterName[t] \in Listed(list)
  <2>1. SUFFICES ASSUME NEW i \in 1..N, NEW j \in 1..N, i < j,
                        options[i] = masterName[t], options[j] = t
                 PROVE  masterName[t] \in Listed(list)
    BY <1>1, <1>3, <1>6 DEF AfterItsMaster
  <2>2. j = next
    BY <1>4, <2>1
  <2>3. i \in 1..(next - 1)
    BY <1>1, <2>1, <2>2
  <2>4. QED BY <1>3, <2>1, <2>3
<1>7. ASSUME masterName[t] \in Listed(list), masterName[t] # MainTable
      PROVE  AfterItsMaster(t)
  <2>1. PICK i \in 1..(next - 1) : options[i] = masterName[t]
    BY <1>3, <1>7
  <2>2. i \in DOMAIN options /\ next \in DOMAIN options /\ i < next
    BY <1>1
  <2>3. QED BY <1>2, <2>1, <2>2 DEF AfterItsMaster
<1>8. AfterItsMaster(t) <=> masterName[t] \in Listed(list)
  BY <1>6, <1>7 DEF AfterItsMaster
<1>9. Listed(Append(list, t)) = Listed(list) \cup {t} /\ Append(list, t) \in Seq(Tables)
  <2> DEFINE u == Append(list, t)
  <2>1. t \in Tables
    BY DetailsAreNotMain
  <2>2. /\ Len(list) \in Nat /\ DOMAIN list = 1..Len(list) /\ DOMAIN u = 1..(Len(list) + 1)
        /\ u[Len(list) + 1] = t /\ \A i \in 1..Len(list) : u[i] = list[i]
        /\ u \in Seq(Tables)
    BY <1>1, <2>1
  <2> HIDE DEF u
  <2>3. \A i \in DOMAIN u : i \in DOMAIN list \/ i = Len(list) + 1
    BY <2>2
  <2>4. Listed(u) \subseteq Listed(list) \cup {t}
    BY <2>2, <2>3 DEF Listed
  <2>5. \A i \in DOMAIN list : i \in DOMAIN u /\ u[i] = list[i]
    BY <2>2
  <2>6. Len(list) + 1 \in DOMAIN u
    BY <2>2
  <2>7. Listed(u) = Listed(list) \cup {t}
    BY <2>2, <2>4, <2>5, <2>6 DEF Listed
  <2>8. QED BY <2>2, <2>7 DEF u
<1>10. next + 1 \in 1..(N + 1)
  BY <1>1
<1>11. QED BY <1>2, <1>5, <1>8, <1>9, <1>10 DEF N

\* Once the first pass is over, every table is listed.
LEMMA AllAreListed ==
  ASSUME TypeOK, ListInvariant, pass \in {"link", "done"} \/ (pass = "create" /\ next > Len(options))
  PROVE  Listed(list) = Tables
<1> DEFINE N == Cardinality(Details)
<1>1. /\ N \in Nat /\ options \in [1..N -> Details] /\ Len(options) = N /\ next \in 1..(N + 1)
      /\ DOMAIN options = 1..N /\ Listed(options) = Details
  BY DetailsAreFinite DEF TypeOK
<1> HIDE DEF N
<1>2. Created = N /\ pass # "main"
  BY <1>1 DEF Created, N
<1>3. Listed(list) = {MainTable} \cup {options[i] : i \in 1..N}
  BY <1>2, ListedTables
<1>4. {options[i] : i \in 1..N} = Details
  BY <1>1 DEF Listed
<1>5. QED BY <1>3, <1>4 DEF Tables

\* The constructor links the table that is created if the definition lists it after its
\* master, the setter what the first pass left: each links it to the master that is due.
LEMMA Constructs ==
  ASSUME IInv, CreateDetailTable
  PROVE  LET t == options[next]
         IN IF AfterItsMaster(t)
            THEN /\ LinkedTo(Object(module, t), Due(module, t))
                 /\ keyFields' = keyFields \cup {t}
                 /\ optionMaster' = [optionMaster EXCEPT ![t] = Object(1, masterName[t])]
            ELSE /\ UNCHANGED <<keyFields, master, level, detailTables>>
                 /\ optionMaster' = [optionMaster EXCEPT ![t] = None]
<1>1. TypeOK /\ ListInvariant /\ DetailsInvariant /\ OptionsInvariant /\ LinksInvariant
  BY DEF IInv
<1>2. PICK t \in Details : t = options[next]
  BY <1>1, Creating DEF CreateDetailTable
<1>3. t \notin Listed(list) /\ (AfterItsMaster(t) <=> masterName[t] \in Listed(list))
  BY <1>1, <1>2, Creating DEF CreateDetailTable
<1>4. /\ module \in 1..MaxModules /\ t \in Tables /\ masterName[t] \in Tables
      /\ 1 \in 1..MaxModules /\ Object(module, t) \in DetailObjects
  BY <1>1, ObjectsOfDetails, ObjectsAreDistinct, DetailsAreNotMain DEF TypeOK
<1>5. optionMaster[t] = IF AfterItsMaster(t) /\ module > 1 THEN Object(1, masterName[t]) ELSE None
  BY <1>1, <1>3 DEF OptionsInvariant
<1> DEFINE m == IF optionMaster[t] = None THEN getTableByName(masterName[t]) ELSE optionMaster[t]
<1>6. /\ optionMaster' = [optionMaster EXCEPT ![t] = m]
      /\ IF m = None THEN UNCHANGED <<keyFields, master, level, detailTables>>
                     ELSE ConstructUnder(t, m)
  BY <1>2 DEF CreateDetailTable
<1>7. CASE AfterItsMaster(t)
  <2>1. Object(1, masterName[t]) # None /\ Object(1, masterName[t]) \in Objects
    BY <1>4, ObjectsAreDistinct
  <2>2. m = Object(1, masterName[t])
    <3>1. CASE module > 1
      BY <1>5, <1>7, <2>1, <3>1
    <3>2. CASE ~(module > 1)
      <4>1. module = 1
        BY <1>4, <3>2
      <4>2. QED BY <1>3, <1>5, <1>7, <3>2, <4>1 DEF getTableByName
    <3>3. QED BY <3>1, <3>2
  <2>3. Due(module, t) = m
    BY <1>7, <2>2 DEF Due
  <2> HIDE DEF m
  <2>4. ConstructUnder(t, m) /\ m \in Objects /\ m # None
    BY <1>6, <2>1, <2>2
  <2>5. ~Linked(module, t)
    BY <1>1, <1>3 DEF LinksInvariant
  <2>6. Object(module, t) \notin Listed(detailTables[m])
    BY <1>1, <1>4, <2>4, <2>5 DEF DetailsInvariant, Linked
  <2>7. LinkedTo(Object(module, t), m) /\ keyFields' = keyFields \cup {t}
    BY <2>4, <2>6 DEF ConstructUnder, LinkedTo
  <2>8. QED BY <1>2, <1>6, <1>7, <2>2, <2>3, <2>7
<1>8. CASE ~AfterItsMaster(t)
  <2>1. m = None
    BY <1>3, <1>5, <1>8 DEF getTableByName
  <2>2. QED BY <1>2, <1>6, <1>8, <2>1
<1>9. QED BY <1>7, <1>8

LEMMA Links ==
  ASSUME IInv, LinkDetailTable
  PROVE  LET t == options[next]
         IN /\ t \in Details /\ next + 1 \in 1..(Cardinality(Details) + 1)
            /\ UNCHANGED <<optionMaster, keyFields>>
            /\ IF Linked(module, t) THEN UNCHANGED <<master, level, detailTables>>
               ELSE LinkedTo(Object(module, t), Due(module, t))
<1> DEFINE N == Cardinality(Details)
<1>1. TypeOK /\ ListInvariant /\ LinksInvariant
  BY DEF IInv
<1>2. /\ N \in Nat /\ options \in [1..N -> Details] /\ next \in 1..N
      /\ module \in 1..MaxModules /\ masterName \in [Details -> Tables]
  BY <1>1, DetailsAreFinite DEF TypeOK, LinkDetailTable
<1>3. next + 1 \in 1..(N + 1)
  BY <1>2
<1> HIDE DEF N
<1>4. PICK t \in Details : t = options[next]
  BY <1>2
<1>5. t \in Listed(list) /\ masterName[t] \in Listed(list) /\ pass = "link"
  BY <1>1, <1>2, AllAreListed, DetailsAreNotMain DEF LinkDetailTable
<1>6. IF ~Linked(module, t) THEN SetMaster(t, getTableByName(masterName[t])) ELSE UNCHANGED links
  BY <1>4 DEF LinkDetailTable, Linked
<1>7. CASE Linked(module, t)
  BY <1>3, <1>4, <1>6, <1>7 DEF links, N
<1>8. CASE ~Linked(module, t)
  <2>1. ~AfterItsMaster(t)
    BY <1>1, <1>5, <1>8 DEF LinksInvariant
  <2>2. getTableByName(masterName[t]) = Due(module, t)
    BY <1>5, <2>1 DEF getTableByName, Due
  <2>3. SetMaster(t, Due(module, t))
    BY <1>6, <1>8, <2>2
  <2>4. LinkedTo(Object(module, t), Due(module, t)) /\ UNCHANGED <<optionMaster, keyFields>>
    BY <2>3 DEF SetMaster, LinkedTo
  <2>5. QED BY <1>3, <1>4, <1>8, <2>4 DEF N
<1>9. QED BY <1>7, <1>8

-----------------------------------------------------------------------------
(***************************************************************************)
(* The invariant.                                                          *)
(***************************************************************************)

\* Nothing is linked at the start.
LEMMA InvariantInit == Init => IInv
<1> SUFFICES ASSUME Init PROVE IInv
  OBVIOUS
<1>1. /\ options \in [1..Cardinality(Details) -> Details] /\ Listed(options) = Details
      /\ masterName \in [Details -> Tables]
      /\ \A t \in Details : MainTable \in Above(masterName, t)
      /\ optionMaster = [t \in Details |-> None] /\ keyFields = Keyed
      /\ module = 1 /\ list = <<>> /\ pass = "main" /\ next = 1
      /\ master = [o \in Objects |-> None] /\ level = [o \in Objects |-> 0]
      /\ detailTables = [o \in Objects |-> <<>>]
  BY DEF Init
<1>2. Listed(list) = {} /\ Keyed \subseteq Details /\ \A o \in Objects : Listed(detailTables[o]) = {}
  BY <1>1, TablesAssumption DEF Listed
<1>3. TypeOK
  BY <1>1, <1>2, DetailsAreFinite, ObjectsOfDetails DEF TypeOK
<1>4. ListInvariant
  <2>1. \A i, j \in DOMAIN options : options[i] = options[j] => i = j
    BY <1>1, OptionsAreDistinct
  <2>2. QED BY <1>1, <2>1 DEF ListInvariant
<1>5. DetailsInvariant
  BY <1>1, <1>2, ObjectsOfDetails DEF DetailsInvariant
<1>6. OptionsInvariant
  BY <1>1, <1>2 DEF OptionsInvariant
<1>7. \A k \in 1..MaxModules, t \in Details : ~Linked(k, t)
  BY <1>1, ObjectsOfDetails, ObjectsAreDistinct DEF Linked
<1>8. LinksInvariant
  BY <1>1, <1>2, <1>7, ObjectsOfDetails DEF LinksInvariant
<1>9. LevelsInvariant
  BY <1>1, <1>7, ObjectsAreDistinct, DetailsAreNotMain DEF LevelsInvariant
<1>10. QED BY <1>3, <1>4, <1>5, <1>6, <1>8, <1>9 DEF IInv

\* The order of the options never changes, nor what follows from it.
LEMMA OrderStays ==
  ASSUME TypeOK, UNCHANGED definition
  PROVE  /\ \A t \in Details : AfterItsMaster(t)' <=> AfterItsMaster(t)
         /\ \A t \in Details : MastersInOrder(t)' <=> MastersInOrder(t)
         /\ \A k : \A t \in Details : Due(k, t)' = Due(k, t)
<1>1. options' = options /\ masterName' = masterName
  BY DEF definition
<1>2. \A t : AfterItsMaster(t)' <=> AfterItsMaster(t)
  BY <1>1 DEF AfterItsMaster
<1>3. QED BY <1>1, <1>2 DEF MastersInOrder, Due

\* A step that links the next table, one that was not linked and whose master exists.
LinksNext(t) ==
  /\ LinkedTo(Object(module, t), Due(module, t))
  /\ ~Linked(module, t) /\ masterName[t] \in Listed(list)
  /\ UNCHANGED <<definition, module>>

\* It changes no other table of no other module.
LEMMA OthersStay ==
  ASSUME IInv, NEW t \in Details, LinksNext(t)
  PROVE  /\ master' \in [Objects -> Objects \cup {None}]
         /\ level' \in [Objects -> Nat]
         /\ detailTables' \in [Objects -> Seq(DetailObjects)]
         /\ DetailsInvariant'
         /\ master'[Object(module, t)] = Due(module, t) /\ Due(module, t) # None
         /\ level'[Object(module, t)] = level[Due(module, t)] + 1
         /\ \A k \in 1..MaxModules : \A s \in Tables :
               k # module \/ s # t => /\ master'[Object(k, s)] = master[Object(k, s)]
                                      /\ level'[Object(k, s)] = level[Object(k, s)]
<1> DEFINE o == Object(module, t)
<1>1. TypeOK /\ DetailsInvariant /\ module \in 1..MaxModules /\ t \in Tables /\ masterName[t] \in Tables
  BY DetailsAreNotMain DEF IInv, TypeOK
<1>2. o \in DetailObjects /\ o \in Objects /\ Due(module, t) \in Objects /\ Due(module, t) # None
  BY <1>1, ObjectsOfDetails, ObjectsAreDistinct DEF Due
<1>3. \A k \in 1..MaxModules : \A s \in Tables :
         k # module \/ s # t => Object(k, s) \in Objects \ {o}
  BY <1>1, ObjectsAreDistinct
<1>4. master[o] = None /\ LinkedTo(o, Due(module, t))
  BY DEF LinksNext, Linked
<1> HIDE DEF o
<1>5. /\ master' \in [Objects -> Objects \cup {None}] /\ level' \in [Objects -> Nat]
      /\ detailTables' \in [Objects -> Seq(DetailObjects)] /\ DetailsInvariant'
      /\ master'[o] = Due(module, t) /\ level'[o] = level[Due(module, t)] + 1
      /\ \A p \in Objects \ {o} : master'[p] = master[p] /\ level'[p] = level[p]
  BY <1>1, <1>2, <1>4, LinkKeeps
<1>6. QED BY <1>2, <1>3, <1>5 DEF o

\* A step that links a table counts its level from those of its masters.
LEMMA LinkCounts ==
  ASSUME IInv, NEW t \in Details, LinksNext(t)
  PROVE  LevelsInvariant'
<1>1. /\ masterName \in [Details -> Tables] /\ masterName[t] \in Tables /\ t \in Tables
      /\ module \in 1..MaxModules /\ masterName' = masterName /\ TypeOK
      /\ LinksInvariant /\ LevelsInvariant
  BY DetailsAreNotMain DEF IInv, TypeOK, LinksNext, definition
<1>2. \A s \in Details : MastersInOrder(s)' <=> MastersInOrder(s)
  BY <1>1, OrderStays DEF LinksNext
<1>3. /\ level'[Object(module, t)] = level[Due(module, t)] + 1
      /\ \A k \in 1..MaxModules : \A s \in Tables :
            k # module \/ s # t => /\ master'[Object(k, s)] = master[Object(k, s)]
                                   /\ level'[Object(k, s)] = level[Object(k, s)]
  BY OthersStay
<1>4. \A k \in 1..MaxModules : level'[Object(k, MainTable)] = 0
  BY <1>1, <1>3, DetailsAreNotMain DEF LevelsInvariant
<1>5. \A s \in Details : MainTable \in Above(masterName, s)
  BY <1>1 DEF LevelsInvariant
<1>6. ASSUME NEW k \in 1..MaxModules, NEW s \in Details, k # module \/ s # t,
             Linked(k, s)', MastersInOrder(s)
      PROVE  level'[Object(k, s)] = Cardinality(Above(masterName, s) \ {s})
  <2>1. Linked(k, s) /\ level'[Object(k, s)] = level[Object(k, s)]
    BY <1>3, <1>6, DetailsAreNotMain DEF Linked
  <2>2. QED BY <1>1, <1>6, <2>1 DEF LevelsInvariant
<1>7. ASSUME MastersInOrder(t)
      PROVE  level'[Object(module, t)] = Cardinality(Above(masterName, t) \ {t})
  <2> DEFINE m == masterName[t]
             k == IF AfterItsMaster(t) THEN 1 ELSE module
  <2>1. /\ Above(masterName, t) \ {t} = Above(masterName, m)
        /\ Cardinality(Above(masterName, t) \ {t}) = Cardinality(Above(masterName, m) \ {m}) + 1
    BY <1>1, <1>5, MastersCount
  <2>2. Due(module, t) = Object(k, m) /\ k \in 1..MaxModules /\ (k = module \/ k < module)
    BY <1>1, ObjectsOfDetails DEF Due
  <2> HIDE DEF k
  <2>3. level[Object(k, m)] = Cardinality(Above(masterName, m) \ {m})
    <3>1. CASE m = MainTable
      <4>1. Above(masterName, m) \ {m} = {}
        BY <1>1, <3>1, AboveMain
      <4>2. QED BY <1>1, <2>2, <3>1, <4>1, FS_EmptySet DEF LevelsInvariant
    <3>2. CASE m # MainTable
      <4>1. m \in Details
        BY <1>1, <3>2 DEF Tables
      <4>2. m \in Above(masterName, t) \ {t, MainTable}
        BY <1>1, <2>1, <3>2, AboveIsClosed
      <4>3. AfterItsMaster(m) /\ MastersInOrder(m)
        BY <1>7, <2>1, <4>2 DEF MastersInOrder
      <4>4. Linked(k, m)
        BY <1>1, <2>2, <4>1, <4>3 DEF LinksInvariant, LinksNext
      <4>5. QED BY <1>1, <2>2, <4>1, <4>3, <4>4 DEF LevelsInvariant
    <3>3. QED BY <3>1, <3>2
  <2>4. QED BY <1>3, <2>1, <2>2, <2>3
<1>8. \A k \in 1..MaxModules : \A s \in Details :
         Linked(k, s)' /\ MastersInOrder(s)' =>
           level'[Object(k, s)] = Cardinality(Above(masterName', s) \ {s})
  BY <1>1, <1>2, <1>6, <1>7
<1>9. QED BY <1>1, <1>4, <1>5, <1>8 DEF LevelsInvariant

\* A step that links nothing keeps the levels.
LEMMA UnlinkedCounts ==
  ASSUME TypeOK, LevelsInvariant, UNCHANGED <<definition, master, level>>
  PROVE  LevelsInvariant'
<1>1. \A t \in Details : MastersInOrder(t)' <=> MastersInOrder(t)
  BY OrderStays
<1>2. UNCHANGED <<masterName, master, level>>
  BY DEF definition
<1>3. QED BY <1>1, <1>2 DEF LevelsInvariant, Linked

\* The links of a step that links the next table, and of one that links nothing.
LEMMA LinkIsDue ==
  ASSUME IInv, NEW t \in Details, LinksNext(t)
  PROVE  /\ \A k \in 1..MaxModules : \A s \in Details :
               /\ Linked(k, s)' <=> Linked(k, s) \/ (k = module /\ s = t)
               /\ Linked(k, s)' => master'[Object(k, s)] = Due(k, s)'
<1>1. /\ TypeOK /\ LinksInvariant /\ module \in 1..MaxModules
  BY DEF IInv, TypeOK
<1>2. \A k : \A s \in Details : Due(k, s)' = Due(k, s)
  BY <1>1, OrderStays DEF LinksNext
<1>3. /\ master'[Object(module, t)] = Due(module, t) /\ Due(module, t) # None
      /\ \A k \in 1..MaxModules : \A s \in Tables :
            k # module \/ s # t => master'[Object(k, s)] = master[Object(k, s)]
  BY OthersStay
<1>4. ASSUME NEW k \in 1..MaxModules, NEW s \in Details
      PROVE  /\ Linked(k, s)' <=> Linked(k, s) \/ (k = module /\ s = t)
             /\ Linked(k, s)' => master'[Object(k, s)] = Due(k, s)'
  <2>1. CASE k = module /\ s = t
    BY <1>2, <1>3, <2>1 DEF Linked
  <2>2. CASE k # module \/ s # t
    <3>1. master'[Object(k, s)] = master[Object(k, s)]
      BY <1>3, <2>2, DetailsAreNotMain
    <3>2. QED BY <1>1, <1>2, <2>2, <3>1 DEF Linked, LinksInvariant
  <2>3. QED BY <2>1, <2>2
<1>5. QED BY <1>4

LEMMA NoLinkIsDue ==
  ASSUME TypeOK, LinksInvariant, UNCHANGED <<definition, master>>
  PROVE  /\ \A k \in 1..MaxModules : \A s \in Details :
               /\ Linked(k, s)' <=> Linked(k, s)
               /\ Linked(k, s)' => master'[Object(k, s)] = Due(k, s)'
<1>1. \A k : \A s \in Details : Due(k, s)' = Due(k, s)
  BY OrderStays
<1>2. QED BY <1>1 DEF Linked, LinksInvariant

\* Every step keeps the invariant.
LEMMA CreateDetailTableKeeps == IInv /\ CreateDetailTable => IInv'
<1> SUFFICES ASSUME IInv, CreateDetailTable PROVE IInv'
  OBVIOUS
<1>1. TypeOK /\ ListInvariant /\ DetailsInvariant /\ OptionsInvariant /\ LinksInvariant /\ LevelsInvariant
  BY DEF IInv
<1>2. PICK t : t = options[next]
  OBVIOUS
<1>3. /\ t \in Details /\ t \notin Listed(list) /\ next + 1 \in 1..(Cardinality(Details) + 1)
      /\ AfterItsMaster(t) <=> masterName[t] \in Listed(list)
      /\ Listed(Append(list, t)) = Listed(list) \cup {t} /\ Append(list, t) \in Seq(Tables)
  BY <1>1, <1>2, Creating DEF CreateDetailTable
<1>4. /\ pass = "create" /\ pass' = "create" /\ next' = next + 1 /\ list' = Append(list, t)
      /\ UNCHANGED <<options, masterName, module, definition>>
  BY <1>2 DEF CreateDetailTable, definition
<1>5. IF AfterItsMaster(t)
      THEN /\ LinkedTo(Object(module, t), Due(module, t))
           /\ keyFields' = keyFields \cup {t}
           /\ optionMaster' = [optionMaster EXCEPT ![t] = Object(1, masterName[t])]
      ELSE /\ UNCHANGED <<keyFields, master, level, detailTables>>
           /\ optionMaster' = [optionMaster EXCEPT ![t] = None]
  BY <1>2, Constructs
<1>6. Listed(list') = Listed(list) \cup {t}
  BY <1>3, <1>4
<1>7. ~Linked(module, t)
  BY <1>1, <1>3 DEF LinksInvariant
<1>8. /\ \A s \in Details : AfterItsMaster(s)' <=> AfterItsMaster(s)
      /\ module \in 1..MaxModules /\ masterName[t] \in Tables
      /\ optionMaster \in [Details -> Objects \cup {None}] /\ keyFields \subseteq Details
  BY <1>1, <1>3, <1>4, OrderStays DEF TypeOK
<1>9. ListInvariant'
  <2>1. [Next]_vars
    BY DEF Next
  <2>2. QED BY <1>1, <2>1, ListKeeps
<1>10. OptionsInvariant'
  <2>1. optionMaster[t] = IF AfterItsMaster(t) /\ module > 1 THEN Object(1, masterName[t]) ELSE None
    BY <1>1, <1>3 DEF OptionsInvariant
  <2>2. Object(1, masterName[t]) # None
    BY <1>8, ObjectsAreDistinct, ObjectsOfDetails
  <2>3. /\ optionMaster' = [optionMaster EXCEPT ![t] =
                              IF AfterItsMaster(t) THEN Object(1, masterName[t]) ELSE None]
        /\ keyFields' = IF AfterItsMaster(t) THEN keyFields \cup {t} ELSE keyFields
    BY <1>5
  <2>4. /\ optionMaster'[t] = IF AfterItsMaster(t) THEN Object(1, masterName[t]) ELSE None
        /\ \A s \in Details \ {t} : optionMaster'[s] = optionMaster[s]
    BY <1>3, <1>8, <2>3
  <2>5. \A s \in Details :
           optionMaster'[s] = IF AfterItsMaster(s) /\ (module > 1 \/ s \in Listed(list'))
                              THEN Object(1, masterName[s]) ELSE None
    BY <1>1, <1>6, <2>4 DEF OptionsInvariant
  <2>6. keyFields' = Keyed \cup {s \in Details : optionMaster'[s] # None}
    <3>1. keyFields = Keyed \cup {s \in Details : optionMaster[s] # None}
      BY <1>1 DEF OptionsInvariant
    <3>2. CASE AfterItsMaster(t)
      BY <1>3, <2>2, <2>3, <2>4, <3>1, <3>2
    <3>3. CASE ~AfterItsMaster(t)
      BY <1>3, <2>1, <2>3, <2>4, <3>1, <3>3
    <3>4. QED BY <3>2, <3>3
  <2>7. QED BY <1>4, <1>8, <2>5, <2>6 DEF OptionsInvariant
<1>11. CASE AfterItsMaster(t)
  <2>1. LinksNext(t)
    BY <1>3, <1>4, <1>5, <1>7, <1>11 DEF LinksNext
  <2>2. /\ master' \in [Objects -> Objects \cup {None}] /\ level' \in [Objects -> Nat]
        /\ detailTables' \in [Objects -> Seq(DetailObjects)] /\ DetailsInvariant'
    BY <1>3, <2>1, OthersStay
  <2>3. Object(1, masterName[t]) \in Objects
    BY <1>8, ObjectsAreDistinct, ObjectsOfDetails
  <2>4. TypeOK'
    BY <1>1, <1>3, <1>4, <1>5, <1>8, <1>11, <2>2, <2>3 DEF TypeOK
  <2>5. \A k \in 1..MaxModules : \A s \in Details :
           /\ Linked(k, s)' <=> Linked(k, s) \/ (k = module /\ s = t)
           /\ Linked(k, s)' => master'[Object(k, s)] = Due(k, s)'
    BY <1>3, <2>1, LinkIsDue
  <2>6. LinksInvariant'
    BY <1>1, <1>3, <1>4, <1>6, <1>8, <2>5 DEF LinksInvariant
  <2>7. LevelsInvariant'
    BY <1>3, <2>1, LinkCounts
  <2>8. QED BY <1>9, <1>10, <2>2, <2>4, <2>6, <2>7 DEF IInv
<1>12. CASE ~AfterItsMaster(t)
  <2>1. UNCHANGED <<keyFields, master, level, detailTables>>
    BY <1>5, <1>12
  <2>2. TypeOK'
    BY <1>1, <1>3, <1>4, <1>5, <1>8, <1>12, <2>1 DEF TypeOK
  <2>3. \A k \in 1..MaxModules : \A s \in Details :
           /\ Linked(k, s)' <=> Linked(k, s)
           /\ Linked(k, s)' => master'[Object(k, s)] = Due(k, s)'
    BY <1>1, <1>4, <2>1, NoLinkIsDue
  <2>4. LinksInvariant'
    BY <1>1, <1>3, <1>4, <1>6, <1>8, <1>12, <2>3 DEF LinksInvariant
  <2>5. DetailsInvariant' /\ LevelsInvariant'
    BY <1>1, <1>4, <2>1, UnlinkedCounts DEF DetailsInvariant
  <2>6. QED BY <1>9, <1>10, <2>2, <2>4, <2>5 DEF IInv
<1>13. QED BY <1>11, <1>12

LEMMA LinkDetailTableKeeps == IInv /\ LinkDetailTable => IInv'
<1> SUFFICES ASSUME IInv, LinkDetailTable PROVE IInv'
  OBVIOUS
<1> DEFINE N == Cardinality(Details)
<1>1. TypeOK /\ ListInvariant /\ DetailsInvariant /\ OptionsInvariant /\ LinksInvariant /\ LevelsInvariant
  BY DEF IInv
<1>2. PICK t : t = options[next]
  OBVIOUS
<1>3. /\ t \in Details /\ next + 1 \in 1..(N + 1) /\ UNCHANGED <<optionMaster, keyFields>>
      /\ IF Linked(module, t) THEN UNCHANGED <<master, level, detailTables>>
         ELSE LinkedTo(Object(module, t), Due(module, t))
  BY <1>2, Links
<1>4. /\ pass = "link" /\ pass' = "link" /\ next' = next + 1
      /\ UNCHANGED <<options, masterName, module, list, definition>>
  BY <1>2 DEF LinkDetailTable, definition
<1>5. /\ N \in Nat /\ options \in [1..N -> Details] /\ next \in 1..N /\ module \in 1..MaxModules
      /\ masterName \in [Details -> Tables]
  BY <1>1, DetailsAreFinite DEF TypeOK, LinkDetailTable
<1> HIDE DEF N
<1>6. \A i \in 1..(next' - 1) : (i \in 1..(next - 1) \/ i = next) /\ options[i] \in Details
  BY <1>4, <1>5
<1>7. Listed(list') = Listed(list) /\ Listed(list) = Tables
  BY <1>1, <1>4, AllAreListed
<1>8. \A s \in Details : AfterItsMaster(s)' <=> AfterItsMaster(s)
  BY <1>1, <1>4, OrderStays
<1>9. ListInvariant'
  <2>1. [Next]_vars
    BY DEF Next
  <2>2. QED BY <1>1, <2>1, ListKeeps
<1>10. OptionsInvariant'
  BY <1>1, <1>3, <1>4, <1>7, <1>8 DEF OptionsInvariant
<1>11. CASE ~Linked(module, t)
  <2>1. LinksNext(t)
    BY <1>3, <1>4, <1>5, <1>7, <1>11 DEF LinksNext
  <2>2. /\ master' \in [Objects -> Objects \cup {None}] /\ level' \in [Objects -> Nat]
        /\ detailTables' \in [Objects -> Seq(DetailObjects)] /\ DetailsInvariant'
    BY <1>3, <2>1, OthersStay
  <2>3. TypeOK'
    BY <1>1, <1>3, <1>4, <2>2 DEF TypeOK, N
  <2>4. \A k \in 1..MaxModules : \A s \in Details :
           /\ Linked(k, s)' <=> Linked(k, s) \/ (k = module /\ s = t)
           /\ Linked(k, s)' => master'[Object(k, s)] = Due(k, s)'
    BY <1>3, <2>1, LinkIsDue
  <2>5. \A i \in 1..(next' - 1) : Linked(module, options[i])'
    BY <1>1, <1>2, <1>4, <1>5, <1>6, <2>4 DEF LinksInvariant
  <2>6. LinksInvariant'
    BY <1>1, <1>3, <1>4, <1>5, <1>7, <1>8, <2>4, <2>5, DetailsAreNotMain DEF LinksInvariant
  <2>7. LevelsInvariant'
    BY <1>3, <2>1, LinkCounts
  <2>8. QED BY <1>9, <1>10, <2>2, <2>3, <2>6, <2>7 DEF IInv
<1>12. CASE Linked(module, t)
  <2>1. UNCHANGED <<master, level, detailTables>>
    BY <1>3, <1>12
  <2>2. TypeOK'
    BY <1>1, <1>3, <1>4, <2>1 DEF TypeOK, N
  <2>3. \A k \in 1..MaxModules : \A s \in Details :
           /\ Linked(k, s)' <=> Linked(k, s)
           /\ Linked(k, s)' => master'[Object(k, s)] = Due(k, s)'
    BY <1>1, <1>4, <2>1, NoLinkIsDue
  <2>4. \A i \in 1..(next' - 1) : Linked(module, options[i])'
    BY <1>1, <1>2, <1>4, <1>5, <1>6, <1>12, <2>3 DEF LinksInvariant
  <2>5. LinksInvariant'
    BY <1>1, <1>4, <1>5, <1>7, <1>8, <2>3, <2>4 DEF LinksInvariant
  <2>6. DetailsInvariant' /\ LevelsInvariant'
    BY <1>1, <1>4, <2>1, UnlinkedCounts DEF DetailsInvariant
  <2>7. QED BY <1>9, <1>10, <2>2, <2>5, <2>6 DEF IInv
<1>13. QED BY <1>11, <1>12

\* Every detail is linked when the second pass is over.
LEMMA AllAreLinked ==
  ASSUME TypeOK, LinksInvariant, Finish
  PROVE  \A t \in Details : Linked(module, t)
<1> DEFINE N == Cardinality(Details)
<1>1. /\ N \in Nat /\ options \in [1..N -> Details] /\ Len(options) = N /\ next \in 1..(N + 1)
      /\ Listed(options) = Details /\ pass = "link" /\ next > Len(options)
  BY DetailsAreFinite DEF TypeOK, Finish
<1> HIDE DEF N
<1>2. SUFFICES ASSUME NEW t \in Details PROVE Linked(module, t)
  OBVIOUS
<1>3. PICK i \in 1..N : options[i] = t
  BY <1>1 DEF Listed
<1>4. i \in 1..(next - 1)
  BY <1>1
<1>5. QED BY <1>1, <1>3, <1>4 DEF LinksInvariant

\* The steps between the passes, and between the modules.
LEMMA OtherStepsKeep ==
  ASSUME IInv, CreateMainTable \/ StartLinking \/ Finish \/ NextModule \/ UNCHANGED vars
  PROVE  IInv'
<1>1. TypeOK /\ ListInvariant /\ DetailsInvariant /\ OptionsInvariant /\ LinksInvariant /\ LevelsInvariant
  BY DEF IInv
<1>2. UNCHANGED <<definition, links>>
  BY DEF CreateMainTable, StartLinking, Finish, NextModule, vars
<1>3. UNCHANGED <<definition, options, masterName, optionMaster, keyFields, master, level, detailTables>>
  BY <1>2 DEF definition, links
<1>4. ListInvariant'
  <2>1. [Next]_vars
    BY DEF Next
  <2>2. QED BY <1>1, <2>1, ListKeeps
<1>5. DetailsInvariant' /\ LevelsInvariant'
  BY <1>1, <1>3, UnlinkedCounts DEF DetailsInvariant
<1>6. \A s \in Details : AfterItsMaster(s)' <=> AfterItsMaster(s)
  BY <1>1, <1>3, OrderStays
<1>7. \A k \in 1..MaxModules : \A s \in Details :
         /\ Linked(k, s)' <=> Linked(k, s)
         /\ Linked(k, s)' => master'[Object(k, s)] = Due(k, s)'
  BY <1>1, <1>3, NoLinkIsDue
<1>8. Cardinality(Details) \in Nat /\ module \in 1..MaxModules /\ MainTable \in Tables
  BY <1>1, DetailsAreFinite, DetailsAreNotMain DEF TypeOK
<1>9. CASE CreateMainTable
  <2>1. /\ pass = "main" /\ pass' = "create" /\ list' = <<MainTable>> /\ UNCHANGED <<module, next>>
        /\ list = <<>>
    BY <1>1, <1>9 DEF CreateMainTable, ListInvariant
  <2>2. Listed(list) = {} /\ Listed(list') = {MainTable} /\ MainTable \notin Details
    BY <2>1, DetailsAreNotMain DEF Listed
  <2>3. TypeOK'
    BY <1>1, <1>3, <1>8, <2>1 DEF TypeOK
  <2>4. OptionsInvariant'
    BY <1>1, <1>3, <1>6, <2>1, <2>2 DEF OptionsInvariant
  <2>5. LinksInvariant'
    BY <1>1, <1>3, <1>6, <1>7, <1>8, <2>1, <2>2 DEF LinksInvariant
  <2>6. QED BY <1>4, <1>5, <2>3, <2>4, <2>5 DEF IInv
<1>10. CASE StartLinking \/ Finish \/ UNCHANGED vars
  <2>1. UNCHANGED <<module, list>>
    BY <1>10 DEF StartLinking, Finish, vars
  <2>2. Listed(list') = Listed(list)
    BY <2>1
  <2>3. OptionsInvariant'
    BY <1>1, <1>3, <1>6, <2>1, <2>2 DEF OptionsInvariant
  <2>4. CASE StartLinking
    <3>1. next' = 1 /\ pass' = "link"
      BY <2>4 DEF StartLinking
    <3>2. TypeOK'
      BY <1>1, <1>3, <1>8, <2>1, <3>1 DEF TypeOK
    <3>3. \A i : i \notin 1..(next' - 1)
      BY <3>1
    <3>4. LinksInvariant'
      BY <1>1, <1>3, <1>6, <1>7, <1>8, <2>1, <2>2, <3>1, <3>3 DEF LinksInvariant
    <3>5. QED BY <1>4, <1>5, <2>3, <3>2, <3>4 DEF IInv
  <2>5. CASE Finish
    <3>1. pass' = "done" /\ next' = next
      BY <2>5 DEF Finish
    <3>2. TypeOK'
      BY <1>1, <1>3, <1>8, <2>1, <3>1 DEF TypeOK
    <3>3. \A s \in Details : Linked(module, s)
      BY <1>1, <2>5, AllAreLinked
    <3>4. LinksInvariant'
      BY <1>1, <1>3, <1>6, <1>7, <1>8, <2>1, <2>2, <3>1, <3>3 DEF LinksInvariant
    <3>5. QED BY <1>4, <1>5, <2>3, <3>2, <3>4 DEF IInv
  <2>6. CASE UNCHANGED vars
    <3>1. pass' = pass /\ next' = next
      BY <2>6 DEF vars
    <3>2. TypeOK'
      BY <1>1, <1>3, <2>1, <3>1 DEF TypeOK
    <3>3. pass = "link" => \A i \in 1..(next - 1) : options[i] \in Details /\ Linked(module, options[i])
      <4>1. DOMAIN options = 1..Cardinality(Details) /\ next \in 1..(Cardinality(Details) + 1)
            /\ \A i \in 1..Cardinality(Details) : options[i] \in Details
        BY <1>1 DEF TypeOK
      <4>2. \A i \in 1..(next - 1) : i \in 1..Cardinality(Details)
        BY <1>8, <4>1
      <4>3. QED BY <1>1, <4>1, <4>2 DEF LinksInvariant
    <3>4. LinksInvariant'
      BY <1>1, <1>3, <1>6, <1>7, <1>8, <2>1, <2>2, <3>1, <3>3 DEF LinksInvariant
    <3>5. QED BY <1>4, <1>5, <2>3, <3>2, <3>4 DEF IInv
  <2>7. QED BY <1>10, <2>4, <2>5, <2>6
<1>11. CASE NextModule
  <2>1. /\ pass = "done" /\ module < MaxModules /\ module' = module + 1 /\ list' = <<>>
        /\ pass' = "main" /\ next' = 1
    BY <1>11 DEF NextModule
  <2>2. /\ Listed(list') = {} /\ Listed(list) = Tables /\ Details \subseteq Tables
        /\ module' \in 1..MaxModules /\ module' > 1
    BY <1>1, <1>8, <2>1, AllAreListed, DetailsAreNotMain, TablesAssumption DEF Listed
  <2>3. TypeOK'
    BY <1>1, <1>3, <1>8, <2>1, <2>2 DEF TypeOK
  <2>4. OptionsInvariant'
    <3>1. \A t \in Details : optionMaster[t] = IF AfterItsMaster(t) THEN Object(1, masterName[t]) ELSE None
      BY <1>1, <2>2 DEF OptionsInvariant
    <3>2. QED BY <1>1, <1>3, <1>6, <2>2, <3>1 DEF OptionsInvariant
  <2>5. \A k \in 1..MaxModules : (k < module' <=> k < module \/ k = module) /\ (k > module' => k > module)
        /\ module' > module
    BY <1>8, <2>1
  <2>6. LinksInvariant'
    <3>1. \A k \in 1..MaxModules : \A s \in Details :
             /\ Linked(k, s)' => master'[Object(k, s)] = Due(k, s)'
             /\ k < module' => Linked(k, s)'
             /\ k > module' => ~Linked(k, s)'
      BY <1>1, <1>7, <2>1, <2>5 DEF LinksInvariant
    <3>2. \A s \in Details : ~Linked(module, s)'
      <4>1. PICK l \in 1..MaxModules : l = module'
        BY <2>2
      <4>2. \A s \in Details : ~Linked(l, s)'
        BY <1>1, <1>7, <1>8, <2>5, <4>1 DEF LinksInvariant
      <4>3. QED BY <4>1, <4>2 DEF Linked
    <3>3. QED BY <2>1, <2>2, <3>1, <3>2 DEF LinksInvariant
  <2>7. QED BY <1>4, <1>5, <2>3, <2>4, <2>6 DEF IInv
<1>12. QED BY <1>9, <1>10, <1>11

\* The list has the tables in the order of the options; a detail is linked as soon as both
\* it and its master are there, in the first pass wherever the master is listed before it,
\* and then its option keeps that master; DetailTables is the inverse of MasterTable; and the
\* level of a table whose masters are all listed so is the number of its masters.
THEOREM LevelInvariant == Spec => []IInv
<1>1. Init => IInv
  BY InvariantInit
<1>2. IInv /\ [Next]_vars => IInv'
  BY CreateDetailTableKeeps, LinkDetailTableKeeps, OtherStepsKeep DEF Next
<1>3. QED BY <1>1, <1>2, PTL DEF Spec

\* However many tables a definition has, and in whatever order it lists them, every detail
\* of the first module hangs off the master that it names, once, and in a further module a
\* detail that is listed after its master hangs off the first module's
\* (initializeModuleDefinition, the constructor and the MasterTable setter).
THEOREM DefinitionIsFollowed == Spec => []LinksFollowTheDefinition
<1>1. IInv => LinksFollowTheDefinition
  <2> SUFFICES ASSUME IInv, pass = "done", NEW t \in Details
               PROVE  /\ master[Object(module, t)] = Due(module, t)
                      /\ \A m \in Objects :
                           Cardinality({i \in DOMAIN detailTables[m] :
                                          detailTables[m][i] = Object(module, t)})
                             = IF m = Due(module, t) THEN 1 ELSE 0
    BY DEF LinksFollowTheDefinition, Due
  <2> DEFINE o == Object(module, t)
             due == Due(module, t)
  <2>1. DetailsInvariant /\ LinksInvariant /\ module \in 1..MaxModules
    BY DEF IInv, TypeOK
  <2>2. master[o] = due /\ o \in DetailObjects
    BY <2>1, ObjectsAreDistinct DEF LinksInvariant
  <2> HIDE DEF o, due
  <2>3. ASSUME NEW m \in Objects
        PROVE  Cardinality({i \in DOMAIN detailTables[m] : detailTables[m][i] = o})
                 = IF m = due THEN 1 ELSE 0
    <3> DEFINE P == {i \in DOMAIN detailTables[m] : detailTables[m][i] = o}
    <3>1. o \in Listed(detailTables[m]) <=> m = due
      BY <2>1, <2>2 DEF DetailsInvariant
    <3>2. CASE m = due
      <4>1. PICK i \in DOMAIN detailTables[m] : detailTables[m][i] = o
        BY <3>1, <3>2 DEF Listed
      <4>2. P = {i}
        BY <2>1, <4>1 DEF DetailsInvariant
      <4>3. Cardinality(P) = 1
        BY <4>2, FS_Singleton
      <4>4. QED BY <3>2, <4>3
    <3>3. CASE m # due
      <4>1. P = {}
        BY <3>1, <3>3 DEF Listed
      <4>2. Cardinality(P) = 0
        BY <4>1, FS_EmptySet
      <4>3. QED BY <3>3, <4>2
    <3>4. QED BY <3>2, <3>3
  <2>4. QED BY <2>2, <2>3 DEF o, due
<1>2. QED BY <1>1, LevelInvariant, PTL

\* A table that the second pass links never knows the key fields of its master, unless its
\* options came with them; every other table does.
THEOREM KeyFieldsAreTheConstructors == Spec => []KeyFieldsFollowTheOrder
<1>1. IInv => KeyFieldsFollowTheOrder
  <2> SUFFICES ASSUME IInv, pass = "done", NEW t \in Details
               PROVE  t \in keyFields <=> t \in Keyed \/ AfterItsMaster(t)
    BY DEF KeyFieldsFollowTheOrder
  <2>1. TypeOK /\ ListInvariant /\ OptionsInvariant
    BY DEF IInv
  <2>2. t \in Listed(list) /\ masterName[t] \in Tables
    BY <2>1, AllAreListed, DetailsAreNotMain DEF TypeOK
  <2>3. optionMaster[t] = IF AfterItsMaster(t) THEN Object(1, masterName[t]) ELSE None
    BY <2>1, <2>2 DEF OptionsInvariant
  <2>4. Object(1, masterName[t]) # None
    BY <2>2, ObjectsAreDistinct, ObjectsOfDetails
  <2>5. t \in keyFields <=> t \in Keyed \/ optionMaster[t] # None
    BY <2>1 DEF OptionsInvariant
  <2>6. QED BY <2>3, <2>4, <2>5
<1>2. QED BY <1>1, LevelInvariant, PTL

LEMMA LevelsCounted == IInv => LevelsCountTheMasters
<1> SUFFICES ASSUME IInv, pass = "done", NEW t \in Details,
                    \A m \in (Above(masterName, t) \ {t}) \ {MainTable} :
                       Place(masterName[m]) < Place(m)
             PROVE  level[Object(module, t)] = Cardinality(Above(masterName, t) \ {t})
  BY DEF LevelsCountTheMasters
<1> DEFINE N == Cardinality(Details)
<1>0. TypeOK /\ LinksInvariant /\ ListInvariant /\ LevelsInvariant /\ module \in 1..MaxModules
  BY DEF IInv, TypeOK
<1>1. /\ N \in Nat /\ options \in [1..N -> Details] /\ Listed(options) = Details
      /\ masterName \in [Details -> Tables] /\ list \in Seq(Tables)
      /\ Len(list) = N + 1 /\ list[1] = MainTable /\ \A i \in 1..N : list[i + 1] = options[i]
      /\ \A i, j \in 1..N : options[i] = options[j] => i = j
  BY <1>0, DetailsAreFinite DEF TypeOK, ListInvariant, Created
<1> HIDE DEF N
<1>2. DOMAIN list = 1..(N + 1)
  BY <1>1
<1>3. \A i \in 1..N : Place(options[i]) = i + 1
  <2>1. SUFFICES ASSUME NEW i \in 1..N PROVE Place(options[i]) = i + 1
    OBVIOUS
  <2>2. i + 1 \in DOMAIN list /\ list[i + 1] = options[i]
    BY <1>1, <1>2
  <2>3. ASSUME NEW j \in DOMAIN list, list[j] = options[i]
        PROVE  j = i + 1
    <3>1. j # 1 /\ options[i] \in Details
      BY <1>1, <2>3, DetailsAreNotMain
    <3>2. j - 1 \in 1..N /\ (j - 1) + 1 = j
      BY <1>1, <1>2, <3>1
    <3>3. options[j - 1] = options[i]
      BY <1>1, <2>3, <3>2
    <3>4. j - 1 = i
      BY <1>1, <3>2, <3>3
    <3>5. QED BY <3>2, <3>4
  <2>4. QED BY <2>2, <2>3 DEF Place
<1>4. MastersInOrder(t)
  <2>1. SUFFICES ASSUME NEW m \in Above(masterName, t) \ {t, MainTable} PROVE AfterItsMaster(m)
    BY DEF MastersInOrder
  <2>2. m \in Details /\ masterName[m] \in Tables /\ Place(masterName[m]) < Place(m)
    BY <1>1, AboveIsClosed, DetailsAreNotMain DEF Tables
  <2>3. CASE masterName[m] = MainTable
    BY <2>3 DEF AfterItsMaster
  <2>4. CASE masterName[m] # MainTable
    <3>1. masterName[m] \in Details
      BY <2>2, <2>4 DEF Tables
    <3>2. PICK i \in 1..N, j \in 1..N : options[i] = masterName[m] /\ options[j] = m
      BY <1>1, <2>2, <3>1 DEF Listed
    <3>3. Place(masterName[m]) = i + 1 /\ Place(m) = j + 1
      BY <1>3, <3>2
    <3>4. i + 1 < j + 1
      BY <2>2, <3>3
    <3>5. i < j
      BY <1>1, <3>4
    <3>6. QED BY <1>1, <3>2, <3>5 DEF AfterItsMaster
  <2>5. QED BY <2>3, <2>4
<1>5. Linked(module, t)
  BY <1>0 DEF LinksInvariant
<1>6. QED BY <1>0, <1>4, <1>5 DEF LevelsInvariant

\* However deep the hierarchy, the level of a table counts its masters where the definition
\* lists each of these after its own, which is what Save relies on (the constructor,
\* the MasterTable setter, initializeModuleDefinition).
THEOREM LevelsAreCounted == Spec => []LevelsCountTheMasters
BY LevelInvariant, LevelsCounted, PTL

\* The tables of a detail whose masters are all listed after their own have growing levels:
\* where this is so for every detail, the module satisfies MastersAbove, under which its
\* Save is rejected only for inconsistent changes (OrpheusModule, PlainSaves).
THEOREM LevelsGrow == Spec => []MastersAreAbove
<1>1. IInv => MastersAreAbove
  <2> SUFFICES ASSUME IInv, pass = "done", NEW t \in Details, MastersInOrder(t)
               PROVE  level[Object(module, masterName[t])] < level[Object(module, t)]
    BY DEF MastersAreAbove
  <2> DEFINE m == masterName[t]
  <2>1. /\ masterName \in [Details -> Tables] /\ m \in Tables /\ t \in Tables
        /\ LevelsInvariant /\ LinksInvariant /\ module \in 1..MaxModules
    BY DetailsAreNotMain DEF IInv, TypeOK
  <2>2. /\ Above(masterName, t) \ {t} = Above(masterName, m)
        /\ Cardinality(Above(masterName, t) \ {t}) = Cardinality(Above(masterName, m) \ {m}) + 1
        /\ Cardinality(Above(masterName, t) \ {t}) \in Nat
    BY <2>1, MastersCount DEF LevelsInvariant
  <2>3. level[Object(module, t)] = Cardinality(Above(masterName, t) \ {t})
    BY <2>1 DEF LinksInvariant, LevelsInvariant
  <2>4. level[Object(module, m)] = Cardinality(Above(masterName, m) \ {m})
    <3>1. CASE m = MainTable
      <4>1. Above(masterName, m) \ {m} = {}
        BY <2>1, <3>1, AboveMain
      <4>2. QED BY <2>1, <3>1, <4>1, FS_EmptySet DEF LevelsInvariant
    <3>2. CASE m # MainTable
      <4>1. m \in Details
        BY <2>1, <3>2 DEF Tables
      <4>2. MastersInOrder(m)
        BY <2>2 DEF MastersInOrder
      <4>3. QED BY <2>1, <4>1, <4>2 DEF LinksInvariant, LevelsInvariant
    <3>3. QED BY <3>1, <3>2
  <2>5. level[Object(module, m)] \in Nat
    BY <2>1, ObjectsAreDistinct DEF IInv, TypeOK
  <2>6. QED BY <2>2, <2>3, <2>4, <2>5
<1>2. QED BY <1>1, LevelInvariant, PTL
===============================================================================
