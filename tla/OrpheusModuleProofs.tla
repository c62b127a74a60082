------------------------- MODULE OrpheusModuleProofs -------------------------
(***************************************************************************)
(* Theorems about OrpheusModule, for every hierarchy of tables, every set  *)
(* of records and every choice of the caller's steps and of faults.        *)
(***************************************************************************)
EXTENDS OrpheusModule, TLAPS, FiniteSetTheorems, SetInduction

-----------------------------------------------------------------------------
(***************************************************************************)
(* The commands on the rows of a table.                                    *)
(***************************************************************************)
Table(T) == DOMAIN T \subseteq Records /\ T \in [DOMAIN T -> Records \cup {None}]

Entries(q) == q \subseteq Entry /\ OneEach(q)

\* U has the rows of D: the entries' foreign keys, where there are entries, and T's else.
Overridden(U, D, T, q) ==
  /\ Table(U) /\ DOMAIN U = D
  /\ \A e \in q : e.rec \in D => U[e.rec] = e.fk
  /\ \A r \in D : (\A e \in q : e.rec # r) => U[r] = T[r]

Recs(q) == {e.rec : e \in q}

\* What Removed, Updated and Inserted make of a table (the DELETE, UPDATE and INSERT of
\* executeDelete, executeUpdate and executeInsert).
LEMMA RemovedTable ==
  ASSUME NEW T, Table(T), NEW D
  PROVE  /\ Table(Removed(T, D))
         /\ DOMAIN Removed(T, D) = DOMAIN T \ D
         /\ \A r \in DOMAIN T \ D : Removed(T, D)[r] = T[r]
BY DEF Table, Removed

LEMMA OverriddenTable ==
  ASSUME NEW T, NEW D, D \subseteq Records, NEW q, Entries(q),
         \A r \in D : (\A e \in q : e.rec # r) => T[r] \in Records \cup {None}
  PROVE  Overridden([r \in D |-> IF \E e \in q : e.rec = r
                                 THEN (CHOOSE e \in q : e.rec = r).fk ELSE T[r]], D, T, q)
<1> DEFINE U == [r \in D |-> IF \E e \in q : e.rec = r
                             THEN (CHOOSE e \in q : e.rec = r).fk ELSE T[r]]
<1>1. \A e \in q : (CHOOSE d \in q : d.rec = e.rec) = e
  BY DEF Entries, OneEach
<1>2. \A e \in q : e.fk \in Records \cup {None}
  BY DEF Entries, Entry
<1>3. \A e \in q : e.rec \in D => U[e.rec] = e.fk
  BY <1>1
<1>4. \A r \in D : (\A e \in q : e.rec # r) => U[r] = T[r]
  OBVIOUS
<1>5. \A r \in D : U[r] \in Records \cup {None}
  BY <1>2, <1>3, <1>4
<1>6. DOMAIN U = D /\ Table(U)
  BY <1>5 DEF Table
<1> HIDE DEF U
<1>7. Overridden(U, D, T, q)
  BY <1>3, <1>4, <1>6 DEF Overridden
<1>8. QED BY <1>7 DEF U

LEMMA UpdatedTable ==
  ASSUME NEW T, Table(T), NEW q, Entries(q)
  PROVE  Overridden(Updated(T, q), DOMAIN T, T, q)
BY OverriddenTable DEF Updated, Table

LEMMA InsertedTable ==
  ASSUME NEW T, Table(T), NEW q, Entries(q)
  PROVE  Overridden(Inserted(T, q), DOMAIN T \cup Recs(q), T, q)
<1>1. DOMAIN T \cup Recs(q) \subseteq Records
  BY DEF Table, Recs, Entries, Entry
<1>2. \A r \in DOMAIN T \cup Recs(q) :
         (\A e \in q : e.rec # r) => T[r] \in Records \cup {None}
  BY DEF Table, Recs
<1>3. Inserted(T, q) = [r \in DOMAIN T \cup Recs(q) |->
             IF \E e \in q : e.rec = r THEN (CHOOSE e \in q : e.rec = r).fk ELSE T[r]]
  BY DEF Inserted, Recs
<1>4. QED BY <1>1, <1>2, <1>3, OverriddenTable

\* Two tables are the same if they have the same rows.
LEMMA SameTable ==
  ASSUME NEW T, NEW U, Table(T), Table(U), DOMAIN T = DOMAIN U,
         \A r \in DOMAIN T : T[r] = U[r]
  PROVE  T = U
BY DEF Table

\* What is overridden twice is overridden by all the entries.
LEMMA OverriddenTwice ==
  ASSUME NEW s, NEW p, NEW q, p \subseteq s, q \subseteq s, s \subseteq p \cup q,
         OneEach(s),
         NEW T, NEW A, NEW B, NEW C, NEW D, NEW E, D \subseteq E,
         \A r \in E : r \in D \/ \E e \in q : e.rec = r,
         Overridden(A, D, T, p), Overridden(B, E, A, q), Overridden(C, E, T, s)
  PROVE  B = C
<1>1. ASSUME NEW r \in E
      PROVE  B[r] = C[r]
  <2>1. CASE \E e \in q : e.rec = r
    <3>1. PICK e \in q : e.rec = r
      BY <2>1
    <3>2. B[r] = e.fk /\ C[r] = e.fk
      BY <3>1 DEF Overridden
    <3>3. QED BY <3>2
  <2>2. CASE (\A e \in q : e.rec # r) /\ \E e \in p : e.rec = r
    <3>1. PICK e \in p : e.rec = r
      BY <2>2
    <3>2. r \in D /\ B[r] = A[r]
      BY <2>2 DEF Overridden
    <3>3. A[r] = e.fk /\ C[r] = e.fk
      BY <3>1, <3>2 DEF Overridden
    <3>4. QED BY <3>2, <3>3
  <2>3. CASE (\A e \in q : e.rec # r) /\ (\A e \in p : e.rec # r)
    <3>1. r \in D /\ B[r] = A[r]
      BY <2>3 DEF Overridden
    <3>2. A[r] = T[r] /\ C[r] = T[r]
      BY <2>3, <3>1 DEF Overridden
    <3>3. QED BY <3>1, <3>2
  <2>4. QED BY <2>1, <2>2, <2>3
<1>2. Table(B) /\ Table(C) /\ DOMAIN B = E /\ DOMAIN C = E
  BY DEF Overridden
<1>3. QED BY <1>1, <1>2, SameTable

\* Commands that are sent after one another act as one command.
LEMMA RemovedTwice ==
  ASSUME NEW T, Table(T), NEW C, NEW D
  PROVE  Removed(Removed(T, C), D) = Removed(T, C \cup D)
BY DEF Removed

LEMMA UpdatedTwice ==
  ASSUME NEW T, Table(T), NEW s, Entries(s),
         NEW p, NEW q, p \subseteq s, q \subseteq s, s \subseteq p \cup q
  PROVE  Updated(Updated(T, p), q) = Updated(T, s)
<1>1. Entries(p) /\ Entries(q)
  BY DEF Entries, OneEach
<1>2. Overridden(Updated(T, p), DOMAIN T, T, p)
  BY <1>1, UpdatedTable
<1>3. Table(Updated(T, p)) /\ DOMAIN Updated(T, p) = DOMAIN T
  BY <1>2 DEF Overridden
<1>4. Overridden(Updated(Updated(T, p), q), DOMAIN T, Updated(T, p), q)
  BY <1>1, <1>3, UpdatedTable
<1>5. Overridden(Updated(T, s), DOMAIN T, T, s)
  BY UpdatedTable
<1>6. QED BY <1>2, <1>4, <1>5, OverriddenTwice DEF Entries

LEMMA InsertedTwice ==
  ASSUME NEW T, Table(T), NEW s, Entries(s),
         NEW p, NEW q, p \subseteq s, q \subseteq s, s \subseteq p \cup q
  PROVE  Inserted(Inserted(T, p), q) = Inserted(T, s)
<1>1. Entries(p) /\ Entries(q)
  BY DEF Entries, OneEach
<1>2. Overridden(Inserted(T, p), DOMAIN T \cup Recs(p), T, p)
  BY <1>1, InsertedTable
<1>3. Table(Inserted(T, p)) /\ DOMAIN Inserted(T, p) = DOMAIN T \cup Recs(p)
  BY <1>2 DEF Overridden
<1>4. (DOMAIN T \cup Recs(p)) \cup Recs(q) = DOMAIN T \cup Recs(s)
  BY DEF Recs
<1>5. Overridden(Inserted(Inserted(T, p), q), DOMAIN T \cup Recs(s), Inserted(T, p), q)
  BY <1>1, <1>3, <1>4, InsertedTable
<1>6. Overridden(Inserted(T, s), DOMAIN T \cup Recs(s), T, s)
  BY InsertedTable
<1>7. \A r \in DOMAIN T \cup Recs(s) : r \in DOMAIN T \cup Recs(p) \/ \E e \in q : e.rec = r
  BY <1>4 DEF Recs
<1>8. DOMAIN T \cup Recs(p) \subseteq DOMAIN T \cup Recs(s)
  BY <1>4
<1>9. QED BY <1>2, <1>5, <1>6, <1>7, <1>8, OverriddenTwice DEF Entries

\* A command without entries changes nothing.
LEMMA NoCommand ==
  ASSUME NEW T, Table(T)
  PROVE  Removed(T, {}) = T /\ Updated(T, {}) = T /\ Inserted(T, {}) = T
BY DEF Table, Removed, Updated, Inserted

-----------------------------------------------------------------------------
(***************************************************************************)
(* Load.                                                                   *)
(***************************************************************************)
LoadBody(selected, f, t) ==
  IF t = MainTable THEN selected
  ELSE IF Master[t] = None THEN Listed(data[t])
  ELSE DetailRows(t, IF Position[Master[t]] < Position[t]
                     THEN f[Master[t]] ELSE Listed(data[Master[t]]))

Upto(n) == {t \in Tables : Position[t] <= n}
Solvable(selected, n) == \E f : f = [t \in Upto(n) |-> LoadBody(selected, f, t)]

\* Load(keys) is well defined: what a table gets depends on tables before it in the list
\* (Load(List<object>)).
LEMMA LoadedByEquation ==
  ASSUME NEW selected
  PROVE  LoadedBy(selected) = [t \in Tables |-> LoadBody(selected, LoadedBy(selected), t)]
<1> USE ModuleAssumption
<1> DEFINE Defined == {n \in Nat : Solvable(selected, n)}
<1>n. Cardinality(Tables) \in Nat
  BY FS_CardinalityType
<1>p. \A t \in Tables : Position[t] \in Nat \ {0}
  BY <1>n
<1>1. 0 \in Defined
  <2> DEFINE f0 == [t \in Upto(0) |-> selected]
  <2>1. Upto(0) = {}
    BY <1>p DEF Upto
  <2>2. f0 = [t \in Upto(0) |-> LoadBody(selected, f0, t)]
    BY <2>1
  <2>3. QED BY <2>2 DEF Solvable
<1>2. ASSUME NEW n \in Nat, n \in Defined PROVE n + 1 \in Defined
  <2>1. PICK f : f = [t \in Upto(n) |-> LoadBody(selected, f, t)]
    BY <1>2 DEF Solvable
  <2> DEFINE g == [t \in Upto(n + 1) |->
                     IF t \in Upto(n) THEN f[t] ELSE LoadBody(selected, f, t)]
  <2>2. ASSUME NEW t \in Upto(n + 1)
        PROVE  g[t] = LoadBody(selected, g, t)
    <3>1. g[t] = LoadBody(selected, f, t)
      BY <2>1
    <3>2. ASSUME t # MainTable, Master[t] # None, Position[Master[t]] < Position[t]
          PROVE  g[Master[t]] = f[Master[t]]
      <4>1. Master[t] \in Tables /\ Position[t] <= n + 1
        BY <3>2 DEF Upto
      <4>2. Master[t] \in Upto(n) /\ Master[t] \in Upto(n + 1)
        BY <3>2, <4>1, <1>p DEF Upto
      <4>3. QED BY <4>2
    <3> HIDE DEF g
    <3>3. LoadBody(selected, f, t) = LoadBody(selected, g, t)
      BY <3>2 DEF LoadBody
    <3>4. QED BY <3>1, <3>3
  <2>3. g = [t \in Upto(n + 1) |-> LoadBody(selected, g, t)]
    <3>1. g = [t \in Upto(n + 1) |-> g[t]]
      OBVIOUS
    <3>2. \A t \in Upto(n + 1) : g[t] = LoadBody(selected, g, t)
      BY <2>2
    <3> HIDE DEF g
    <3>3. QED BY <3>1, <3>2
  <2> HIDE DEF g
  <2>4. \E h : h = [t \in Upto(n + 1) |-> LoadBody(selected, h, t)]
    <3> WITNESS g
    <3> QED BY <2>3
  <2>5. QED BY <2>4 DEF Solvable
<1> HIDE DEF Defined
<1>3. \A n \in Nat : n \in Defined
  BY <1>1, <1>2, NatSetInduction
<1>4. PICK L : L = [t \in Tables |-> LoadBody(selected, L, t)]
  <2>1. Upto(Cardinality(Tables)) = Tables
    BY <1>n, <1>p DEF Upto
  <2>2. Cardinality(Tables) \in Defined
    BY <1>3, <1>n
  <2>3. QED BY <2>1, <2>2 DEF Defined, Solvable
<1>5. LoadedBy(selected) = CHOOSE h : h = [t \in Tables |-> LoadBody(selected, h, t)]
  BY DEF LoadedBy, LoadBody
<1>6. QED BY <1>4, <1>5

\* A listing of a set has its elements and no others.
LEMMA ListingLists ==
  ASSUME NEW S, S \subseteq Records, NEW l \in Listings(S)
  PROVE  l \in Seq(Records) /\ Listed(l) = S
<1>1. l \in [1..Cardinality(S) -> S] /\ \A x \in S : \E i \in DOMAIN l : l[i] = x
  BY DEF Listings
<1>2. Cardinality(S) \in Nat
  BY ModuleAssumption, FS_Subset, FS_CardinalityType
<1>3. l \in [1..Cardinality(S) -> Records]
  BY <1>1
<1>4. l \in Seq(Records)
  BY <1>2, <1>3
<1>5. QED BY <1>1, <1>4 DEF Listed

LEMMA ListedConcat ==
  ASSUME NEW s \in Seq(Records), NEW l \in Seq(Records)
  PROVE  s \o l \in Seq(Records) /\ Listed(s \o l) = Listed(s) \cup Listed(l)
<1>1. /\ s \o l \in Seq(Records) /\ DOMAIN (s \o l) = 1..(Len(s) + Len(l))
      /\ Len(s) \in Nat /\ Len(l) \in Nat
      /\ DOMAIN s = 1..Len(s) /\ DOMAIN l = 1..Len(l)
  OBVIOUS
<1>2. \A i \in DOMAIN s : i \in DOMAIN (s \o l) /\ (s \o l)[i] = s[i]
  BY <1>1
<1>3. \A i \in DOMAIN l : Len(s) + i \in DOMAIN (s \o l) /\ (s \o l)[Len(s) + i] = l[i]
  BY <1>1
<1>4. ASSUME NEW i \in DOMAIN (s \o l)
      PROVE  (s \o l)[i] \in Listed(s) \cup Listed(l)
  <2>1. CASE i <= Len(s)
    BY <1>1, <1>2, <2>1 DEF Listed
  <2>2. CASE i > Len(s)
    <3>1. i - Len(s) \in DOMAIN l /\ (s \o l)[i] = l[i - Len(s)]
      BY <1>1, <2>2
    <3>2. QED BY <3>1 DEF Listed
  <2>3. QED BY <1>1, <2>1, <2>2
<1>5. Listed(s \o l) \subseteq Listed(s) \cup Listed(l)
  BY <1>4 DEF Listed
<1>6. Listed(s) \subseteq Listed(s \o l)
  BY <1>2 DEF Listed
<1>7. Listed(l) \subseteq Listed(s \o l)
  BY <1>3 DEF Listed
<1>8. QED BY <1>1, <1>5, <1>6, <1>7

\* What the tables have in memory after the rows were read (loadData).
Before(fresh, appended) == [t \in Tables |-> IF t \in fresh \ appended THEN <<>> ELSE data[t]]

Appends(listing, fresh, before) ==
  [t \in Tables |-> IF t \in fresh THEN before[t] \o listing[t] ELSE before[t]]

ListsOf(listing, loaded, fresh) ==
  \A t \in fresh : loaded[t] \subseteq Records /\ listing[t] \in Listings(loaded[t])

HasRead(after, loaded, fresh, appended) ==
  /\ after \in [Tables -> Seq(Records)]
  /\ \A t \in fresh : Listed(after[t]) =
       (IF t \in appended THEN Listed(data[t]) ELSE {}) \cup loaded[t]
  /\ \A t \in Tables \ fresh : after[t] = data[t]

LEMMA ReadRowsReads ==
  ASSUME data \in [Tables -> Seq(Records)],
         NEW fresh \in SUBSET Tables, NEW appended, NEW loaded,
         NEW listing, ListsOf(listing, loaded, fresh)
  PROVE  HasRead(Appends(listing, fresh, Before(fresh, appended)), loaded, fresh, appended)
<1> DEFINE before == Before(fresh, appended)
           after == Appends(listing, fresh, before)
<1>1. ASSUME NEW t \in fresh
      PROVE  /\ after[t] \in Seq(Records)
             /\ Listed(after[t]) = (IF t \in appended THEN Listed(data[t]) ELSE {}) \cup loaded[t]
  <2>1. t \in Tables /\ after[t] = before[t] \o listing[t]
    BY <1>1 DEF Appends
  <2>2. listing[t] \in Seq(Records) /\ Listed(listing[t]) = loaded[t]
    BY <1>1, ListingLists DEF ListsOf
  <2>3. /\ before[t] \in Seq(Records)
        /\ Listed(before[t]) = IF t \in appended THEN Listed(data[t]) ELSE {}
    <3>1. Listed(<<>>) = {} /\ <<>> \in Seq(Records)
      BY DEF Listed
    <3>2. before[t] = IF t \in appended THEN data[t] ELSE <<>>
      BY <1>1, <2>1 DEF Before
    <3>3. data[t] \in Seq(Records)
      BY <2>1
    <3>4. QED BY <3>1, <3>2, <3>3
  <2>4. QED BY <2>1, <2>2, <2>3, ListedConcat
<1>2. \A t \in Tables \ fresh : after[t] = data[t]
  BY DEF Appends, Before
<1>3. after \in [Tables -> Seq(Records)]
  <2>1. \A t \in Tables : after[t] \in Seq(Records)
    BY <1>1, <1>2
  <2>2. after = [t \in Tables |-> after[t]]
    BY DEF Appends
  <2>3. QED BY <2>1, <2>2
<1>4. QED BY <1>1, <1>2, <1>3 DEF HasRead

\* The tables that a Load reads, and what it reads: rows of these tables.
LinkedTables == {t \in Tables : t = MainTable \/ Master[t] # None}
FirstDetails == {t \in Tables : t = MainTable \/ Master[t] = MainTable}

LEMMA LoadedByReads ==
  ASSUME NEW selected, selected \subseteq DOMAIN rows \cap Of(MainTable)
  PROVE  /\ LoadedBy(selected)[MainTable] = selected
         /\ \A t \in LinkedTables : LoadedBy(selected)[t] \subseteq DOMAIN rows \cap Of(t)
         /\ \A t \in Tables : t # MainTable /\ Master[t] # None =>
              LoadedBy(selected)[t] =
                DetailRows(t, IF Position[Master[t]] < Position[t]
                              THEN LoadedBy(selected)[Master[t]]
                              ELSE Listed(data[Master[t]]))
<1> DEFINE L == LoadedBy(selected)
<1>1. \A t \in Tables : L[t] = LoadBody(selected, L, t)
  BY LoadedByEquation
<1>2. \A t, masters : DetailRows(t, masters) \subseteq DOMAIN rows \cap Of(t)
  BY DEF DetailRows
<1>3. L[MainTable] = selected
  BY <1>1, ModuleAssumption DEF LoadBody
<1>4. \A t \in Tables : t # MainTable /\ Master[t] # None =>
        L[t] = DetailRows(t, IF Position[Master[t]] < Position[t]
                             THEN L[Master[t]] ELSE Listed(data[Master[t]]))
  BY <1>1 DEF LoadBody
<1> HIDE DEF L
<1>5. \A t \in LinkedTables : L[t] \subseteq DOMAIN rows \cap Of(t)
  BY <1>2, <1>3, <1>4 DEF LinkedTables
<1>6. QED BY <1>3, <1>4, <1>5 DEF L

LEMMA LoadedByFieldsReads ==
  ASSUME NEW selected, selected \subseteq DOMAIN rows \cap Of(MainTable), NEW kept
  PROVE  /\ LoadedByFields(selected, kept)[MainTable] = selected
         /\ \A t \in FirstDetails :
              LoadedByFields(selected, kept)[t] \subseteq DOMAIN rows \cap Of(t)
         /\ \A t \in Tables : Master[t] = MainTable =>
              LoadedByFields(selected, kept)[t] = DetailRows(t, kept \cup selected)
BY ModuleAssumption DEF LoadedByFields, FirstDetails, DetailRows

\* Load(keys) leaves the details of the masters in memory, on every level, and no others;
\* Load by fields does for the details of the main table (Load).
LEMMA LoadMatches ==
  ASSUME data \in [Tables -> Seq(Records)], MastersListedFirst,
         NEW selected, selected \subseteq DOMAIN rows \cap Of(MainTable), Load(selected),
         NEW t \in Tables, Master[t] # None
  PROVE  DetailsMatch(t)
<1> DEFINE L == LoadedBy(selected)
<1>1. /\ L[MainTable] = selected
      /\ \A u \in LinkedTables : L[u] \subseteq DOMAIN rows \cap Of(u)
      /\ L[t] = DetailRows(t, IF Position[Master[t]] < Position[t]
                              THEN L[Master[t]] ELSE Listed(data[Master[t]]))
  BY LoadedByReads, ModuleAssumption
<1>2. PICK listing :
        /\ \A u \in LinkedTables : listing[u] \in Listings(L[u])
        /\ data' = Appends(listing, LinkedTables, Before(LinkedTables, {}))
  BY DEF Load, LinkedTables, ReadRows, Appends, Before
<1>3. t \in LinkedTables /\ Master[t] \in Tables /\ Position[Master[t]] < Position[t]
  BY ModuleAssumption DEF LinkedTables, MastersListedFirst
<1> HIDE DEF L
<1>4. \A u \in LinkedTables : L[u] \subseteq Records
  BY <1>1 DEF Of
<1>5. /\ \A u \in LinkedTables : Listed(data'[u]) = L[u]
      /\ \A u \in Tables \ LinkedTables : data'[u] = data[u]
  <2>1. LinkedTables \subseteq Tables
    BY DEF LinkedTables
  <2>2. ListsOf(listing, L, LinkedTables)
    BY <1>2, <1>4 DEF ListsOf
  <2>3. HasRead(data', L, LinkedTables, {})
    BY <1>2, <2>1, <2>2, ReadRowsReads
  <2>4. QED BY <2>3 DEF HasRead
<1>6. Listed(data'[Master[t]]) = L[Master[t]]
  <2>1. CASE Master[t] \in LinkedTables
    BY <1>5, <2>1
  <2>2. CASE Master[t] \notin LinkedTables
    <3>1. L[Master[t]] = LoadBody(selected, L, Master[t])
      BY <1>3, LoadedByEquation DEF L
    <3>2. L[Master[t]] = Listed(data[Master[t]])
      BY <1>3, <2>2, <3>1 DEF LoadBody, LinkedTables
    <3>3. QED BY <1>3, <1>5, <2>2, <3>2
  <2>3. QED BY <2>1, <2>2
<1>7. Listed(data'[t]) = DetailRows(t, L[Master[t]])
  BY <1>1, <1>3, <1>5
<1>8. QED BY <1>6, <1>7 DEF DetailsMatch

LEMMA LoadByFieldsMatches ==
  ASSUME data \in [Tables -> Seq(Records)],
         NEW selected, selected \subseteq DOMAIN rows \cap Of(MainTable),
         NEW clearExistingData \in BOOLEAN, LoadByFields(selected, clearExistingData),
         NEW t \in Tables, Master[t] = MainTable
  PROVE  DetailsMatch(t)
<1> DEFINE kept == IF clearExistingData THEN {} ELSE Listed(data[MainTable])
           appended == IF clearExistingData THEN {} ELSE {MainTable}
           L == LoadedByFields(selected, kept)
<1>1. /\ L[MainTable] = selected
      /\ \A u \in FirstDetails : L[u] \subseteq DOMAIN rows \cap Of(u)
      /\ L[t] = DetailRows(t, kept \cup selected)
  BY LoadedByFieldsReads
<1>2. PICK listing :
        /\ \A u \in FirstDetails : listing[u] \in Listings(L[u])
        /\ data' = Appends(listing, FirstDetails, Before(FirstDetails, appended))
  BY DEF LoadByFields, FirstDetails, ReadRows, Appends, Before
<1>3. t \in FirstDetails /\ MainTable \in FirstDetails /\ t # MainTable
  BY ModuleAssumption DEF FirstDetails
<1> HIDE DEF L
<1>4. \A u \in FirstDetails : L[u] \subseteq Records
  BY <1>1 DEF Of
<1>5. \A u \in FirstDetails : Listed(data'[u]) =
        (IF u \in appended THEN Listed(data[u]) ELSE {}) \cup L[u]
  <2> HIDE DEF appended
  <2>1. FirstDetails \subseteq Tables
    BY DEF FirstDetails
  <2>2. ListsOf(listing, L, FirstDetails)
    BY <1>2, <1>4 DEF ListsOf
  <2>3. HasRead(data', L, FirstDetails, appended)
    BY <1>2, <2>1, <2>2, ReadRowsReads
  <2>4. QED BY <2>3 DEF HasRead
<1>6. Listed(data'[MainTable]) = kept \cup selected
  BY <1>1, <1>3, <1>5
<1>7. Listed(data'[t]) = DetailRows(t, kept \cup selected)
  <2>1. t \notin appended
    BY <1>3
  <2>2. L[t] = DetailRows(t, kept \cup selected)
    BY <1>1
  <2> HIDE DEF appended, kept
  <2>3. Listed(data'[t]) = L[t]
    BY <1>3, <1>5, <2>1
  <2>4. QED BY <2>2, <2>3
<1>8. QED BY <1>6, <1>7 DEF DetailsMatch

-----------------------------------------------------------------------------
(***************************************************************************)
(* The invariant: the steps of the caller.                                 *)
(***************************************************************************)

\* Nothing is pending and no transaction is open at the start.
LEMMA InitInvariant == Init => IInv
<1> SUFFICES ASSUME Init PROVE IInv
  OBVIOUS
<1> USE ModuleAssumption
<1>1. PICK S \in SUBSET Stored :
        rows \in [S -> Stored \cup {None}] /\ Consistent(rows)
  BY DEF Init
<1>2. TypeOK
  <2>1. \A T \in {rows, txRows} : /\ DOMAIN T \subseteq Records
                                  /\ T \in [DOMAIN T -> Records \cup {None}]
    BY <1>1 DEF Init
  <2>2. /\ fk \in [Records -> Records \cup {None}] /\ index \in [Records -> Nat]
        /\ data \in [Tables -> Seq(Records)]
    BY DEF Init
  <2>3. QED BY <2>1, <2>2 DEF Init, TypeOK, OneEach
<1>3. KeysInvariant
  <2>1. \A t \in Tables : DOMAIN data[t] = {}
    BY DEF Init
  <2>2. QED BY <1>1, <2>1 DEF Init, KeysInvariant, Refers
<1>4. InsertsAreNew /\ SaveInvariant
  BY DEF Init, InsertsAreNew, SaveInvariant
<1>5. QED BY <1>2, <1>3, <1>4 DEF IInv

\* Outside Save, what concerns Save does not change with the queues.
LEMMA IdleKeeps ==
  ASSUME SaveInvariant, Idle, UNCHANGED <<rows, txRows, saving>>
  PROVE  SaveInvariant'
BY DEF SaveInvariant, Idle, saving

\* A foreign key that is filled in is that of a record of the master table, or none.
LEMMA FilledRefers ==
  ASSUME TypeOK, KeysInvariant, NEW r \in Records, NEW f \in Records \cup {None},
         Refers(r, f), ~CannotFill(r, f)
  PROVE  Refers(r, Filled(r, f)) /\ Filled(r, f) \in Records \cup {None}
<1>1. CASE ~MustFill(r, f)
  BY <1>1 DEF Filled
<1>2. CASE MustFill(r, f)
  <2>1. MasterOf(r) # None /\ MasterOf(r) \in Tables
    BY <1>2, ModuleAssumption DEF MustFill, MasterOf
  <2>2. data[MasterOf(r)] \in Seq(Records)
    BY <2>1 DEF TypeOK
  <2>3. MasterKeys(TableOf[r]) # <<>>
    BY <1>2 DEF CannotFill
  <2>4. data[MasterOf(r)] # <<>>
    BY <2>2, <2>3 DEF MasterKeys, MasterOf
  <2>5. 1 \in DOMAIN data[MasterOf(r)]
    BY <2>2, <2>4
  <2>6. data[MasterOf(r)][1] \in Of(MasterOf(r)) /\ data[MasterOf(r)][1] \in Records
    BY <2>1, <2>5 DEF KeysInvariant, Of
  <2>7. Filled(r, f) \in {data[MasterOf(r)][1], None}
    BY <1>2, <2>5 DEF Filled, MasterKeys, MasterOf
  <2>8. QED BY <2>1, <2>6, <2>7 DEF Refers
<1>3. QED BY <1>1, <1>2

\* Queueing keeps one entry per record, and the other entries.
LEMMA QueueKeeps ==
  ASSUME NEW q, q \subseteq Entry, OneEach(q),
         NEW r \in Records, NEW f \in Records \cup {None}
  PROVE  /\ Queue(q, r, f) \subseteq Entry /\ OneEach(Queue(q, r, f))
         /\ \A e \in Queue(q, r, f) : e \in q \/ (e.rec = r /\ e.fk = f)
         /\ \A e \in Queue(q, r, f) : e.rec = r => e.fk = f
BY DEF Queue, Entry, OneEach

\* TypeOK says of the queues that they have one entry per record.
LEMMA QueuesAreEntries == TypeOK => Entries(upd) /\ Entries(ins)
BY DEF TypeOK, Entries

\* The entries of a list with one more at its end.
LEMMA AppendEntries ==
  ASSUME NEW S, NEW s \in Seq(S), NEW x \in S
  PROVE  \A i \in DOMAIN Append(s, x) :
            \/ i \in DOMAIN s /\ Append(s, x)[i] = s[i]
            \/ Append(s, x)[i] = x
OBVIOUS

LEMMA AddKeeps ==
  ASSUME IInv, NEW r \in Records, NEW f \in Records \cup {None}, Add(r, f)
  PROVE  IInv'
<1> USE ModuleAssumption
<1>0. TypeOK /\ KeysInvariant /\ InsertsAreNew /\ SaveInvariant /\ Idle
  BY DEF IInv, Add
<1>1. /\ r \notin born /\ r \notin DOMAIN rows /\ txRows = rows /\ TableOf[r] \in Tables
      /\ born' = born \cup {r}
      /\ data' = [data EXCEPT ![TableOf[r]] = Append(@, r)]
      /\ index' = [index EXCEPT ![r] = Len(data'[TableOf[r]])]
      /\ UNCHANGED <<del, upd, rows, txRows, saving>>
  BY <1>0 DEF Add, SaveInvariant, Idle
<1>2. Refers(r, f)
  BY DEF Add, Refers, KnownKeys, Of
<1>3. /\ fk' \in [Records -> Records \cup {None}] /\ \A x \in Records : Refers(x, fk'[x])
      /\ keyed' \subseteq born'
      /\ ins' \subseteq Entry /\ OneEach(ins')
      /\ \A e \in ins' : e \in ins \/ (e.rec = r /\ Refers(r, e.fk))
  <2>1. fk \in [Records -> Records \cup {None}] /\ \A x \in Records : Refers(x, fk[x])
    BY <1>0 DEF TypeOK, KeysInvariant
  <2>2. keyed \subseteq born /\ ins \subseteq Entry /\ OneEach(ins)
    BY <1>0, QueuesAreEntries DEF TypeOK, Entries
  <2>3. CASE CannotFill(r, f)
    <3>1. UNCHANGED <<keyed, fk, ins>>
      BY <2>3 DEF Add
    <3>2. QED BY <1>1, <2>1, <2>2, <3>1
  <2>4. CASE ~CannotFill(r, f)
    <3>1. /\ fk' = [fk EXCEPT ![r] = Filled(r, f)]
          /\ keyed' = IF TableOf[r] \in DbKeys THEN keyed ELSE keyed \cup {r}
          /\ ins' = Queue(ins, r, Filled(r, f))
      BY <2>4 DEF Add
    <3>2. Refers(r, Filled(r, f)) /\ Filled(r, f) \in Records \cup {None}
      BY <1>0, <1>2, <2>4, FilledRefers
    <3>3. /\ ins' \subseteq Entry /\ OneEach(ins')
          /\ \A e \in ins' : e \in ins \/ (e.rec = r /\ e.fk = Filled(r, f))
      BY <2>2, <3>1, <3>2, QueueKeeps
    <3>4. fk' \in [Records -> Records \cup {None}] /\ \A x \in Records : Refers(x, fk'[x])
      BY <2>1, <3>1, <3>2
    <3>5. QED BY <1>1, <2>2, <3>1, <3>2, <3>3, <3>4
  <2>5. QED BY <2>3, <2>4
<1>4. /\ data' \in [Tables -> Seq(Records)] /\ index' \in [Records -> Nat]
      /\ \A t \in Tables : \A i \in DOMAIN data'[t] : data'[t][i] \in Of(t) \cap born'
  <2> DEFINE t0 == TableOf[r]
  <2>1. /\ data \in [Tables -> Seq(Records)] /\ index \in [Records -> Nat]
        /\ \A t \in Tables : \A i \in DOMAIN data[t] : data[t][i] \in Of(t) \cap born
    BY <1>0 DEF TypeOK, KeysInvariant
  <2>2. data[t0] \in Seq(Records) /\ data'[t0] = Append(data[t0], r)
        /\ \A t \in Tables \ {t0} : data'[t] = data[t]
    BY <1>1, <2>1
  <2>3. data' \in [Tables -> Seq(Records)]
    BY <1>1, <2>1
  <2>4. Len(data'[t0]) \in Nat
    BY <1>1, <2>3
  <2>5. index' \in [Records -> Nat]
    BY <1>1, <2>1, <2>4
  <2>6. \A i \in DOMAIN data'[t0] : data'[t0][i] \in Of(t0) \cap born'
    <3>1. r \in Of(t0) \cap born'
      BY <1>1 DEF Of
    <3>2. \A i \in DOMAIN Append(data[t0], r) :
             \/ i \in DOMAIN data[t0] /\ Append(data[t0], r)[i] = data[t0][i]
             \/ Append(data[t0], r)[i] = r
      <4>1. data[t0] \in Seq(Records)
        BY <2>2
      <4>2. QED BY ONLY <4>1, AppendEntries, r \in Records
    <3>3. \A i \in DOMAIN data[t0] : data[t0][i] \in Of(t0) \cap born'
      BY <1>1, <2>1
    <3>4. QED BY <2>2, <3>1, <3>2, <3>3
  <2>7. QED BY <1>1, <2>1, <2>2, <2>3, <2>5, <2>6
<1>5. TypeOK'
  <2>1. OneEach(upd') /\ OneEach(ins')
    BY <1>0, <1>1, <1>3 DEF TypeOK
  <2>2. born' \subseteq Records /\ del' \subseteq born' /\ upd' \subseteq Entry
    BY <1>0, <1>1 DEF TypeOK
  <2>3. /\ \A t \in {rows', txRows'} : /\ DOMAIN t \subseteq Records
                                       /\ t \in [DOMAIN t -> Records \cup {None}]
        /\ pc' \in {"idle", "delete", "update", "insert", "commit"} /\ sent' \subseteq Tables
    BY <1>0, <1>1 DEF TypeOK, saving
  <2>4. QED BY <1>3, <1>4, <2>1, <2>2, <2>3 DEF TypeOK
<1>6. KeysInvariant'
  BY <1>0, <1>1, <1>3, <1>4 DEF KeysInvariant, Consistent
<1>7. InsertsAreNew'
  BY <1>0, <1>1, <1>3 DEF InsertsAreNew, Idle, saving
<1>8. SaveInvariant'
  BY <1>0, <1>1, IdleKeeps
<1>9. QED BY <1>5, <1>6, <1>7, <1>8 DEF IInv

LEMMA AssignMasterKeeps ==
  ASSUME IInv, NEW r \in Records, NEW f \in Records \cup {None}, AssignMaster(r, f)
  PROVE  IInv'
<1>0. TypeOK /\ KeysInvariant /\ InsertsAreNew /\ SaveInvariant /\ Idle
  BY DEF IInv, AssignMaster
<1>1. /\ fk' = [fk EXCEPT ![r] = f]
      /\ UNCHANGED <<born, keyed, data, index, del, upd, ins, rows, txRows, saving>>
  BY DEF AssignMaster, memory, queues
<1>2. Refers(r, f)
  BY DEF AssignMaster, Refers, KnownKeys, Of
<1>3. TypeOK'
  BY <1>0, <1>1 DEF TypeOK, saving
<1>4. KeysInvariant'
  BY <1>0, <1>1, <1>2 DEF KeysInvariant, Consistent, TypeOK
<1>5. InsertsAreNew'
  BY <1>0, <1>1 DEF InsertsAreNew, Idle, saving
<1>6. QED BY <1>0, <1>1, <1>3, <1>4, <1>5, IdleKeeps DEF IInv

LEMMA UpdateKeeps ==
  ASSUME IInv, NEW r \in Records, Update(r)
  PROVE  IInv'
<1> USE ModuleAssumption
<1>0. TypeOK /\ KeysInvariant /\ InsertsAreNew /\ SaveInvariant /\ Idle
  BY DEF IInv, Update
<1>1. /\ r \in born /\ TableOf[r] \in Tables
      /\ index[r] <= Len(data[TableOf[r]])
      /\ data' = IF index[r] = 0 THEN data
                 ELSE [data EXCEPT ![TableOf[r]][index[r]] = r]
      /\ UNCHANGED <<born, keyed, index, del, ins, rows, txRows, saving>>
  BY DEF Update
<1>2. /\ fk' \in [Records -> Records \cup {None}] /\ \A x \in Records : Refers(x, fk'[x])
      /\ upd' \subseteq Entry /\ OneEach(upd')
      /\ \A e \in upd' : e \in upd \/ (e.rec = r /\ Refers(r, e.fk))
  <2>1. fk \in [Records -> Records \cup {None}] /\ \A x \in Records : Refers(x, fk[x])
    BY <1>0 DEF TypeOK, KeysInvariant
  <2>2. upd \subseteq Entry /\ OneEach(upd)
    BY <1>0, QueuesAreEntries DEF Entries
  <2>3. CASE CannotFill(r, fk[r])
    <3>1. UNCHANGED <<fk, upd>>
      BY <2>3 DEF Update
    <3>2. QED BY <2>1, <2>2, <3>1
  <2>4. CASE ~CannotFill(r, fk[r])
    <3>1. /\ fk' = [fk EXCEPT ![r] = Filled(r, fk[r])]
          /\ upd' = Queue(upd, r, Filled(r, fk[r]))
      BY <2>4 DEF Update
    <3>2. Refers(r, Filled(r, fk[r])) /\ Filled(r, fk[r]) \in Records \cup {None}
      BY <1>0, <2>1, <2>4, FilledRefers
    <3>3. /\ upd' \subseteq Entry /\ OneEach(upd')
          /\ \A e \in upd' : e \in upd \/ (e.rec = r /\ e.fk = Filled(r, fk[r]))
      BY <2>2, <3>1, <3>2, QueueKeeps
    <3>4. fk' \in [Records -> Records \cup {None}] /\ \A x \in Records : Refers(x, fk'[x])
      BY <2>1, <3>1, <3>2
    <3>5. QED BY <3>2, <3>3, <3>4
  <2>5. QED BY <2>3, <2>4
<1>3. /\ data' \in [Tables -> Seq(Records)]
      /\ \A t \in Tables : \A i \in DOMAIN data'[t] : data'[t][i] \in Of(t) \cap born
  <2> DEFINE t0 == TableOf[r]
  <2>1. /\ data \in [Tables -> Seq(Records)] /\ index \in [Records -> Nat]
        /\ \A t \in Tables : \A i \in DOMAIN data[t] : data[t][i] \in Of(t) \cap born
    BY <1>0 DEF TypeOK, KeysInvariant
  <2>2. CASE index[r] = 0
    BY <1>1, <2>1, <2>2
  <2>3. CASE index[r] # 0
    <3>1. data[t0] \in Seq(Records) /\ index[r] \in 1..Len(data[t0])
      BY <1>1, <2>1, <2>3
    <3> DEFINE s == [data[t0] EXCEPT ![index[r]] = r]
    <3>2. /\ s \in Seq(Records) /\ DOMAIN s = DOMAIN data[t0]
          /\ \A i \in DOMAIN s : s[i] \in {r, data[t0][i]}
      BY <3>1
    <3>3. data' = [data EXCEPT ![t0] = s]
      BY <1>1, <2>3
    <3>4. r \in Of(t0) \cap born
      BY <1>1 DEF Of
    <3> HIDE DEF s
    <3>5. data' \in [Tables -> Seq(Records)]
      BY <2>1, <3>2, <3>3
    <3>6. data'[t0] = s /\ \A t \in Tables \ {t0} : data'[t] = data[t]
      BY <1>1, <2>1, <3>3
    <3>7. \A i \in DOMAIN data'[t0] : data'[t0][i] \in Of(t0) \cap born
      BY <1>1, <2>1, <3>2, <3>4, <3>6
    <3>8. QED BY <2>1, <3>5, <3>6, <3>7
  <2>4. QED BY <2>2, <2>3
<1>4. TypeOK'
  <2>1. OneEach(upd') /\ OneEach(ins')
    BY <1>0, <1>1, <1>2 DEF TypeOK
  <2>2. QED BY <1>0, <1>1, <1>2, <1>3, <2>1 DEF TypeOK, OneEach, saving
<1>5. KeysInvariant'
  BY <1>0, <1>1, <1>2, <1>3 DEF KeysInvariant, Consistent
<1>6. InsertsAreNew'
  BY <1>0, <1>1 DEF InsertsAreNew, Idle, saving
<1>7. QED BY <1>0, <1>1, <1>4, <1>5, <1>6, IdleKeeps DEF IInv

LEMMA DeleteKeeps ==
  ASSUME IInv, NEW r \in Records, Delete(r)
  PROVE  IInv'
<1> USE ModuleAssumption
<1>0. TypeOK /\ KeysInvariant /\ InsertsAreNew /\ SaveInvariant /\ Idle
  BY DEF IInv, Delete
<1>1. /\ r \in born /\ TableOf[r] \in Tables
      /\ index[r] <= Len(data[TableOf[r]])
      /\ data' = IF index[r] = 0 THEN data
                 ELSE [data EXCEPT ![TableOf[r]] = WithoutPosition(@, index[r])]
      /\ index' = [index EXCEPT ![r] = 0] /\ del' = del \cup {r}
      /\ UNCHANGED <<born, keyed, fk, upd, ins, rows, txRows, saving>>
  BY DEF Delete, objects
<1>2. /\ data' \in [Tables -> Seq(Records)]
      /\ \A t \in Tables : \A i \in DOMAIN data'[t] : data'[t][i] \in Of(t) \cap born
  <2> DEFINE t0 == TableOf[r]
  <2>1. /\ data \in [Tables -> Seq(Records)] /\ index \in [Records -> Nat]
        /\ \A t \in Tables : \A i \in DOMAIN data[t] : data[t][i] \in Of(t) \cap born
    BY <1>0 DEF TypeOK, KeysInvariant
  <2>2. CASE index[r] = 0
    BY <1>1, <2>1, <2>2
  <2>3. CASE index[r] # 0
    <3>1. data[t0] \in Seq(Records) /\ index[r] \in 1..Len(data[t0])
      BY <1>1, <2>1, <2>3
    <3> DEFINE s == WithoutPosition(data[t0], index[r])
    <3>2. /\ DOMAIN s = 1..(Len(data[t0]) - 1) /\ Len(data[t0]) - 1 \in Nat
          /\ \A i \in DOMAIN s : s[i] = IF i < index[r] THEN data[t0][i] ELSE data[t0][i + 1]
      BY <3>1 DEF WithoutPosition
    <3>6. data' = [data EXCEPT ![t0] = s]
      BY <1>1, <2>3
    <3>w. s = [i \in DOMAIN s |-> s[i]]
      BY DEF WithoutPosition
    <3> HIDE DEF s
    <3>3. ASSUME NEW i \in DOMAIN s
          PROVE  s[i] \in Of(t0) \cap born /\ s[i] \in Records
      <4> DEFINE n == Len(data[t0])
      <4>n. n \in Nat /\ DOMAIN data[t0] = 1..n /\ i \in 1..(n - 1)
        BY <3>1, <3>2
      <4> HIDE DEF n
      <4>1. i \in DOMAIN data[t0] /\ i + 1 \in DOMAIN data[t0]
        BY <4>n
      <4>2. \A j \in DOMAIN data[t0] : data[t0][j] \in Of(t0) \cap born /\ data[t0][j] \in Records
        BY <1>1, <2>1 DEF Of
      <4>3. QED BY <3>2, <4>1, <4>2
    <3>4. s \in [1..(Len(data[t0]) - 1) -> Records]
      BY <3>2, <3>3, <3>w
    <3>5. s \in Seq(Records)
      <4> DEFINE n == Len(data[t0]) - 1
      <4>1. n \in Nat /\ s \in [1..n -> Records]
        BY <3>2, <3>4
      <4> HIDE DEF n
      <4>2. QED BY <4>1
    <3>7. data' \in [Tables -> Seq(Records)]
      BY <2>1, <3>5, <3>6
    <3>8. data'[t0] = s /\ \A t \in Tables \ {t0} : data'[t] = data[t]
      BY <1>1, <2>1, <3>6
    <3>9. QED BY <1>1, <2>1, <3>3, <3>7, <3>8
  <2>4. QED BY <2>2, <2>3
<1>3. index' \in [Records -> Nat] /\ del' \subseteq born
  BY <1>0, <1>1 DEF TypeOK
<1>4. TypeOK'
  BY <1>0, <1>1, <1>2, <1>3 DEF TypeOK, saving
<1>5. KeysInvariant'
  BY <1>0, <1>1, <1>2 DEF KeysInvariant, Consistent
<1>6. InsertsAreNew'
  BY <1>0, <1>1 DEF InsertsAreNew, Idle, saving
<1>7. QED BY <1>0, <1>1, <1>4, <1>5, <1>6, IdleKeeps DEF IInv

LEMMA ClearDataKeeps ==
  ASSUME IInv, ClearData
  PROVE  IInv'
<1>0. TypeOK /\ KeysInvariant /\ InsertsAreNew /\ SaveInvariant /\ Idle
  BY DEF IInv, ClearData
<1>1. /\ data' = [t \in Tables |-> <<>>] /\ index' = [r \in Records |-> 0]
      /\ UNCHANGED <<born, keyed, fk, del, upd, ins, rows, txRows, saving>>
  BY DEF ClearData, objects, queues
<1>2. TypeOK'
  BY <1>0, <1>1 DEF TypeOK, saving
<1>3. KeysInvariant'
  BY <1>0, <1>1 DEF KeysInvariant, Consistent
<1>4. InsertsAreNew'
  BY <1>0, <1>1 DEF InsertsAreNew, Idle, saving
<1>5. QED BY <1>0, <1>1, <1>2, <1>3, <1>4, IdleKeeps DEF IInv

\* What is read are rows: their records refer to what the rows refer to.
LEMMA ReadKeeps ==
  ASSUME IInv, Idle,
         NEW fresh \in SUBSET Tables, NEW appended, NEW loaded,
         \A t \in fresh : loaded[t] \subseteq DOMAIN rows \cap Of(t),
         NEW listing, ListsOf(listing, loaded, fresh),
         data' = Appends(listing, fresh, Before(fresh, appended)),
         NEW read, read \subseteq DOMAIN rows, \A t \in fresh : loaded[t] \subseteq read,
         born' = born \cup read, keyed' = keyed \cup read,
         fk' = [r \in Records |-> IF r \in read THEN rows[r] ELSE fk[r]],
         index' \in [Records -> Nat],
         UNCHANGED <<queues, rows, txRows, saving>>
  PROVE  IInv'
<1>0. TypeOK /\ KeysInvariant /\ InsertsAreNew /\ SaveInvariant
  BY DEF IInv
<1>1. UNCHANGED <<del, upd, ins>>
  BY DEF queues
<1>2. Table(rows) /\ \A r \in DOMAIN rows : r \in Records /\ Refers(r, rows[r])
                                            /\ rows[r] \in Records \cup {None}
  BY <1>0 DEF TypeOK, Table, KeysInvariant, Consistent, Refers
<1>3. /\ fk' \in [Records -> Records \cup {None}]
      /\ \A r \in Records : Refers(r, fk'[r])
  BY <1>0, <1>2 DEF TypeOK, KeysInvariant
<1>4. data \in [Tables -> Seq(Records)]
  BY <1>0 DEF TypeOK
<1>5. HasRead(data', loaded, fresh, appended)
  BY <1>4, ReadRowsReads
<1>6. ASSUME NEW t \in Tables, NEW i \in DOMAIN data'[t]
      PROVE  data'[t][i] \in Of(t) \cap born'
  <2>1. data'[t][i] \in Listed(data'[t])
    BY DEF Listed
  <2>2. Listed(data[t]) \subseteq Of(t) \cap born
    BY <1>0 DEF KeysInvariant, Listed
  <2>3. CASE t \in fresh
    <3>1. data'[t][i] \in Listed(data[t]) \cup loaded[t]
      BY <1>5, <2>1, <2>3 DEF HasRead
    <3>2. QED BY <2>2, <2>3, <3>1
  <2>4. CASE t \notin fresh
    BY <1>5, <2>1, <2>2, <2>4 DEF HasRead
  <2>5. QED BY <2>3, <2>4
<1>7. TypeOK'
  <2>1. born' \subseteq Records /\ keyed' \subseteq born'
    BY <1>0, <1>2 DEF TypeOK
  <2>2. data' \in [Tables -> Seq(Records)]
    BY <1>5 DEF HasRead
  <2>3. QED BY <1>0, <1>1, <1>3, <2>1, <2>2 DEF TypeOK, saving
<1>8. KeysInvariant'
  BY <1>0, <1>1, <1>3, <1>6 DEF KeysInvariant, Consistent
<1>9. InsertsAreNew'
  BY <1>0, <1>1 DEF InsertsAreNew, Idle, saving
<1>10. QED BY <1>0, <1>7, <1>8, <1>9, IdleKeeps DEF IInv

LEMMA LoadKeeps ==
  ASSUME IInv, NEW selected, selected \subseteq DOMAIN rows \cap Of(MainTable), Load(selected)
  PROVE  IInv'
<1> DEFINE L == LoadedBy(selected)
           read == UNION {L[t] : t \in LinkedTables}
<1>1. \A t \in LinkedTables : L[t] \subseteq DOMAIN rows \cap Of(t)
  BY LoadedByReads
<1>2. /\ Idle
      /\ born' = born \cup read /\ keyed' = keyed \cup read
      /\ fk' = [r \in Records |-> IF r \in read THEN rows[r] ELSE fk[r]]
      /\ index' = [r \in Records |->
                     IF r \in read \/ TableOf[r] \in LinkedTables \ {} THEN 0 ELSE index[r]]
      /\ UNCHANGED <<queues, rows, txRows, saving>>
  BY DEF Load, LinkedTables, ReadRows
<1>3. PICK listing :
        /\ \A u \in LinkedTables : listing[u] \in Listings(L[u])
        /\ data' = Appends(listing, LinkedTables, Before(LinkedTables, {}))
  BY DEF Load, LinkedTables, ReadRows, Appends, Before
<1> HIDE DEF L
<1>4. read \subseteq DOMAIN rows /\ \A t \in LinkedTables : L[t] \subseteq read
  BY <1>1
<1> HIDE DEF read
<1>5. index' \in [Records -> Nat] /\ LinkedTables \in SUBSET Tables
  BY <1>2 DEF IInv, TypeOK, LinkedTables
<1>6. ListsOf(listing, L, LinkedTables)
  BY <1>1, <1>3 DEF ListsOf, Of
<1>7. QED BY <1>1, <1>2, <1>3, <1>4, <1>5, <1>6, ReadKeeps

LEMMA LoadByFieldsKeeps ==
  ASSUME IInv, NEW selected, selected \subseteq DOMAIN rows \cap Of(MainTable),
         NEW clearExistingData \in BOOLEAN, LoadByFields(selected, clearExistingData)
  PROVE  IInv'
<1> DEFINE kept == IF clearExistingData THEN {} ELSE Listed(data[MainTable])
           appended == IF clearExistingData THEN {} ELSE {MainTable}
           L == LoadedByFields(selected, kept)
           read == UNION {L[t] : t \in FirstDetails}
<1>1. \A t \in FirstDetails : L[t] \subseteq DOMAIN rows \cap Of(t)
  BY LoadedByFieldsReads
<1>2. /\ Idle
      /\ born' = born \cup read /\ keyed' = keyed \cup read
      /\ fk' = [r \in Records |-> IF r \in read THEN rows[r] ELSE fk[r]]
      /\ index' = [r \in Records |->
                     IF r \in read \/ TableOf[r] \in FirstDetails \ appended THEN 0 ELSE index[r]]
      /\ UNCHANGED <<queues, rows, txRows, saving>>
  BY DEF LoadByFields, FirstDetails, ReadRows
<1>3. PICK listing :
        /\ \A u \in FirstDetails : listing[u] \in Listings(L[u])
        /\ data' = Appends(listing, FirstDetails, Before(FirstDetails, appended))
  BY DEF LoadByFields, FirstDetails, ReadRows, Appends, Before
<1> HIDE DEF L
<1>4. read \subseteq DOMAIN rows /\ \A t \in FirstDetails : L[t] \subseteq read
  BY <1>1
<1> HIDE DEF read, appended
<1>5. index' \in [Records -> Nat] /\ FirstDetails \in SUBSET Tables
  BY <1>2 DEF IInv, TypeOK, FirstDetails
<1>6. ListsOf(listing, L, FirstDetails)
  BY <1>1, <1>3 DEF ListsOf, Of
<1>7. /\ \A t \in FirstDetails : L[t] \subseteq DOMAIN rows \cap Of(t)
      /\ data' = Appends(listing, FirstDetails, Before(FirstDetails, appended))
      /\ Idle
      /\ born' = born \cup read /\ keyed' = keyed \cup read
      /\ fk' = [r \in Records |-> IF r \in read THEN rows[r] ELSE fk[r]]
      /\ UNCHANGED <<queues, rows, txRows, saving>>
  BY <1>1, <1>2, <1>3
<1> HIDE DEF kept
<1>8. QED BY <1>4, <1>5, <1>6, <1>7, ReadKeeps

-----------------------------------------------------------------------------
(***************************************************************************)
(* The invariant: the steps of Save.                                       *)
(***************************************************************************)

\* While Save runs, what waits to be inserted was pending when it began.
LEMMA QueuesWhileSaving ==
  ASSUME TypeOK, SaveInvariant
  PROVE  pc # "idle" => /\ began.del \subseteq Records /\ Entries(began.upd) /\ Entries(began.ins)
                        /\ ins \subseteq began.ins
<1>1. pc # "idle" => /\ began \in PendingSet
                     /\ began.del \subseteq Records /\ Entries(began.upd) /\ Entries(began.ins)
  BY DEF SaveInvariant, PendingSet, Entries
<1>2. pc \in {"idle", "delete", "update", "insert", "commit"}
  BY DEF TypeOK
<1>3. QED BY <1>1, <1>2 DEF SaveInvariant, NothingPending

LEMMA TablesAreTables == TypeOK => Table(rows) /\ Table(txRows)
BY DEF TypeOK, Table

LEMMA BeginSaveKeeps ==
  ASSUME IInv, BeginSave
  PROVE  IInv'
<1>0. TypeOK /\ KeysInvariant /\ InsertsAreNew /\ SaveInvariant
  BY DEF IInv
<1>1. /\ pc = "idle" /\ txRows = rows
      /\ pc' = "delete" /\ sent' = {} /\ began' = [del |-> del, upd |-> upd, ins |-> ins]
      /\ UNCHANGED <<born, keyed, fk, data, index, del, upd, ins, rows, txRows>>
  BY <1>0 DEF BeginSave, Idle, SaveInvariant, Pending, objects, memory, queues
<1>2. TypeOK'
  BY <1>0, <1>1 DEF TypeOK, OneEach
<1>3. KeysInvariant'
  BY <1>0, <1>1 DEF KeysInvariant, Consistent
<1>4. InsertsAreNew'
  BY <1>0, <1>1 DEF InsertsAreNew
<1>5. SaveInvariant'
  <2>1. began' \in PendingSet /\ OneEach(began'.upd) /\ OneEach(began'.ins)
    BY <1>0, <1>1 DEF PendingSet, TypeOK
  <2>2. SentOf(began.del)' = {}
    BY <1>1 DEF SentOf
  <2>3. txRows' = Removed(rows', {})
    BY <1>0, <1>1, TablesAreTables, NoCommand
  <2>4. QED BY <1>1, <2>1, <2>2, <2>3 DEF SaveInvariant, OneEach
<1>6. QED BY <1>2, <1>3, <1>4, <1>5 DEF IInv

LEMMA ExecuteDeletesKeeps ==
  ASSUME IInv, NEW t \in Tables, ExecuteDeletes(t)
  PROVE  IInv'
<1> DEFINE D == DeletesOf(t)
<1>0. TypeOK /\ KeysInvariant /\ InsertsAreNew /\ SaveInvariant
  BY DEF IInv
<1>1. /\ pc = "delete" /\ t \notin sent /\ CanDelete(t)
      /\ txRows' = Removed(txRows, D) /\ del' = del \ Of(t) /\ sent' = sent \cup {t}
      /\ UNCHANGED <<born, keyed, fk, data, index, upd, ins, rows, pc, began>>
  BY DEF ExecuteDeletes, Turn, objects, memory
<1>2. /\ Table(rows) /\ Table(txRows) /\ Table(txRows')
      /\ DOMAIN txRows' = DOMAIN txRows \ D
      /\ \A r \in DOMAIN txRows \ D : txRows'[r] = txRows[r]
  BY <1>0, <1>1, TablesAreTables, RemovedTable
<1>3. /\ began.del \subseteq Records /\ began \in PendingSet
      /\ del = began.del \ SentOf(began.del) /\ upd = began.upd /\ ins = began.ins
      /\ txRows = Removed(rows, SentOf(began.del))
  BY <1>0, <1>1, QueuesWhileSaving DEF SaveInvariant
<1>4. TypeOK'
  <2>1. del' \subseteq born' /\ sent' \subseteq Tables
    BY <1>0, <1>1 DEF TypeOK
  <2>2. \A T \in {rows', txRows'} : DOMAIN T \subseteq Records /\ T \in [DOMAIN T -> Records \cup {None}]
    BY <1>1, <1>2 DEF Table
  <2>3. QED BY <1>0, <1>1, <2>1, <2>2 DEF TypeOK, OneEach
<1>5. KeysInvariant'
  <2>1. Consistent(txRows')
    BY <1>0, <1>1, <1>2 DEF Consistent, KeysInvariant, CanDelete
  <2>2. QED BY <1>0, <1>1, <2>1 DEF KeysInvariant, Consistent
<1>6. InsertsAreNew'
  BY <1>0, <1>1, <1>2 DEF InsertsAreNew
<1>7. SaveInvariant'
  <2>1. D = {r \in began.del : TableOf[r] = t} /\ del' = began.del \ SentOf(began.del)'
    BY <1>1, <1>3 DEF SentOf, DeletesOf, Of
  <2>2. SentOf(began.del)' = SentOf(began.del) \cup D
    BY <1>1, <2>1 DEF SentOf
  <2>3. txRows' = Removed(rows', SentOf(began.del)')
    BY <1>1, <1>2, <1>3, <2>2, RemovedTwice
  <2>4. QED BY <1>0, <1>1, <1>3, <2>1, <2>3 DEF SaveInvariant, OneEach
<1>8. QED BY <1>4, <1>5, <1>6, <1>7 DEF IInv

\* Commands that refer to rows of the master tables keep the foreign keys intact.
LEMMA OverriddenConsistent ==
  ASSUME NEW T, Table(T), Consistent(T), NEW q, NEW E, NEW U,
         DOMAIN T \subseteq E, \A r \in E : r \in DOMAIN T \/ \E e \in q : e.rec = r,
         Overridden(U, E, T, q),
         \A e \in q : e.rec \in E => /\ Refers(e.rec, e.fk)
                                     /\ MasterOf(e.rec) = None \/ e.fk \in DOMAIN T
  PROVE  Consistent(U)
<1> SUFFICES ASSUME NEW r \in E
             PROVE  IF MasterOf(r) = None THEN U[r] = None
                    ELSE U[r] \in E \cap Of(MasterOf(r))
  BY DEF Consistent, Overridden
<1>1. CASE \E e \in q : e.rec = r
  <2>1. PICK e \in q : e.rec = r
    BY <1>1
  <2>2. U[r] = e.fk /\ Refers(r, e.fk) /\ (MasterOf(r) = None \/ e.fk \in DOMAIN T)
    BY <2>1 DEF Overridden
  <2>3. None \notin DOMAIN T
    BY ModuleAssumption DEF Table
  <2>4. QED BY <2>2, <2>3 DEF Refers
<1>2. CASE \A e \in q : e.rec # r
  <2>1. r \in DOMAIN T /\ U[r] = T[r]
    BY <1>2 DEF Overridden
  <2>2. QED BY <2>1 DEF Consistent
<1>3. QED BY <1>1, <1>2

LEMMA ExecuteUpdatesKeeps ==
  ASSUME IInv, NEW t \in Tables, ExecuteUpdates(t)
  PROVE  IInv'
<1> DEFINE q == UpdatesOf(t)
           R == Removed(rows, began.del)
<1>0. TypeOK /\ KeysInvariant /\ InsertsAreNew /\ SaveInvariant
  BY DEF IInv
<1>1. /\ pc = "update" /\ t \notin sent /\ CanUpdate(t)
      /\ txRows' = Updated(txRows, q) /\ upd' = upd \ q /\ sent' = sent \cup {t}
      /\ UNCHANGED <<born, keyed, fk, data, index, del, ins, rows, pc, began>>
  BY DEF ExecuteUpdates, Turn, objects, memory
<1>2. Table(rows) /\ Table(txRows) /\ Table(R) /\ Entries(upd) /\ Entries(q)
  <2>1. Table(rows) /\ Table(txRows) /\ Entries(upd)
    BY <1>0, TablesAreTables, QueuesAreEntries
  <2>2. Entries(q)
    BY <2>1 DEF Entries, OneEach, UpdatesOf
  <2>3. QED BY <2>1, <2>2, RemovedTable
<1>3. /\ began \in PendingSet /\ Entries(began.upd)
      /\ del = {} /\ upd = began.upd \ SentEntries(began.upd) /\ ins = began.ins
      /\ txRows = Updated(R, SentEntries(began.upd))
  BY <1>0, <1>1, QueuesWhileSaving DEF SaveInvariant
<1>4. Overridden(txRows', DOMAIN txRows, txRows, q)
  BY <1>1, <1>2, UpdatedTable
<1>5. TypeOK'
  <2>1. upd' \subseteq Entry /\ OneEach(upd') /\ sent' \subseteq Tables
    BY <1>0, <1>1 DEF TypeOK, OneEach
  <2>2. \A T \in {rows', txRows'} : DOMAIN T \subseteq Records /\ T \in [DOMAIN T -> Records \cup {None}]
    BY <1>1, <1>2, <1>4 DEF Overridden, Table
  <2>3. QED BY <1>0, <1>1, <2>1, <2>2 DEF TypeOK, OneEach
<1>6. KeysInvariant'
  <2>1. \A e \in q : e.rec \in DOMAIN txRows =>
          Refers(e.rec, e.fk) /\ (MasterOf(e.rec) = None \/ e.fk \in DOMAIN txRows)
    BY <1>0, <1>1 DEF KeysInvariant, CanUpdate, CanRefer, UpdatesOf
  <2>2. Consistent(txRows) /\ DOMAIN txRows \subseteq DOMAIN txRows
    BY <1>0 DEF KeysInvariant
  <2> HIDE DEF q
  <2>3. Consistent(txRows')
    BY <1>2, <1>4, <2>1, <2>2, OverriddenConsistent
  <2>4. QED BY <1>0, <1>1, <2>3 DEF KeysInvariant, Consistent
<1>7. InsertsAreNew'
  BY <1>0, <1>1, <1>4 DEF InsertsAreNew, Overridden
<1>8. SaveInvariant'
  <2>1. q = {e \in began.upd : TableOf[e.rec] = t} /\ upd' = began.upd \ SentEntries(began.upd)'
    BY <1>1, <1>3 DEF SentEntries, UpdatesOf
  <2>2. SentEntries(began.upd)' = SentEntries(began.upd) \cup q
    BY <1>1, <2>1 DEF SentEntries
  <2>3. Entries(SentEntries(began.upd)')
    BY <1>1, <1>3 DEF SentEntries, Entries, OneEach
  <2>4. txRows' = Updated(R, SentEntries(began.upd)')
    <3> DEFINE s == SentEntries(began.upd)'
               p == SentEntries(began.upd)
    <3>1. p \subseteq s /\ q \subseteq s /\ s \subseteq p \cup q /\ Entries(s)
      BY <2>2, <2>3
    <3>2. txRows' = Updated(Updated(R, p), q)
      BY <1>1, <1>3
    <3> HIDE DEF s, p, q
    <3>3. txRows' = Updated(R, s)
      BY <1>2, <3>1, <3>2, UpdatedTwice
    <3>4. QED BY <3>3 DEF s
  <2>5. QED BY <1>0, <1>1, <1>3, <2>1, <2>4 DEF SaveInvariant, OneEach
<1>9. QED BY <1>5, <1>6, <1>7, <1>8 DEF IInv

LEMMA ExecuteInsertsKeeps ==
  ASSUME IInv, NEW t \in Tables, ExecuteInserts(t)
  PROVE  IInv'
<1> DEFINE q == InsertsOf(t)
           R == Updated(Removed(rows, began.del), began.upd)
<1>0. TypeOK /\ KeysInvariant /\ InsertsAreNew /\ SaveInvariant
  BY DEF IInv
<1>1. /\ pc = "insert" /\ t \notin sent /\ CanInsert(t)
      /\ txRows' = Inserted(txRows, q) /\ ins' = ins \ q /\ sent' = sent \cup {t}
      /\ keyed' = keyed \cup Recs(q)
      /\ UNCHANGED <<born, fk, data, index, del, upd, rows, pc, began>>
  BY DEF ExecuteInserts, Turn, memory, Recs
<1>3. /\ began \in PendingSet /\ Entries(began.upd) /\ Entries(began.ins)
      /\ del = {} /\ upd = {} /\ ins = began.ins \ SentEntries(began.ins)
      /\ txRows = Inserted(R, SentEntries(began.ins))
  BY <1>0, <1>1, QueuesWhileSaving DEF SaveInvariant
<1>2. Table(rows) /\ Table(txRows) /\ Table(R) /\ Entries(ins) /\ Entries(q)
  <2>1. Table(rows) /\ Table(txRows) /\ Entries(ins)
    BY <1>0, TablesAreTables, QueuesAreEntries
  <2>2. Entries(q)
    BY <2>1 DEF Entries, OneEach, InsertsOf
  <2>3. Table(Removed(rows, began.del))
    BY <2>1, RemovedTable
  <2>4. Table(R)
    BY <1>3, <2>3, UpdatedTable DEF Overridden
  <2>5. QED BY <2>1, <2>2, <2>4
<1>4. Overridden(txRows', DOMAIN txRows \cup Recs(q), txRows, q)
  BY <1>1, <1>2, InsertedTable
<1>5. TypeOK'
  <2>1. ins' \subseteq Entry /\ OneEach(ins') /\ sent' \subseteq Tables
    BY <1>0, <1>1 DEF TypeOK, OneEach
  <2>2. \A T \in {rows', txRows'} : DOMAIN T \subseteq Records /\ T \in [DOMAIN T -> Records \cup {None}]
    BY <1>1, <1>2, <1>4 DEF Overridden, Table
  <2>3. keyed' \subseteq born'
    BY <1>0, <1>1 DEF TypeOK, InsertsAreNew, InsertsOf, Recs
  <2>4. QED BY <1>0, <1>1, <2>1, <2>2, <2>3 DEF TypeOK, OneEach
<1>6. KeysInvariant'
  <2>1. \A e \in q : Refers(e.rec, e.fk) /\ (MasterOf(e.rec) = None \/ e.fk \in DOMAIN txRows)
    BY <1>0, <1>1 DEF KeysInvariant, CanInsert, CanRefer, InsertsOf
  <2> DEFINE E == DOMAIN txRows \cup Recs(q)
  <2>2. /\ Consistent(txRows) /\ DOMAIN txRows \subseteq E
        /\ \A r \in E : r \in DOMAIN txRows \/ \E e \in q : e.rec = r
    BY <1>0 DEF KeysInvariant, Recs
  <2> HIDE DEF q, E
  <2>3. Consistent(txRows')
    BY <1>2, <1>4, <2>1, <2>2, OverriddenConsistent DEF E
  <2>4. QED BY <1>0, <1>1, <2>3 DEF KeysInvariant, Consistent
<1>7. InsertsAreNew'
  <2>1. \A e \in ins' : e.rec \in born' /\ e.rec \notin DOMAIN txRows'
    <3>1. \A e \in ins' : e \in ins /\ e.rec \notin Recs(q)
      BY <1>1, <1>2 DEF Entries, OneEach, InsertsOf, Recs
    <3>2. \A e \in ins' : e.rec \in born /\ e.rec \notin DOMAIN txRows
      BY <1>0, <3>1 DEF InsertsAreNew
    <3>3. QED BY <1>1, <1>4, <3>1, <3>2 DEF Overridden
  <2>2. QED BY <1>0, <1>1, <2>1 DEF InsertsAreNew
<1>8. SaveInvariant'
  <2>1. q = {e \in began.ins : TableOf[e.rec] = t} /\ ins' = began.ins \ SentEntries(began.ins)'
    BY <1>1, <1>3 DEF SentEntries, InsertsOf
  <2>2. SentEntries(began.ins)' = SentEntries(began.ins) \cup q
    BY <1>1, <2>1 DEF SentEntries
  <2>3. Entries(SentEntries(began.ins)')
    BY <1>1, <1>3 DEF SentEntries, Entries, OneEach
  <2>4. txRows' = Inserted(R, SentEntries(began.ins)')
    <3> DEFINE s == SentEntries(began.ins)'
               p == SentEntries(began.ins)
    <3>1. p \subseteq s /\ q \subseteq s /\ s \subseteq p \cup q /\ Entries(s)
      BY <2>2, <2>3
    <3>2. txRows' = Inserted(Inserted(R, p), q)
      BY <1>1, <1>3
    <3> HIDE DEF s, p, q
    <3>3. txRows' = Inserted(R, s)
      BY <1>2, <3>1, <3>2, InsertedTwice
    <3>4. QED BY <3>3 DEF s
  <2>5. QED BY <1>0, <1>1, <1>3, <2>1, <2>4 DEF SaveInvariant, OneEach
<1>9. QED BY <1>5, <1>6, <1>7, <1>8 DEF IInv

LEMMA NextPhaseKeeps ==
  ASSUME IInv, NextPhase
  PROVE  IInv'
<1>0. TypeOK /\ KeysInvariant /\ InsertsAreNew /\ SaveInvariant
  BY DEF IInv
<1>1. /\ pc \in {"delete", "update", "insert"} /\ sent = Tables /\ sent' = {}
      /\ pc' = CASE pc = "delete" -> "update"
                 [] pc = "update" -> "insert"
                 [] pc = "insert" -> "commit"
      /\ UNCHANGED <<born, keyed, fk, data, index, del, upd, ins, rows, txRows, began>>
  BY DEF NextPhase, objects, memory, queues
<1>2. TypeOK' /\ KeysInvariant' /\ InsertsAreNew'
  <2>1. TypeOK'
    BY <1>0, <1>1 DEF TypeOK, OneEach
  <2>2. KeysInvariant'
    BY <1>0, <1>1 DEF KeysInvariant, Consistent
  <2>3. InsertsAreNew'
    BY <1>0, <1>1 DEF InsertsAreNew
  <2>4. QED BY <2>1, <2>2, <2>3
<1>3. /\ began \in PendingSet /\ began.del \subseteq Records
      /\ Entries(began.upd) /\ Entries(began.ins)
  BY <1>0, <1>1, QueuesWhileSaving DEF SaveInvariant
<1>4. /\ SentOf(began.del) = began.del
      /\ SentEntries(began.upd) = began.upd /\ SentEntries(began.ins) = began.ins
  BY <1>1, <1>3, ModuleAssumption DEF SentOf, SentEntries, Entries, Entry
<1>5. SentEntries(began.upd)' = {} /\ SentEntries(began.ins)' = {}
  BY <1>1 DEF SentEntries
<1>6. Table(txRows)
  BY <1>0, TablesAreTables
<1>7. CASE pc = "delete"
  <2>1. txRows = Removed(rows, began.del) /\ del = {} /\ upd = began.upd /\ ins = began.ins
    BY <1>0, <1>4, <1>7 DEF SaveInvariant
  <2>2. txRows = Updated(Removed(rows, began.del), {})
    BY <1>6, <2>1, NoCommand
  <2>3. QED BY <1>0, <1>1, <1>2, <1>5, <1>7, <2>1, <2>2 DEF IInv, SaveInvariant, OneEach
<1>8. CASE pc = "update"
  <2>1. /\ txRows = Updated(Removed(rows, began.del), began.upd)
        /\ del = {} /\ upd = {} /\ ins = began.ins
    BY <1>0, <1>4, <1>8 DEF SaveInvariant
  <2>2. txRows = Inserted(Updated(Removed(rows, began.del), began.upd), {})
    BY <1>6, <2>1, NoCommand
  <2>3. QED BY <1>0, <1>1, <1>2, <1>5, <1>8, <2>1, <2>2 DEF IInv, SaveInvariant, OneEach
<1>9. CASE pc = "insert"
  <2>1. txRows = Applied(rows, began) /\ NothingPending
    BY <1>0, <1>4, <1>9 DEF SaveInvariant, Applied, NothingPending
  <2>2. QED BY <1>0, <1>1, <1>2, <1>9, <2>1
            DEF IInv, SaveInvariant, OneEach, Applied, NothingPending
<1>10. QED BY <1>1, <1>7, <1>8, <1>9

LEMMA CommitKeeps ==
  ASSUME IInv, Commit
  PROVE  IInv'
<1>0. TypeOK /\ KeysInvariant /\ InsertsAreNew /\ SaveInvariant
  BY DEF IInv
<1>1. /\ pc = "commit" /\ rows' = txRows /\ pc' = "idle"
      /\ UNCHANGED <<born, keyed, fk, data, index, del, upd, ins, txRows, sent>>
  BY DEF Commit, objects, memory, queues
<1>2. TypeOK'
  BY <1>0, <1>1 DEF TypeOK, OneEach
<1>3. KeysInvariant'
  BY <1>0, <1>1 DEF KeysInvariant, Consistent
<1>4. InsertsAreNew' /\ SaveInvariant'
  BY <1>0, <1>1 DEF InsertsAreNew, SaveInvariant
<1>5. QED BY <1>2, <1>3, <1>4 DEF IInv

\* A Save that failed leaves queues without some of what was pending, and the old rows.
LEMMA FailSaveKeeps ==
  ASSUME IInv, FailSave
  PROVE  IInv'
<1>0. TypeOK /\ KeysInvariant /\ InsertsAreNew /\ SaveInvariant
  BY DEF IInv
<1>1. /\ pc # "idle" /\ txRows' = rows /\ pc' = "idle" /\ sent' = {}
      /\ UNCHANGED <<born, keyed, fk, data, index, del, upd, ins, rows>>
  BY DEF FailSave, objects, memory, queues
<1>2. TypeOK'
  BY <1>0, <1>1 DEF TypeOK, OneEach
<1>3. KeysInvariant'
  BY <1>0, <1>1 DEF KeysInvariant, Consistent
<1>4. InsertsAreNew' /\ SaveInvariant'
  BY <1>0, <1>1, QueuesWhileSaving DEF InsertsAreNew, SaveInvariant
<1>5. QED BY <1>2, <1>3, <1>4 DEF IInv

LEMMA StutterKeeps ==
  ASSUME IInv, UNCHANGED vars
  PROVE  IInv'
<1>1. UNCHANGED <<born, keyed, fk, data, index, del, upd, ins, rows, txRows,
                  pc, sent, began>>
  BY DEF vars, objects, memory, queues, saving
<1>2. TypeOK'
  BY <1>1 DEF IInv, TypeOK, OneEach
<1>3. KeysInvariant' /\ InsertsAreNew'
  BY <1>1 DEF IInv, KeysInvariant, Consistent, InsertsAreNew
<1>4. SaveInvariant'
  BY <1>1 DEF IInv, SaveInvariant, OneEach, SentOf, SentEntries, NothingPending
<1>5. QED BY <1>2, <1>3, <1>4 DEF IInv

LEMMA StepKeeps ==
  ASSUME IInv, [Next]_vars
  PROVE  IInv'
<1>1. CASE CallerStep
  BY <1>1, AddKeeps, AssignMasterKeeps, UpdateKeeps, DeleteKeeps, LoadKeeps,
     LoadByFieldsKeeps, ClearDataKeeps DEF CallerStep
<1>2. CASE BeginSave
  BY <1>2, BeginSaveKeeps
<1>3. CASE ForwardStep
  BY <1>3, ExecuteDeletesKeeps, ExecuteUpdatesKeeps, ExecuteInsertsKeeps,
     NextPhaseKeeps, CommitKeeps, FailSaveKeeps DEF ForwardStep
<1>4. CASE FailSave
  BY <1>4, FailSaveKeeps
<1>5. CASE UNCHANGED vars
  BY <1>5, StutterKeeps
<1>6. QED BY <1>1, <1>2, <1>3, <1>4, <1>5 DEF Next

\* Foreign keys in memory, in the queues and in the database refer to the right tables; a
\* record that waits to be inserted has no row; and while Save runs, the transaction and
\* the queues hold exactly what the commands sent so far have made of the rows and have
\* left of the changes (Save, saveDeletes, saveUpdates, saveInserts).
THEOREM ModuleInvariant == Spec => []IInv
<1>1. Init => IInv
  BY InitInvariant
<1>2. IInv /\ [Next]_vars => IInv'
  BY StepKeeps
<1>3. QED BY <1>1, <1>2, PTL DEF Spec

\* The state of a module keeps its shape: among others, the queues have one entry per
\* record and hold only records that were constructed (OrpheusModule, OrpheusTable<T>).
THEOREM ModuleTypes == Spec => []TypeOK
<1>1. IInv => TypeOK
  BY DEF IInv
<1>2. QED BY <1>1, ModuleInvariant, PTL

-----------------------------------------------------------------------------
(***************************************************************************)
(* Save is atomic.                                                         *)
(***************************************************************************)
LEMMA CallersKeepTheRows ==
  ASSUME CallerStep \/ BeginSave \/ FailSave
  PROVE  rows' = rows
BY DEF CallerStep, Add, AssignMaster, Update, Delete, Load, LoadByFields, ReadRows,
       ClearData, BeginSave, FailSave

LEMMA CommitAppliesAll ==
  ASSUME SaveInvariant, [Next]_vars
  PROVE  rows' # rows => rows' = Applied(rows, began)
<1>1. CASE Commit
  BY <1>1 DEF Commit, SaveInvariant
<1>2. CASE \E t \in Tables : ExecuteDeletes(t) \/ ExecuteUpdates(t) \/ ExecuteInserts(t)
  BY <1>2 DEF ExecuteDeletes, ExecuteUpdates, ExecuteInserts
<1>3. CASE NextPhase
  BY <1>3 DEF NextPhase
<1>4. CASE UNCHANGED vars
  BY <1>4 DEF vars
<1>5. QED BY <1>1, <1>2, <1>3, <1>4, CallersKeepTheRows DEF Next, ForwardStep

\* The committed rows change by all that was pending in all the tables when Save began,
\* in one step, in every hierarchy and whatever fails between (Save).
THEOREM ModuleAtomicity == Spec => ModuleSaveIsAtomic
<1>1. IInv /\ [Next]_vars => (rows' # rows => rows' = Applied(rows, began))
  BY CommitAppliesAll DEF IInv
<1>2. QED BY <1>1, ModuleInvariant, PTL DEF Spec, ModuleSaveIsAtomic

-----------------------------------------------------------------------------
(***************************************************************************)
(* Load brings the whole graph.                                            *)
(***************************************************************************)

\* Where the list of the tables has the masters before their details, a Load by keys leaves
\* the details of the masters in memory on every level, and a Load by fields does so for
\* the details of the main table, whatever was in memory before (Load).
THEOREM WholeGraph == ASSUME MastersListedFirst PROVE Spec => LoadBringsTheWholeGraph
<1> DEFINE Brings ==
      \A selected \in SUBSET (DOMAIN rows \cap Of(MainTable)), t \in Tables :
        /\ Load(selected) /\ Master[t] # None => DetailsMatch(t)
        /\ \A clearExistingData \in BOOLEAN :
              LoadByFields(selected, clearExistingData) /\ Master[t] = MainTable
                => DetailsMatch(t)
<1>1. IInv => Brings
  <2> SUFFICES ASSUME IInv,
                      NEW selected \in SUBSET (DOMAIN rows \cap Of(MainTable)), NEW t \in Tables
               PROVE  /\ Load(selected) /\ Master[t] # None => DetailsMatch(t)
                      /\ \A clearExistingData \in BOOLEAN :
                            LoadByFields(selected, clearExistingData) /\ Master[t] = MainTable
                              => DetailsMatch(t)
    OBVIOUS
  <2>1. data \in [Tables -> Seq(Records)]
    BY DEF IInv, TypeOK
  <2>2. ASSUME Load(selected), Master[t] # None
        PROVE  DetailsMatch(t)
    BY <2>1, <2>2, LoadMatches
  <2>3. ASSUME NEW clearExistingData \in BOOLEAN,
               LoadByFields(selected, clearExistingData), Master[t] = MainTable
        PROVE  DetailsMatch(t)
    BY <2>1, <2>3, LoadByFieldsMatches
  <2>4. QED BY <2>2, <2>3
<1>2. IInv /\ [Next]_vars => [Brings]_vars
  BY <1>1
<1>3. QED BY <1>2, ModuleInvariant, PTL DEF Spec, LoadBringsTheWholeGraph

-----------------------------------------------------------------------------
(***************************************************************************)
(* A Save is rejected only for what its changes, taken together, violate.  *)
(***************************************************************************)

\* The rows as all the changes leave them: what is deleted is gone unless it is inserted,
\* and where the updates are plain, the rows that stay refer to what they did.
LEMMA AppliedRows ==
  ASSUME IInv, pc # "idle"
  PROVE  /\ DOMAIN Applied(rows, began) = (DOMAIN rows \ began.del) \cup Recs(began.ins)
         /\ \A e \in began.ins : Applied(rows, began)[e.rec] = e.fk
         /\ PlainUpdates => \A r \in DOMAIN rows \ began.del : Applied(rows, began)[r] = rows[r]
<1> DEFINE R1 == Removed(rows, began.del)
           R2 == Updated(R1, began.upd)
           A == Applied(rows, began)
<1>1. /\ Table(rows) /\ Entries(began.upd) /\ Entries(began.ins)
      /\ \A e \in began.ins : e.rec \notin DOMAIN rows
  BY TablesAreTables, QueuesWhileSaving DEF IInv, InsertsAreNew
<1>2. /\ Table(R1) /\ DOMAIN R1 = DOMAIN rows \ began.del
      /\ \A r \in DOMAIN R1 : R1[r] = rows[r]
  BY <1>1, RemovedTable
<1> HIDE DEF R1
<1>3. Overridden(R2, DOMAIN R1, R1, began.upd)
  BY <1>1, <1>2, UpdatedTable
<1>4. Table(R2) /\ DOMAIN R2 = DOMAIN R1
  BY <1>3 DEF Overridden
<1> HIDE DEF R2
<1>5. Overridden(Inserted(R2, began.ins), DOMAIN R2 \cup Recs(began.ins), R2, began.ins)
  BY <1>1, <1>4, InsertedTable
<1>6. A = Inserted(R2, began.ins)
  BY DEF Applied, R1, R2
<1> HIDE DEF A
<1>7. DOMAIN A = (DOMAIN rows \ began.del) \cup Recs(began.ins)
  BY <1>2, <1>4, <1>5, <1>6 DEF Overridden
<1>8. \A e \in began.ins : A[e.rec] = e.fk
  BY <1>5, <1>6 DEF Overridden, Recs
<1>9. ASSUME PlainUpdates, NEW r \in DOMAIN rows \ began.del
      PROVE  A[r] = rows[r]
  <2>1. A[r] = R2[r]
    BY <1>1, <1>2, <1>4, <1>5, <1>6 DEF Overridden
  <2>2. CASE \E e \in began.upd : e.rec = r
    BY <1>2, <1>3, <1>9, <2>1, <2>2 DEF Overridden, PlainUpdates
  <2>3. CASE \A e \in began.upd : e.rec # r
    BY <1>2, <1>3, <2>1, <2>3 DEF Overridden
  <2>4. QED BY <2>2, <2>3
<1>10. QED BY <1>7, <1>8, <1>9 DEF A

\* The deletes of a table fail only if one of its records is still referred to at the end.
LEMMA DoomedDelete ==
  ASSUME MastersAbove, IInv, PlainUpdates, NEW t \in Tables,
         pc = "delete", Turn(t, DeletesBefore(t)), ~CanDelete(t)
  PROVE  ~Consistent(Applied(rows, began))
<1> DEFINE A == Applied(rows, began)
<1>1. /\ DOMAIN A = (DOMAIN rows \ began.del) \cup Recs(began.ins)
      /\ \A r \in DOMAIN rows \ began.del : A[r] = rows[r]
      /\ \A e \in began.ins : e.rec \notin DOMAIN rows
  BY AppliedRows DEF IInv, InsertsAreNew
<1> HIDE DEF A
<1>2. /\ Table(rows) /\ Consistent(rows) /\ began.del \subseteq Records
      /\ txRows = Removed(rows, SentOf(began.del)) /\ del = began.del \ SentOf(began.del)
  BY TablesAreTables, QueuesWhileSaving DEF IInv, KeysInvariant, SaveInvariant
<1>3. PICK r \in DOMAIN txRows \ DeletesOf(t) : txRows[r] \in DeletesOf(t)
  BY DEF CanDelete
<1> DEFINE m == rows[r]
<1>4. r \in DOMAIN rows /\ r \notin SentOf(began.del) /\ txRows[r] = m
  BY <1>2, <1>3 DEF Removed
<1>5. m \in began.del /\ TableOf[m] = t /\ m \in Records
  BY <1>2, <1>3, <1>4 DEF DeletesOf, Of
<1>6. MasterOf(r) = t /\ m \in DOMAIN rows /\ r \in Records
  BY <1>2, <1>4, <1>5, ModuleAssumption DEF Consistent, Of, Table
<1>7. TableOf[r] \in Tables /\ Master[TableOf[r]] = t /\ t # None
  BY <1>6, ModuleAssumption DEF MasterOf
<1>8. TableOf[r] \in sent
  <2>1. Level[t] < Level[TableOf[r]]
    BY <1>7 DEF MastersAbove
  <2>2. TableOf[r] \in LevelDown(t)
    BY <1>7, <2>1 DEF LevelDown
  <2>3. QED BY <2>2 DEF Turn, DeletesBefore
<1>9. r \notin began.del
  BY <1>4, <1>8 DEF SentOf
<1>10. A[r] = m /\ r \in DOMAIN A /\ m \notin DOMAIN A
  BY <1>1, <1>4, <1>5, <1>6, <1>9 DEF Recs
<1>11. ~Consistent(A)
  BY <1>6, <1>7, <1>10 DEF Consistent
<1>12. QED BY <1>11 DEF A

\* The updates of a table fail only if one refers to a record that is deleted.
LEMMA DoomedUpdate ==
  ASSUME IInv, PlainUpdates, NEW t \in Tables,
         pc = "update", Turn(t, UpdatesBefore(t)), ~CanUpdate(t)
  PROVE  ~Consistent(Applied(rows, began))
<1> DEFINE A == Applied(rows, began)
           R == Removed(rows, began.del)
<1>1. /\ DOMAIN A = (DOMAIN rows \ began.del) \cup Recs(began.ins)
      /\ \A r \in DOMAIN rows \ began.del : A[r] = rows[r]
      /\ \A e \in began.ins : e.rec \notin DOMAIN rows
  BY AppliedRows DEF IInv, InsertsAreNew
<1> HIDE DEF A
<1>2. /\ Table(rows) /\ Consistent(rows) /\ Entries(began.upd)
      /\ txRows = Updated(R, SentEntries(began.upd))
      /\ upd = began.upd \ SentEntries(began.upd)
  BY TablesAreTables, QueuesWhileSaving DEF IInv, KeysInvariant, SaveInvariant
<1>3. DOMAIN txRows = DOMAIN rows \ began.del
  BY <1>2 DEF Updated, Removed
<1>4. PICK e \in UpdatesOf(t) : e.rec \in DOMAIN txRows /\ ~CanRefer(e)
  BY <1>2 DEF CanUpdate, PlainUpdates, UpdatesOf
<1>5. e \in began.upd /\ MasterOf(e.rec) # None /\ e.fk \notin DOMAIN txRows
  BY <1>2, <1>4 DEF UpdatesOf, CanRefer
<1>6. e.rec \in DOMAIN rows \ began.del /\ e.fk = rows[e.rec]
  BY <1>3, <1>4, <1>5 DEF PlainUpdates
<1>7. e.fk \in DOMAIN rows
  BY <1>2, <1>5, <1>6 DEF Consistent
<1>8. e.rec \in DOMAIN A /\ A[e.rec] = e.fk /\ e.fk \notin DOMAIN A
  BY <1>1, <1>3, <1>5, <1>6, <1>7 DEF Recs
<1>9. ~Consistent(A)
  BY <1>5, <1>8 DEF Consistent
<1>10. QED BY <1>9 DEF A

\* The inserts of a table fail only if one refers to a record that is not there at the end.
LEMMA DoomedInsert ==
  ASSUME MastersAbove, IInv, NEW t \in Tables,
         pc = "insert", Turn(t, InsertsBefore(t)), ~CanInsert(t)
  PROVE  ~Consistent(Applied(rows, began))
<1> DEFINE A == Applied(rows, began)
           R == Updated(Removed(rows, began.del), began.upd)
<1>1. /\ DOMAIN A = (DOMAIN rows \ began.del) \cup Recs(began.ins)
      /\ \A e \in began.ins : A[e.rec] = e.fk
  BY AppliedRows
<1> HIDE DEF A
<1>2. /\ Entries(began.ins) /\ txRows = Inserted(R, SentEntries(began.ins))
      /\ ins = began.ins \ SentEntries(began.ins)
  BY QueuesWhileSaving DEF IInv, SaveInvariant
<1>3. DOMAIN txRows = (DOMAIN rows \ began.del) \cup Recs(SentEntries(began.ins))
  BY <1>2 DEF Inserted, Updated, Removed, Recs
<1>4. PICK e \in InsertsOf(t) : ~CanRefer(e)
  BY DEF CanInsert, InsertsOf, IInv, InsertsAreNew
<1>5. /\ e \in began.ins /\ TableOf[e.rec] = t
      /\ Master[t] # None /\ e.fk \notin DOMAIN txRows
  BY <1>2, <1>4 DEF InsertsOf, CanRefer, MasterOf
<1>6. SUFFICES ASSUME Consistent(A) PROVE FALSE
  BY DEF A
<1>7. e.rec \in DOMAIN A /\ A[e.rec] = e.fk
  BY <1>1, <1>5 DEF Recs
<1>8. e.fk \in DOMAIN A /\ TableOf[e.fk] = Master[t]
  BY <1>5, <1>6, <1>7 DEF Consistent, MasterOf, Of
<1>9. PICK d \in began.ins : d.rec = e.fk
  BY <1>1, <1>3, <1>5, <1>8 DEF Recs
<1>10. Master[t] \in sent
  <2>1. Master[t] \in Tables /\ Level[Master[t]] < Level[t]
    BY <1>5, ModuleAssumption DEF MastersAbove
  <2>2. Master[t] \in LevelUp(t)
    BY <2>1 DEF LevelUp
  <2>3. QED BY <2>2 DEF Turn, InsertsBefore
<1>11. d \in SentEntries(began.ins)
  BY <1>8, <1>9, <1>10 DEF SentEntries
<1>12. QED BY <1>3, <1>5, <1>9, <1>11 DEF Recs

LEMMA DoomedPlainSave ==
  ASSUME MastersAbove, IInv
  PROVE  PlainSavesGoThrough
BY DoomedDelete, DoomedUpdate, DoomedInsert DEF PlainSavesGoThrough, Doomed

\* Where the levels grow from the masters down, as Level counts them, no order of the tables
\* within the levels and no number of levels makes a command violate a foreign key that
\* the changes together keep (saveDeletes, saveUpdates, saveInserts).
THEOREM PlainSaves == ASSUME MastersAbove PROVE Spec => []PlainSavesGoThrough
<1>1. IInv => PlainSavesGoThrough
  BY DoomedPlainSave
<1>2. QED BY <1>1, ModuleInvariant, PTL

-----------------------------------------------------------------------------
(***************************************************************************)
(* Where nothing moves, updates are plain.                                 *)
(***************************************************************************)
LEMMA FixedInit == Init => FixedMasters
BY DEF Init, FixedMasters

\* Add constructs a record without a row; its entry has the foreign key of the record.
LEMMA AddFixes ==
  ASSUME IInv, FixedMasters, NEW r \in Records, NEW f \in Records \cup {None}, Add(r, f)
  PROVE  FixedMasters'
<1>1. /\ r \notin born /\ r \notin DOMAIN rows /\ txRows = rows
      /\ fk \in [Records -> Records \cup {None}] /\ born \subseteq Records
      /\ pc = "idle" /\ pc' = "idle" /\ born' = born \cup {r}
      /\ UNCHANGED <<upd, rows, txRows, began>>
  BY DEF Add, Idle, IInv, TypeOK, SaveInvariant, saving
<1>2. /\ \A x \in born : fk'[x] = fk[x]
      /\ \A e \in ins' : e \in ins \/ e.fk = fk'[e.rec]
  <2>1. CASE CannotFill(r, f)
    BY <2>1 DEF Add
  <2>2. CASE ~CannotFill(r, f)
    BY <1>1, <2>2 DEF Add, Queue
  <2>3. QED BY <2>1, <2>2
<1>3. \A e \in ins : e.rec \in born
  BY DEF IInv, InsertsAreNew
<1>4. QED BY <1>1, <1>2, <1>3 DEF FixedMasters

\* Update fills in only the foreign keys of records without a row.
LEMMA UpdateFixes ==
  ASSUME IInv, FixedMasters, NEW r \in Records, Update(r)
  PROVE  FixedMasters'
<1>1. /\ r \in born /\ txRows = rows /\ fk \in [Records -> Records \cup {None}]
      /\ "update" \in Calls /\ Consistent(rows) /\ Table(rows)
      /\ pc = "idle" /\ pc' = "idle"
      /\ UNCHANGED <<born, ins, rows, txRows, began>>
  BY TablesAreTables DEF Update, Idle, IInv, TypeOK, SaveInvariant, KeysInvariant, saving
<1>2. CASE CannotFill(r, fk[r])
  <2>1. UNCHANGED <<fk, upd>>
    BY <1>2 DEF Update
  <2>2. QED BY <1>1, <2>1 DEF FixedMasters
<1>3. CASE ~CannotFill(r, fk[r])
  <2>1. fk' = [fk EXCEPT ![r] = Filled(r, fk[r])] /\ upd' = Queue(upd, r, Filled(r, fk[r]))
    BY <1>3 DEF Update
  <2>2. r \in DOMAIN rows => fk'[r] = fk[r]
    <3>1. ASSUME r \in DOMAIN rows PROVE ~MustFill(r, fk[r])
      BY <1>1, <3>1, ModuleAssumption DEF FixedMasters, Consistent, MustFill, Table
    <3>2. QED BY <1>1, <2>1, <3>1 DEF Filled
  <2>3. fk'[r] = fk[r] \/ fk[r] = None
    BY <1>1, <2>1 DEF Filled, MustFill
  <2>4. /\ \A x \in Records : x # r => fk'[x] = fk[x]
        /\ \A e \in upd' : (e \in upd /\ e.rec # r) \/ (e.rec = r /\ e.fk = fk'[r])
    BY <1>1, <2>1 DEF Queue
  <2>5. /\ born \subseteq Records /\ upd \subseteq Entry /\ ins \subseteq Entry
    BY DEF IInv, TypeOK
  <2>6. \A e \in ins : e.rec \in Records /\ e.fk \in {None, fk'[e.rec]}
    BY <2>3, <2>4, <2>5 DEF Entry, FixedMasters
  <2>7. \A e \in upd' : e.rec \in born /\ e.fk = fk'[e.rec]
    BY <1>1, <2>4, <2>5 DEF FixedMasters
  <2>8. \A x \in born \cap DOMAIN rows : fk'[x] = rows[x]
    BY <2>2, <2>4, <2>5 DEF FixedMasters
  <2>9. QED BY <1>1, <2>6, <2>7, <2>8 DEF FixedMasters
<1>4. QED BY <1>2, <1>3

\* What is read refers to what its row refers to, as what waits to be updated does; what
\* waits to be inserted has no row and is not read.
LEMMA LoadFixes ==
  ASSUME IInv, FixedMasters, Idle, NEW read, read \subseteq DOMAIN rows,
         born' = born \cup read,
         fk' = [r \in Records |-> IF r \in read THEN rows[r] ELSE fk[r]],
         UNCHANGED <<queues, rows, txRows, saving>>
  PROVE  FixedMasters'
<1>1. /\ txRows = rows /\ Table(rows) /\ pc' = "idle" /\ UNCHANGED <<upd, ins, rows, txRows>>
      /\ upd \subseteq Entry /\ ins \subseteq Entry
      /\ \A e \in ins : e.rec \notin DOMAIN rows
  BY TablesAreTables DEF IInv, TypeOK, InsertsAreNew, SaveInvariant, Idle, queues, saving
<1>2. \A r \in born' \cap DOMAIN rows : fk'[r] = rows[r]
  BY <1>1 DEF FixedMasters, Table
<1>3. \A e \in upd \cup ins : e.rec \in Records
  BY <1>1 DEF Entry
<1>4. \A e \in ins : fk'[e.rec] = fk[e.rec]
  BY <1>1, <1>3
<1>5. \A e \in upd : fk'[e.rec] = fk[e.rec] /\ e.rec \in born'
  BY <1>1, <1>3 DEF FixedMasters
<1>6. \A e \in ins : e.fk \in {None, fk'[e.rec]}
  BY <1>4 DEF FixedMasters
<1>7. \A e \in upd : e.rec \in born' /\ e.fk = fk'[e.rec] /\ "update" \in Calls
  BY <1>5 DEF FixedMasters
<1>8. QED BY <1>1, <1>2, <1>6, <1>7 DEF FixedMasters

\* The other steps of the caller touch neither foreign keys nor entries.
LEMMA CallerFixes ==
  ASSUME NothingMoves, IInv, FixedMasters, CallerStep
  PROVE  FixedMasters'
<1>1. ASSUME NEW r \in Records, NEW f \in Records \cup {None}, Add(r, f) \/ AssignMaster(r, f)
      PROVE  FixedMasters'
  BY <1>1, AddFixes DEF AssignMaster, NothingMoves
<1>2. ASSUME NEW r \in Records, Delete(r)
      PROVE  FixedMasters'
  BY <1>2 DEF Delete, FixedMasters, objects, saving
<1>3. ASSUME NEW selected, selected \subseteq DOMAIN rows \cap Of(MainTable), Load(selected)
      PROVE  FixedMasters'
  <2> DEFINE L == LoadedBy(selected)
             read == UNION {L[t] : t \in LinkedTables}
  <2>1. \A t \in LinkedTables : L[t] \subseteq DOMAIN rows \cap Of(t)
    BY <1>3, LoadedByReads
  <2>2. read \subseteq DOMAIN rows
    BY <2>1
  <2>3. /\ Idle /\ born' = born \cup read
        /\ fk' = [r \in Records |-> IF r \in read THEN rows[r] ELSE fk[r]]
        /\ UNCHANGED <<queues, rows, txRows, saving>>
    BY <1>3 DEF Load, LinkedTables, ReadRows
  <2> HIDE DEF read
  <2>4. QED BY <2>2, <2>3, LoadFixes
<1>4. ASSUME NEW selected, selected \subseteq DOMAIN rows \cap Of(MainTable),
             NEW clearExistingData \in BOOLEAN, LoadByFields(selected, clearExistingData)
      PROVE  FixedMasters'
  <2> DEFINE kept == IF clearExistingData THEN {} ELSE Listed(data[MainTable])
             L == LoadedByFields(selected, kept)
             read == UNION {L[t] : t \in FirstDetails}
  <2>1. \A t \in FirstDetails : L[t] \subseteq DOMAIN rows \cap Of(t)
    BY <1>4, LoadedByFieldsReads
  <2>2. read \subseteq DOMAIN rows
    BY <2>1
  <2>3. /\ Idle /\ born' = born \cup read
        /\ fk' = [r \in Records |-> IF r \in read THEN rows[r] ELSE fk[r]]
        /\ UNCHANGED <<queues, rows, txRows, saving>>
    BY <1>4 DEF LoadByFields, FirstDetails, ReadRows
  <2> HIDE DEF read
  <2>4. QED BY <2>2, <2>3, LoadFixes
<1>5. ASSUME ClearData
      PROVE  FixedMasters'
  BY <1>5 DEF ClearData, FixedMasters, objects, queues, saving
<1>6. QED BY <1>1, <1>2, <1>3, <1>4, <1>5, UpdateFixes DEF CallerStep

\* The commands write what the records refer to.
LEMMA UpdatesFix ==
  ASSUME IInv, FixedMasters, NEW t \in Tables, ExecuteUpdates(t)
  PROVE  FixedMasters'
<1>1. /\ txRows' = Updated(txRows, UpdatesOf(t)) /\ upd' \subseteq upd
      /\ UNCHANGED <<born, fk, ins, rows, pc, began>>
  BY DEF ExecuteUpdates, objects
<1>2. Table(txRows) /\ Entries(UpdatesOf(t)) /\ UpdatesOf(t) \subseteq upd
  BY TablesAreTables, QueuesAreEntries DEF IInv, Entries, OneEach, UpdatesOf
<1>3. Overridden(txRows', DOMAIN txRows, txRows, UpdatesOf(t))
  BY <1>1, <1>2, UpdatedTable
<1>4. \A r \in born \cap DOMAIN txRows : fk[r] = txRows'[r]
  BY <1>2, <1>3 DEF FixedMasters, Overridden
<1>5. DOMAIN txRows' = DOMAIN txRows
  BY <1>3 DEF Overridden
<1>6. QED BY <1>1, <1>4, <1>5 DEF FixedMasters

LEMMA InsertsFix ==
  ASSUME IInv, FixedMasters, NEW t \in Tables, ExecuteInserts(t)
  PROVE  FixedMasters'
<1>1. /\ txRows' = Inserted(txRows, InsertsOf(t)) /\ ins' \subseteq ins /\ CanInsert(t)
      /\ UNCHANGED <<born, fk, upd, rows, pc, began>>
  BY DEF ExecuteInserts
<1>2. Table(txRows) /\ Entries(InsertsOf(t)) /\ InsertsOf(t) \subseteq ins
  BY TablesAreTables, QueuesAreEntries DEF IInv, Entries, OneEach, InsertsOf
<1>3. Overridden(txRows', DOMAIN txRows \cup Recs(InsertsOf(t)), txRows, InsertsOf(t))
  BY <1>1, <1>2, InsertedTable
<1>4. \A e \in InsertsOf(t) : e.fk = fk[e.rec]
  <2>1. SUFFICES ASSUME NEW e \in InsertsOf(t), e.fk = None PROVE fk[e.rec] = None
    BY <1>2 DEF FixedMasters
  <2>2. MasterOf(e.rec) = None
    BY <1>1, <1>2, <2>1, ModuleAssumption DEF CanInsert, CanRefer, Table
  <2>3. e.rec \in Records
    BY <1>2 DEF Entries, Entry
  <2>4. QED BY <2>2, <2>3 DEF IInv, KeysInvariant, Refers
<1>5. \A r \in born \cap DOMAIN txRows' : fk[r] = txRows'[r]
  BY <1>3, <1>4 DEF FixedMasters, Overridden, Recs
<1>6. QED BY <1>1, <1>5 DEF FixedMasters

LEMMA StepFixes ==
  ASSUME NothingMoves, IInv, FixedMasters, [Next]_vars
  PROVE  FixedMasters'
<1>1. CASE BeginSave
  BY <1>1 DEF BeginSave, FixedMasters, Pending, objects, queues
<1>2. ASSUME NEW t \in Tables, ExecuteDeletes(t)
      PROVE  FixedMasters'
  <2>1. \A r \in DOMAIN txRows' : r \in DOMAIN txRows /\ txRows'[r] = txRows[r]
    BY <1>2 DEF ExecuteDeletes, Removed
  <2>2. UNCHANGED <<born, fk, upd, ins, rows, pc, began>>
    BY <1>2 DEF ExecuteDeletes, objects
  <2>3. QED BY <2>1, <2>2 DEF FixedMasters
<1>3. CASE NextPhase
  BY <1>3 DEF NextPhase, FixedMasters, objects, queues
<1>4. CASE Commit
  BY <1>4 DEF Commit, FixedMasters, objects, queues
<1>5. CASE FailSave
  BY <1>5 DEF FailSave, FixedMasters, objects, queues
<1>6. CASE UNCHANGED vars
  BY <1>6 DEF vars, objects, queues, saving, FixedMasters
<1>7. QED BY <1>1, <1>2, <1>3, <1>4, <1>5, <1>6, CallerFixes, UpdatesFix, InsertsFix
          DEF Next, ForwardStep

LEMMA FixedMastersInvariant == ASSUME NothingMoves PROVE Spec => [](IInv /\ FixedMasters)
<1>1. Init => FixedMasters
  BY FixedInit
<1>2. IInv /\ FixedMasters /\ [Next]_vars => FixedMasters'
  BY StepFixes
<1>3. QED BY <1>1, <1>2, ModuleInvariant, PTL DEF Spec

\* A Save of new, deleted and updated records is rejected only if its changes, taken
\* together, violate a foreign key, where the levels grow from the masters down and no
\* caller moves a detail to another master (saveDeletes, saveUpdates, saveInserts).
THEOREM ConsistentSaves ==
  ASSUME MastersAbove, NothingMoves PROVE Spec => []ConsistentSavesGoThrough
<1>1. IInv /\ FixedMasters => ConsistentSavesGoThrough
  <2> SUFFICES ASSUME IInv, FixedMasters, Doomed
               PROVE  ~Consistent(Applied(rows, began))
    BY DEF ConsistentSavesGoThrough
  <2>1. pc # "idle"
    BY DEF Doomed
  <2>2. \A e \in began.upd : e.rec \in Records
    BY <2>1, QueuesWhileSaving DEF IInv, Entries, Entry
  <2>3. PlainUpdates
    BY <2>1, <2>2 DEF PlainUpdates, FixedMasters, NothingMoves
  <2>4. QED BY <2>3, DoomedPlainSave DEF PlainSavesGoThrough
<1>2. QED BY <1>1, FixedMastersInvariant, PTL
====================================================================
