-------------------------- MODULE OrpheusSchemaProofs --------------------------
(***************************************************************************)
(* Theorems about OrpheusSchema, for every set of objects and versions,    *)
(* every list of schemas and releases and every choice of faults: the      *)
(* shape of the state, and that the tables are whole.                      *)
(***************************************************************************)
EXTENDS OrpheusSchema, TLAPS, FiniteSetTheorems

-----------------------------------------------------------------------------
(***************************************************************************)
(* Sequences.                                                              *)
(***************************************************************************)

\* Three ways in which the stack changes: t is s with f on top of it, s with f for its
\* first element, and s without it.
Pushed(S, t, f, s) ==
  /\ t \in Seq(S) /\ Len(t) = Len(s) + 1 /\ t[1] = f
  /\ \A i \in 1..Len(s) : t[i + 1] = s[i]
  /\ \A i \in 2..Len(t) : t[i] = s[i - 1]

Replaced(S, t, f, s) ==
  t \in Seq(S) /\ Len(t) = Len(s) /\ t[1] = f /\ \A i \in 2..Len(s) : t[i] = s[i]

Popped(S, t, s) ==
  t \in Seq(S) /\ Len(t) = Len(s) - 1 /\ \A i \in 1..Len(t) : t[i] = s[i + 1]

LEMMA Pushing ==
  ASSUME NEW S, NEW f \in S, NEW s \in Seq(S)
  PROVE  Pushed(S, <<f>> \o s, f, s)
<1>1. <<f>> \o s \in Seq(S) /\ Len(<<f>> \o s) = Len(s) + 1
  OBVIOUS
<1>2. (<<f>> \o s)[1] = f
  OBVIOUS
<1>3. \A i \in 2..(Len(s) + 1) : (<<f>> \o s)[i] = s[i - 1]
  OBVIOUS
<1>4. \A i \in 1..Len(s) : (<<f>> \o s)[i + 1] = s[i]
  OBVIOUS
<1>5. QED BY <1>1, <1>2, <1>3, <1>4 DEF Pushed

LEMMA Replacing ==
  ASSUME NEW S, NEW f \in S, NEW s \in Seq(S), s # <<>>
  PROVE  Replaced(S, [s EXCEPT ![1] = f], f, s)
<1>1. 1 \in 1..Len(s)
  OBVIOUS
<1>2. [s EXCEPT ![1] = f] \in Seq(S) /\ Len([s EXCEPT ![1] = f]) = Len(s)
  BY <1>1
<1>3. QED BY <1>1, <1>2 DEF Replaced

LEMMA Popping ==
  ASSUME NEW S, NEW s \in Seq(S), s # <<>>
  PROVE  Popped(S, Tail(s), s)
<1>1. Tail(s) \in Seq(S) /\ Len(Tail(s)) = Len(s) - 1
  OBVIOUS
<1>2. \A i \in 1..Len(Tail(s)) : Tail(s)[i] = s[i + 1]
  BY <1>1
<1>3. QED BY <1>1, <1>2 DEF Popped

LEMMA Concatenation ==
  ASSUME NEW S, NEW s \in Seq(S), NEW t \in Seq(S)
  PROVE  /\ s \o t \in Seq(S) /\ Len(s \o t) = Len(s) + Len(t)
         /\ Len(s) \in Nat /\ Len(t) \in Nat
         /\ \A i \in 1..Len(s) : (s \o t)[i] = s[i]
         /\ \A i \in 1..Len(t) : (s \o t)[Len(s) + i] = t[i]
OBVIOUS

LEMMA LastOfConcatenation ==
  ASSUME NEW S, NEW s \in Seq(S), NEW t \in Seq(S)
  PROVE  /\ s \o t \in Seq(S)
         /\ t # <<>> => s \o t # <<>> /\ (s \o t)[Len(s \o t)] = t[Len(t)]
         /\ t = <<>> => s \o t = s
OBVIOUS

LEMMA TailOfSequence ==
  ASSUME NEW S, NEW s \in Seq(S), s # <<>>
  PROVE  /\ Head(s) = s[1] /\ Tail(s) \in Seq(S) /\ Len(s) \in Nat \ {0}
         /\ Tail(s) = <<>> <=> Len(s) = 1
         /\ Tail(s) # <<>> => Tail(s)[Len(Tail(s))] = s[Len(s)]
<1>1. Head(s) = s[1] /\ Tail(s) \in Seq(S) /\ Len(s) \in Nat \ {0} /\ Len(Tail(s)) = Len(s) - 1
  OBVIOUS
<1>2. Tail(s) = <<>> <=> Len(Tail(s)) = 0
  <2>1. PICK t : t = Tail(s)
    OBVIOUS
  <2>2. t \in Seq(S)
    BY <1>1, <2>1
  <2>3. t = <<>> <=> Len(t) = 0
    BY <2>2
  <2>4. QED BY <2>1, <2>3
<1>3. Tail(s) = <<>> <=> Len(s) = 1
  BY <1>1, <1>2
<1>4. Tail(s) # <<>> => Tail(s)[Len(Tail(s))] = s[Len(s)]
  <2>1. SUFFICES ASSUME Tail(s) # <<>>
                 PROVE  Tail(s)[Len(Tail(s))] = s[Len(s)]
    OBVIOUS
  <2>2. Len(Tail(s)) \in 1..Len(Tail(s)) /\ Len(Tail(s)) + 1 = Len(s)
    BY <1>1, <1>2, <2>1
  <2>3. \A i \in 1..Len(Tail(s)) : Tail(s)[i] = s[i + 1]
    BY Popping DEF Popped
  <2>4. QED BY <2>2, <2>3
<1>5. QED BY <1>1, <1>3, <1>4

\* SetToSeq lists every element of a finite set.
LEMMA Listing ==
  ASSUME NEW D, IsFiniteSet(D)
  PROVE  /\ SetToSeq(D) \in Seq(D)
         /\ \A d \in D : \E i \in 1..Len(SetToSeq(D)) : SetToSeq(D)[i] = d
<1> DEFINE n == Cardinality(D)
           q == SetToSeq(D)
<1>1. n \in Nat /\ ExistsBijection(1..n, D)
  BY FS_CardinalityType
<1>2. PICK f \in Bijection(1..n, D) : TRUE
  BY <1>1 DEF ExistsBijection
<1>3. f \in [1..n -> D] /\ IsInjective(f)
  BY <1>2 DEF Bijection, Injection
<1>4. q \in [1..n -> D] /\ IsInjective(q)
  BY <1>3 DEF SetToSeq
<1>5. q \in Injection(1..n, D)
  BY <1>4 DEF Injection
<1> HIDE DEF q
<1>6. Cardinality(1..n) = n
  BY <1>1, FS_Interval
<1> HIDE DEF n
<1>7. q \in Surjection(1..n, D)
  <2>1. Cardinality(D) = n
    BY DEF n
  <2>2. Cardinality(1..n) = Cardinality(D) <=> q \in Surjection(1..n, D)
    BY <1>5, FS_Injection, Zenon
  <2>3. QED BY <2>1, <2>2, <1>6
<1>8. \A d \in D : \E i \in 1..n : q[i] = d
  BY <1>7 DEF Surjection
<1>9. q \in Seq(D) /\ Len(q) = n
  BY <1>1, <1>4
<1>10. QED BY <1>8, <1>9 DEF q

-----------------------------------------------------------------------------
(***************************************************************************)
(* Columns and the ALTER commands.                                         *)
(***************************************************************************)
IsColumns(c) == DOMAIN c \subseteq ColumnNames /\ c \in [DOMAIN c -> ColumnTypes]

LEMMA ColumnsInSet ==
  ASSUME NEW c
  PROVE  c \in ColumnSets <=> IsColumns(c)
BY DEF ColumnSets, IsColumns

LEMMA WantedColumns ==
  ASSUME NEW o \in All, release \in Releases
  PROVE  /\ Wanted(o).columns \in ColumnSets
         /\ IsFiniteSet(DOMAIN Wanted(o).columns)
         /\ Wanted(o).keys \subseteq DOMAIN Wanted(o).columns
         /\ Wanted(o).keys \subseteq ColumnNames
         /\ o \in Objects => release[o] \in Versions /\ Wanted(o) = Model[release[o]]
<1>1. CASE o \in Internal
  <2>1. Wanted(o) = OwnModel /\ o \notin Objects
    BY <1>1, SchemaAssumption DEF Wanted
  <2>2. IsColumns(OwnModel.columns) /\ DOMAIN OwnModel.columns = {"id"} /\ OwnModel.keys = {}
    BY DEF OwnModel, IsColumns, ColumnNames, ColumnTypes
  <2>3. IsFiniteSet({"id"})
    BY FS_Singleton
  <2>4. QED BY <2>1, <2>2, <2>3, ColumnsInSet
<1>2. CASE o \in Objects
  <2>1. o \notin Internal /\ release[o] \in Versions
    BY <1>2, SchemaAssumption
  <2>2. Wanted(o) = Model[release[o]]
    BY <2>1 DEF Wanted
  <2>3. Model[release[o]].columns \in ColumnSets
    BY <2>1, SchemaAssumption
  <2>4. IsColumns(Model[release[o]].columns)
    BY <2>3, ColumnsInSet
  <2>5. IsFiniteSet(DOMAIN Model[release[o]].columns)
    BY <2>1, SchemaAssumption
  <2>6. Model[release[o]].keys \subseteq DOMAIN Model[release[o]].columns
    BY <2>1, SchemaAssumption
  <2>7. QED BY <2>1, <2>2, <2>3, <2>4, <2>5, <2>6 DEF IsColumns
<1>3. QED BY <1>1, <1>2 DEF All

\* Columns that take their types from those of others.
LEMMA MixedColumns ==
  ASSUME NEW a, IsColumns(a), NEW b, IsColumns(b), NEW C,
         NEW u, DOMAIN u = C, u \in [C -> ColumnTypes \cup {u[c] : c \in C}],
         \A c \in C : \/ c \in DOMAIN a /\ u[c] = a[c]
                      \/ c \in DOMAIN b /\ u[c] = b[c]
  PROVE  IsColumns(u)
<1>1. \A c \in C : c \in ColumnNames /\ u[c] \in ColumnTypes
  BY DEF IsColumns
<1>2. QED BY <1>1 DEF IsColumns

\* The ALTER commands lead to the columns of the model, and there are none where the table
\* has them already (GetAlterDDLCommands).
LEMMA AlterLeadsToTheModel ==
  ASSUME NEW old \in ColumnSets, NEW m, m.columns \in ColumnSets,
         IsFiniteSet(DOMAIN m.columns)
  PROVE  LET ddl == AlterCommands(old, m)
         IN  /\ ddl \in Seq(ColumnSets)
             /\ ddl # <<>> => Fits(ddl[Len(ddl)], m)
             /\ ddl = <<>> => Fits(old, m)
<1> DEFINE kept == [c \in DOMAIN old \cap DOMAIN m.columns |-> old[c]]
           D == {c \in DOMAIN kept \ m.nullable : kept[c] # m.columns[c]}
           differing == SetToSeq(D)
           retyped == [n \in 0..Len(differing) |->
             [c \in DOMAIN kept |-> IF c \in ToSet(SubSeq(differing, 1, n))
                                    THEN m.columns[c] ELSE kept[c]]]
           final == [c \in DOMAIN m.columns |->
                       IF c \in DOMAIN kept THEN retyped[Len(differing)][c]
                                            ELSE m.columns[c]]
           A == IF kept = old THEN <<>> ELSE << kept >>
           B == [n \in 1..Len(differing) |-> retyped[n]]
           C == IF DOMAIN final = DOMAIN kept THEN <<>> ELSE << final >>
<1>1. AlterCommands(old, m) = (A \o B) \o C
  BY DEF AlterCommands
<1>2. IsColumns(old) /\ IsColumns(m.columns)
  BY ColumnsInSet
<1>3. DOMAIN kept = DOMAIN old \cap DOMAIN m.columns
  OBVIOUS
<1>4. IsFiniteSet(D)
  <2>1. D \subseteq DOMAIN m.columns
    OBVIOUS
  <2>2. QED BY <2>1, FS_Subset
<1>5. differing \in Seq(D) /\ \A d \in D : \E i \in 1..Len(differing) : differing[i] = d
  BY <1>4, Listing
<1>6. IsColumns(kept)
  BY <1>2 DEF IsColumns
<1> DEFINE N == Len(differing)
<1>7. N \in Nat
  BY <1>5
<1>8. D \subseteq DOMAIN kept /\ \A c \in DOMAIN kept \ D : c \in m.nullable \/ kept[c] = m.columns[c]
  OBVIOUS
<1>9. \A n \in 0..N : IsColumns(retyped[n]) /\ DOMAIN retyped[n] = DOMAIN kept
  <2>1. SUFFICES ASSUME NEW n \in 0..N
                 PROVE  IsColumns(retyped[n]) /\ DOMAIN retyped[n] = DOMAIN kept
    OBVIOUS
  <2>2. \A c \in DOMAIN kept : c \in DOMAIN m.columns
    BY <1>3
  <2> DEFINE q == ToSet(SubSeq(differing, 1, n))
  <2>3. retyped[n] = [c \in DOMAIN kept |-> IF c \in q THEN m.columns[c] ELSE kept[c]]
    OBVIOUS
  <2> HIDE DEF q, retyped, kept
  <2>4. QED BY <2>2, <2>3, <1>2, <1>6 DEF IsColumns
<1>10. \A c \in D : retyped[N][c] = m.columns[c]
  <2>1. SUFFICES ASSUME NEW c \in D
                 PROVE  retyped[N][c] = m.columns[c]
    OBVIOUS
  <2>2. PICK i \in 1..N : differing[i] = c
    BY <1>5
  <2>3. SubSeq(differing, 1, N) \in Seq(D) /\ Len(SubSeq(differing, 1, N)) = N
        /\ SubSeq(differing, 1, N)[i] = c
    <3> HIDE DEF differing, D
    <3>1. QED BY <1>5, <1>7, <2>2
  <2>4. c \in ToSet(SubSeq(differing, 1, N))
    <3> DEFINE q == SubSeq(differing, 1, N)
    <3>1. q \in Seq(D) /\ Len(q) = N /\ q[i] = c
      BY <2>3
    <3> HIDE DEF q, D, differing
    <3>2. i \in DOMAIN q
      BY <3>1, <1>7, <2>2
    <3>3. c \in ToSet(q)
      BY <3>1, <3>2 DEF ToSet
    <3>4. QED BY <3>3 DEF q
  <2>5. c \in DOMAIN kept /\ N \in 0..N
    BY <1>7
  <2> DEFINE q == ToSet(SubSeq(differing, 1, N))
  <2>6. retyped[N] = [d \in DOMAIN kept |-> IF d \in q THEN m.columns[d] ELSE kept[d]]
    <3> HIDE DEF kept, differing
    <3>1. QED BY <2>5
  <2> HIDE DEF retyped, kept, q, D
  <2>7. c \in q
    BY <2>4 DEF q
  <2>8. QED BY <2>5, <2>6, <2>7
<1>11. \A c \in DOMAIN kept \ D : retyped[N][c] = kept[c] \/ retyped[N][c] = m.columns[c]
  <2>5. N \in 0..N
    BY <1>7
  <2> DEFINE q == ToSet(SubSeq(differing, 1, N))
  <2>6. retyped[N] = [d \in DOMAIN kept |-> IF d \in q THEN m.columns[d] ELSE kept[d]]
    <3> HIDE DEF kept, differing
    <3>1. QED BY <2>5
  <2> HIDE DEF retyped, kept, q, D
  <2>7. QED BY <2>6
<1> HIDE DEF differing
<1>12. \A c \in DOMAIN kept \ m.nullable : retyped[N][c] = m.columns[c]
  <2> HIDE DEF retyped, N, D, kept
  <2>1. QED BY <1>8, <1>10, <1>11
<1>13. DOMAIN final = DOMAIN m.columns /\ IsColumns(final) /\ Fits(final, m)
  <2> DEFINE r == retyped[N]
  <2>1. IsColumns(r) /\ DOMAIN r = DOMAIN kept
    <3>1. N \in 0..N
      BY <1>7
    <3> HIDE DEF retyped, kept, N
    <3>2. QED BY <3>1, <1>9
  <2>2. final = [c \in DOMAIN m.columns |-> IF c \in DOMAIN kept THEN r[c] ELSE m.columns[c]]
    OBVIOUS
  <2>3. \A c \in DOMAIN kept \ m.nullable : r[c] = m.columns[c]
    BY <1>12
  <2> HIDE DEF r, final, retyped, kept
  <2>4. IsColumns(final)
    BY <1>2, <2>1, <2>2 DEF IsColumns
  <2>5. QED BY <2>2, <2>3, <2>4 DEF Fits
<1> HIDE DEF retyped, final, D
<1>14. A \in Seq(ColumnSets) /\ B \in Seq(ColumnSets) /\ C \in Seq(ColumnSets)
  <2>1. kept \in ColumnSets /\ final \in ColumnSets
    BY <1>6, <1>13, ColumnsInSet
  <2>2. \A n \in 1..N : retyped[n] \in ColumnSets
    <3>1. \A n \in 1..N : n \in 0..N
      BY <1>7
    <3>2. QED BY <3>1, <1>9, ColumnsInSet
  <2> HIDE DEF kept, N
  <2>3. A \in Seq(ColumnSets) /\ C \in Seq(ColumnSets)
    BY <2>1
  <2>4. B \in Seq(ColumnSets)
    BY <2>2, <1>7 DEF N
  <2>5. QED BY <2>3, <2>4
<1>15. Len(B) = N /\ \A n \in 1..N : B[n] = retyped[n]
  BY <1>7
<1>16. C # <<>> => C[Len(C)] = final
  OBVIOUS
<1>17. A # <<>> => A[Len(A)] = kept
  OBVIOUS
<1>18. C = <<>> => DOMAIN m.columns = DOMAIN kept
  BY <1>13
<1>19. C = <<>> /\ B # <<>> => Fits(B[Len(B)], m)
  <2>1. SUFFICES ASSUME C = <<>>, B # <<>>
                 PROVE  Fits(B[Len(B)], m)
    OBVIOUS
  <2>2. N # 0
    BY <2>1, <1>14, <1>15
  <2>3. B[Len(B)] = retyped[N] /\ DOMAIN retyped[N] = DOMAIN m.columns
    <3>1. N \in 0..N /\ N \in 1..N
      BY <2>2, <1>7
    <3> HIDE DEF retyped, kept, N, B, C
    <3>2. QED BY <3>1, <2>1, <1>9, <1>15, <1>18
  <2> HIDE DEF N, kept
  <2>4. QED BY <2>1, <2>3, <1>12, <1>18 DEF Fits
<1>20. C = <<>> /\ B = <<>> => Fits(kept, m)
  <2>1. SUFFICES ASSUME C = <<>>, B = <<>>
                 PROVE  Fits(kept, m)
    OBVIOUS
  <2>2. N = 0
    BY <2>1, <1>14, <1>15
  <2>3. D = {}
    BY <2>2, <1>5
  <2> HIDE DEF kept, N
  <2>4. QED BY <2>1, <2>3, <1>8, <1>18 DEF Fits
<1>21. A = <<>> => kept = old
  OBVIOUS
<1> HIDE DEF A, B, C, kept, N
<1>22. A \o B \in Seq(ColumnSets) /\ (B # <<>> => A \o B # <<>> /\ (A \o B)[Len(A \o B)] = B[Len(B)])
       /\ (B = <<>> => A \o B = A)
  BY <1>14, LastOfConcatenation
<1> DEFINE AB == A \o B
           all == AB \o C
<1>23. all \in Seq(ColumnSets) /\ (C # <<>> => all # <<>> /\ all[Len(all)] = C[Len(C)])
       /\ (C = <<>> => all = AB)
  <2>1. AB \in Seq(ColumnSets) /\ C \in Seq(ColumnSets)
    BY <1>14, <1>22
  <2> HIDE DEF AB
  <2>2. QED BY <2>1, LastOfConcatenation
<1>24. all = AlterCommands(old, m)
  BY <1>1
<1> HIDE DEF all
<1>25. CASE C # <<>>
  BY <1>25, <1>23, <1>24, <1>16, <1>13
<1>26. CASE C = <<>> /\ B # <<>>
  <2>1. all # <<>> /\ all[Len(all)] = B[Len(B)]
    BY <1>26, <1>22, <1>23
  <2>2. QED BY <1>26, <2>1, <1>19, <1>23, <1>24
<1>27. CASE C = <<>> /\ B = <<>>
  <2>1. all = A
    BY <1>27, <1>22, <1>23
  <2>2. QED BY <1>27, <2>1, <1>20, <1>17, <1>21, <1>23, <1>24
<1>28. QED BY <1>25, <1>26, <1>27

-----------------------------------------------------------------------------
(***************************************************************************)
(* What the actions make of the stack.                                     *)
(***************************************************************************)
Frames == Seq(FrameSet)

\* The frame of an object that canExecuteSchema lets in.
NewFrame(f, o, drop, seen) ==
  /\ f \in FrameSet
  /\ f.obj = o /\ f.stage = "visit" /\ f.ddl = <<>>
  /\ o \notin isCreated /\ (drop => seen)
  /\ f.action = (IF drop THEN "drop" ELSE IF seen THEN "alter" ELSE "create")
  /\ f.visit = (IF drop THEN Dependents(o) ELSE IF seen THEN {} ELSE Dependencies(o))

\* The database's answer was right, or an error was taken for a "no".
Answer(o, seen) ==
  \/ seen = Exists(o) /\ UNCHANGED <<unseen, faults>>
  \/ ~seen /\ Exists(o) /\ unseen' = TRUE /\ Strike("check")

Entering(o, drop, below) ==
  \E seen \in BOOLEAN :
     /\ Answer(o, seen)
     /\ \/ stack' = below /\ (o \in isCreated \/ (drop /\ ~seen))
        \/ \E f \in FrameSet : NewFrame(f, o, drop, seen) /\ Pushed(FrameSet, stack', f, below)

LEMMA VisitsAreObjects ==
  ASSUME InstanceInvariant, NEW o \in All
  PROVE  Dependents(o) \subseteq Objects /\ Dependencies(o) \subseteq All
BY DEF InstanceInvariant, Dependents, Dependencies, All, Internal

LEMMA FrameIsNew ==
  ASSUME InstanceInvariant, NEW o \in All, NEW drop \in BOOLEAN, NEW seen \in BOOLEAN
  PROVE  \/ Entered(o, drop, seen) = <<>> /\ (o \in isCreated \/ (drop /\ ~seen))
         \/ \E f \in FrameSet : NewFrame(f, o, drop, seen) /\ Entered(o, drop, seen) = <<f>>
<1>1. CASE o \in isCreated \/ (drop /\ ~seen)
  BY <1>1 DEF Entered
<1>2. CASE o \notin isCreated /\ (drop => seen)
  <2> DEFINE a == IF drop THEN "drop" ELSE IF seen THEN "alter" ELSE "create"
             v == IF drop THEN Dependents(o) ELSE IF seen THEN {} ELSE Dependencies(o)
             f == [obj |-> o, action |-> a, visit |-> v, ddl |-> <<>>, stage |-> "visit"]
  <2>0. o \notin isCreated /\ (drop => seen)
    BY <1>2
  <2>1. Entered(o, drop, seen) = <<f>>
    <3>1. CASE drop
      <4>1. Entered(o, drop, seen) = Frame("drop", o, Dependents(o))
        BY <2>0, <3>1, Zenon DEF Entered
      <4>2. a = "drop" /\ v = Dependents(o)
        BY <3>1
      <4> HIDE DEF a, v
      <4>3. QED BY <4>1, <4>2 DEF Frame
    <3>2. CASE ~drop /\ seen
      <4>1. Entered(o, drop, seen) = Frame("alter", o, {})
        BY <2>0, <3>2, Zenon DEF Entered
      <4>2. a = "alter" /\ v = {}
        BY <3>2
      <4> HIDE DEF a, v
      <4>3. QED BY <4>1, <4>2 DEF Frame
    <3>3. CASE ~drop /\ ~seen
      BY <1>2, <3>3 DEF Entered, Frame
    <3>4. QED BY <3>1, <3>2, <3>3
  <2>2. v \in SUBSET All
    BY VisitsAreObjects DEF All
  <2>3. f \in FrameSet
    <3>1. a \in {"create", "alter", "drop"}
      OBVIOUS
    <3> HIDE DEF a, v
    <3>2. QED BY <2>2, <3>1 DEF FrameSet
  <2>4. NewFrame(f, o, drop, seen)
    <3>1. f.action = a /\ f.visit = v /\ f.obj = o /\ f.stage = "visit" /\ f.ddl = <<>>
      OBVIOUS
    <3> HIDE DEF f
    <3>2. QED BY <2>0, <2>3, <3>1 DEF NewFrame
  <2>5. QED BY <2>1, <2>3, <2>4
<1>3. (o \in isCreated \/ (drop /\ ~seen)) \/ (o \notin isCreated /\ (drop => seen))
  OBVIOUS
<1>4. QED BY <1>1, <1>2, <1>3

LEMMA EnterEffect ==
  ASSUME InstanceInvariant, NEW o \in All, NEW drop \in BOOLEAN, NEW below \in Frames,
         Enter(o, drop, below)
  PROVE  Entering(o, drop, below)
<1>1. \E seen \in BOOLEAN : Answer(o, seen) /\ stack' = Entered(o, drop, seen) \o below
  <2>1. CASE /\ stack' = Entered(o, drop, Exists(o)) \o below
             /\ UNCHANGED <<unseen, faults>>
    <3>1. Exists(o) \in BOOLEAN
      BY DEF Exists
    <3>2. Answer(o, Exists(o))
      BY <2>1 DEF Answer
    <3>3. QED BY <2>1, <3>1, <3>2
  <2>2. CASE /\ o \notin isCreated /\ Exists(o) /\ Strike("check")
             /\ stack' = Entered(o, drop, FALSE) \o below
             /\ unseen' = TRUE
    <3>1. Answer(o, FALSE)
      BY <2>2 DEF Answer
    <3>2. QED BY <2>2, <3>1
  <2>3. QED BY <2>1, <2>2 DEF Enter
<1>2. PICK seen \in BOOLEAN : Answer(o, seen) /\ stack' = Entered(o, drop, seen) \o below
  BY <1>1
<1>3. CASE Entered(o, drop, seen) = <<>> /\ (o \in isCreated \/ (drop /\ ~seen))
  <2>1. stack' = below
    BY <1>2, <1>3 DEF Frames
  <2>2. QED BY <1>2, <1>3, <2>1 DEF Entering
<1>4. CASE \E f \in FrameSet : NewFrame(f, o, drop, seen) /\ Entered(o, drop, seen) = <<f>>
  <2>1. PICK f \in FrameSet : NewFrame(f, o, drop, seen) /\ Entered(o, drop, seen) = <<f>>
    BY <1>4
  <2>2. Pushed(FrameSet, <<f>> \o below, f, below)
    BY Pushing DEF Frames
  <2>3. QED BY <1>2, <2>1, <2>2 DEF Entering
<1>5. QED BY <1>3, <1>4, FrameIsNew

\* Facts about the innermost object.
LEMMA TopFrame ==
  ASSUME StackInvariant, stack # <<>>
  PROVE  /\ stack \in Frames /\ Len(stack) \in Nat \ {0} /\ 1 \in DOMAIN stack
         /\ DOMAIN stack = 1..Len(stack)
         /\ Top = stack[1] /\ Top \in FrameSet /\ Top.obj \in All /\ Top.visit \subseteq All
         /\ Top.ddl \in Seq(ColumnSets)
         /\ Top.action \in {"create", "alter", "drop"}
         /\ Top.stage \in {"visit", "run", "committed"}
<1>1. stack \in Frames /\ Len(stack) \in Nat \ {0} /\ 1 \in DOMAIN stack
  BY DEF StackInvariant, Frames
<1>2. Top \in FrameSet /\ DOMAIN stack = 1..Len(stack)
  BY <1>1 DEF Top, Frames
<1>3. QED BY <1>1, <1>2 DEF FrameSet, Top

LEMMA HeadTask ==
  ASSUME StackInvariant, agenda # <<>>
  PROVE  /\ agenda \in Seq(TaskSet) /\ Len(agenda) \in Nat \ {0} /\ 1 \in DOMAIN agenda
         /\ DOMAIN agenda = 1..Len(agenda)
         /\ agenda[1] \in TaskSet /\ agenda[1].obj \in All
         /\ Popped(TaskSet, Tail(agenda), agenda)
<1>1. agenda \in Seq(TaskSet) /\ Len(agenda) \in Nat \ {0} /\ 1 \in DOMAIN agenda
  BY DEF StackInvariant
<1>2. agenda[1] \in TaskSet /\ DOMAIN agenda = 1..Len(agenda)
  BY <1>1
<1>3. QED BY <1>1, <1>2, Popping DEF TaskSet

\* The list's next object (Schema.Execute, Drop).
NextEffect ==
  /\ stack = <<>> /\ agenda # <<>> /\ agenda[1].do \in {"execute", "drop"}
  /\ agenda' = Tail(agenda) /\ Popped(TaskSet, agenda', agenda)
  /\ agenda[1].obj \in All
  /\ Entering(agenda[1].obj, agenda[1].do = "drop", <<>>)
  /\ UNCHANGED <<database, work, instance, call, calls>>

LEMMA NextObjectEffect ==
  ASSUME InstanceInvariant, StackInvariant, NextObject
  PROVE  NextEffect
<1>1. /\ stack = <<>> /\ agenda # <<>> /\ agenda[1].do \in {"execute", "drop"}
      /\ Enter(agenda[1].obj, agenda[1].do = "drop", <<>>)
      /\ agenda' = Tail(agenda)
      /\ UNCHANGED <<database, work, instance, call, calls>>
  BY DEF NextObject, Turn
<1>2. agenda[1].obj \in All /\ Popped(TaskSet, agenda', agenda)
  BY <1>1, HeadTask
<1>3. (agenda[1].do = "drop") \in BOOLEAN /\ <<>> \in Frames
  BY DEF Frames
<1>4. Entering(agenda[1].obj, agenda[1].do = "drop", <<>>)
  BY <1>1, <1>2, <1>3, EnterEffect
<1>5. QED BY <1>1, <1>2, <1>4 DEF NextEffect

\* The frame below, with one visit less, and perhaps a new one.
VisitEffect(o, f, below) ==
  /\ stack # <<>> /\ Top.stage = "visit" /\ o \in Top.visit /\ o \in All
  /\ f \in FrameSet /\ f = [Top EXCEPT !.visit = @ \ {o}]
  /\ below \in Frames /\ Replaced(FrameSet, below, f, stack)
  /\ Entering(o, Top.action = "drop", below)
  /\ UNCHANGED <<database, work, instance, call, calls, agenda>>

LEMMA VisitDependencyEffect ==
  ASSUME InstanceInvariant, StackInvariant, VisitDependency
  PROVE  \E o \in All, f \in FrameSet, below \in Frames : VisitEffect(o, f, below)
<1>1. /\ stack # <<>> /\ Top.stage = "visit"
      /\ UNCHANGED <<database, work, instance, call, calls, agenda>>
  BY DEF VisitDependency, Stage
<1>2. PICK o \in Top.visit :
        Enter(o, Top.action = "drop", [stack EXCEPT ![1].visit = @ \ {o}])
  BY DEF VisitDependency
<1>3. stack \in Frames /\ Top = stack[1] /\ Top \in FrameSet /\ Top.visit \subseteq All
  BY <1>1, TopFrame
<1> DEFINE f == [Top EXCEPT !.visit = @ \ {o}]
           below == [stack EXCEPT ![1] = f]
<1>4. [stack EXCEPT ![1].visit = @ \ {o}] = below
  BY <1>3
<1>5. f \in FrameSet
  BY <1>3 DEF FrameSet
<1>6. f = [Top EXCEPT !.visit = @ \ {o}]
  OBVIOUS
<1> HIDE DEF f
<1>7. Replaced(FrameSet, below, f, stack)
  BY <1>1, <1>3, <1>5, Replacing DEF Frames
<1>8. below \in Frames
  BY <1>7 DEF Replaced, Frames
<1> HIDE DEF below
<1>9. (Top.action = "drop") \in BOOLEAN /\ o \in All
  BY <1>2, <1>3
<1>10. Enter(o, Top.action = "drop", below)
  BY <1>2, <1>4
<1>11. Entering(o, Top.action = "drop", below)
  BY <1>8, <1>9, <1>10, EnterEffect
<1>12. VisitEffect(o, f, below)
  BY <1>1, <1>2, <1>5, <1>6, <1>7, <1>8, <1>9, <1>11 DEF VisitEffect
<1>13. QED BY <1>5, <1>8, <1>9, <1>12

\* The visits are over: the transaction begins, or an ALTER has nothing to do.
BeginEffect(f) ==
  /\ stack # <<>> /\ Top.stage = "visit" /\ Top.visit = {} /\ work' = tables
  /\ \/ /\ Top.action = "alter" /\ Popped(FrameSet, stack', stack)
        /\ AlterCommands(tables[Top.obj].columns, Wanted(Top.obj)) = <<>>
     \/ /\ f \in FrameSet /\ f.obj = Top.obj /\ f.action = Top.action /\ f.visit = {}
        /\ f.stage = "run" /\ f.ddl # <<>>
        /\ f.ddl = (IF Top.action = "alter"
                    THEN AlterCommands(tables[Top.obj].columns, Wanted(Top.obj))
                    ELSE << Wanted(Top.obj).columns >>)
        /\ Replaced(FrameSet, stack', f, stack)
  /\ UNCHANGED <<database, instance, call, calls, agenda, unseen, faults>>

LEMMA BeginsOrLeaves ==
  ASSUME InstanceInvariant, StackInvariant, WorkInvariant, Begin
  PROVE  \E f : BeginEffect(f)
<1> DEFINE o == Top.obj
           ddl == IF Top.action = "alter" THEN AlterCommands(tables[o].columns, Wanted(o))
                  ELSE << Wanted(o).columns >>
<1>1. /\ stack # <<>> /\ Top.stage = "visit" /\ Top.visit = {} /\ work' = tables
      /\ UNCHANGED <<database, instance, call, calls, agenda, unseen, faults>>
      /\ stack' = IF ddl = <<>> THEN Tail(stack)
                  ELSE [stack EXCEPT ![1].stage = "run", ![1].ddl = ddl]
  BY DEF Begin, Stage
<1>2. /\ stack \in Frames /\ Top = stack[1] /\ Top \in FrameSet /\ o \in All
      /\ 1 \in DOMAIN stack
  BY <1>1, TopFrame
<1>3. Wanted(o).columns \in ColumnSets /\ IsFiniteSet(DOMAIN Wanted(o).columns)
  BY <1>2, WantedColumns DEF InstanceInvariant
<1>4. ddl \in Seq(ColumnSets)
  <2>1. CASE Top.action = "alter"
    <3>1. o \in DOMAIN tables
      BY <1>2, <2>1 DEF StackInvariant, FrameInvariant, Active, Exists
    <3>2. tables[o] \in TableSet
      BY <3>1 DEF WorkInvariant, Database
    <3>3. tables[o].columns \in ColumnSets
      BY <3>2 DEF TableSet
    <3> DEFINE m == Wanted(o)
               old == tables[o].columns
    <3> HIDE DEF m, old
    <3>4. m.columns \in ColumnSets /\ IsFiniteSet(DOMAIN m.columns) /\ old \in ColumnSets
      BY <1>3, <3>3 DEF m, old
    <3>5. AlterCommands(old, m) \in Seq(ColumnSets)
      BY <3>4, AlterLeadsToTheModel
    <3>6. QED BY <2>1, <3>5 DEF m, old
  <2>2. CASE Top.action # "alter"
    BY <1>3, <2>2
  <2>3. QED BY <2>1, <2>2
<1>5. CASE ddl = <<>>
  <2>1. Top.action = "alter"
    BY <1>5
  <2>2. Popped(FrameSet, Tail(stack), stack)
    BY <1>1, <1>2, Popping DEF Frames
  <2>3. BeginEffect(Top)
    BY <1>1, <1>5, <2>1, <2>2 DEF BeginEffect
  <2>4. QED BY <2>3
<1>6. CASE ddl # <<>>
  <2> DEFINE f == [Top EXCEPT !.stage = "run", !.ddl = ddl]
  <2>1. f \in FrameSet /\ f.obj = Top.obj /\ f.action = Top.action /\ f.visit = Top.visit
        /\ f.stage = "run" /\ f.ddl = ddl
    <3> HIDE DEF ddl
    <3>1. QED BY <1>2, <1>4 DEF FrameSet
  <2>2. stack' = [stack EXCEPT ![1] = f]
    <3> HIDE DEF ddl
    <3>1. QED BY <1>1, <1>2, <1>6
  <2> HIDE DEF f
  <2>3. Replaced(FrameSet, stack', f, stack)
    <3>1. Replaced(FrameSet, [stack EXCEPT ![1] = f], f, stack)
      BY <1>1, <1>2, <2>1, Replacing DEF Frames
    <3>2. QED BY <3>1, <2>2, Zenon
  <2>4. BeginEffect(f)
    BY <1>1, <1>6, <2>1, <2>3 DEF BeginEffect
  <2>5. QED BY <2>4
<1>7. QED BY <1>5, <1>6

\* A command of the transaction, and its commit.
StageEffect(f, stage, ddl) ==
  /\ stack # <<>> /\ Top.stage = "run"
  /\ f \in FrameSet /\ f.obj = Top.obj /\ f.action = Top.action /\ f.visit = Top.visit
  /\ f.stage = stage /\ f.ddl = ddl
  /\ Replaced(FrameSet, stack', f, stack)

LEMMA RunCommandEffect ==
  ASSUME StackInvariant, RunCommand
  PROVE  \E f : StageEffect(f, "run", Tail(Top.ddl))
<1>1. /\ stack # <<>> /\ Top.stage = "run" /\ Top.ddl # <<>>
      /\ stack' = [stack EXCEPT ![1].ddl = Tail(@)]
  BY DEF RunCommand, Stage
<1>2. stack \in Frames /\ Top = stack[1] /\ Top \in FrameSet /\ 1 \in DOMAIN stack
      /\ Top.ddl \in Seq(ColumnSets)
  BY <1>1, TopFrame
<1> DEFINE f == [Top EXCEPT !.ddl = Tail(@)]
<1>3. Tail(Top.ddl) \in Seq(ColumnSets)
  BY <1>1, <1>2
<1>4. f \in FrameSet /\ f.obj = Top.obj /\ f.action = Top.action /\ f.visit = Top.visit
      /\ f.stage = "run" /\ f.ddl = Tail(Top.ddl)
  BY <1>1, <1>2, <1>3 DEF FrameSet
<1>5. stack' = [stack EXCEPT ![1] = f]
  BY <1>1, <1>2
<1> HIDE DEF f
<1>6. Replaced(FrameSet, stack', f, stack)
  <2>1. Replaced(FrameSet, [stack EXCEPT ![1] = f], f, stack)
    BY <1>1, <1>2, <1>4, Replacing DEF Frames
  <2>2. QED BY <2>1, <1>5, Zenon
<1>7. StageEffect(f, "run", Tail(Top.ddl))
  BY <1>1, <1>4, <1>6 DEF StageEffect
<1>8. QED BY <1>7

LEMMA CommitEffect ==
  ASSUME StackInvariant, Commit
  PROVE  \E f : StageEffect(f, "committed", <<>>)
<1>1. /\ stack # <<>> /\ Top.stage = "run" /\ Top.ddl = <<>>
      /\ stack' = [stack EXCEPT ![1].stage = "committed"]
  BY DEF Commit, Stage
<1>2. stack \in Frames /\ Top = stack[1] /\ Top \in FrameSet /\ 1 \in DOMAIN stack
  BY <1>1, TopFrame
<1> DEFINE f == [Top EXCEPT !.stage = "committed"]
<1>3. f \in FrameSet /\ f.obj = Top.obj /\ f.action = Top.action /\ f.visit = Top.visit
      /\ f.stage = "committed" /\ f.ddl = <<>>
  BY <1>1, <1>2 DEF FrameSet
<1>4. stack' = [stack EXCEPT ![1] = f]
  BY <1>1, <1>2
<1> HIDE DEF f
<1>5. Replaced(FrameSet, stack', f, stack)
  <2>1. Replaced(FrameSet, [stack EXCEPT ![1] = f], f, stack)
    BY <1>1, <1>2, <1>3, Replacing DEF Frames
  <2>2. QED BY <2>1, <1>4, Zenon
<1>6. StageEffect(f, "committed", <<>>)
  BY <1>1, <1>3, <1>5 DEF StageEffect
<1>7. QED BY <1>6

\* The object is done.
LeaveEffect(action) ==
  /\ stack # <<>> /\ Top.stage = "committed" /\ Top.action = action
  /\ Popped(FrameSet, stack', stack)

LEMMA LeavingEffect ==
  ASSUME StackInvariant, NEW action, Stage("committed"), Top.action = action, Leave
  PROVE  LeaveEffect(action)
<1>1. stack # <<>> /\ stack \in Frames
  BY TopFrame DEF Stage
<1>2. Popped(FrameSet, stack', stack)
  BY <1>1, Popping DEF Leave, Frames
<1>3. QED BY <1>1, <1>2 DEF LeaveEffect, Stage

-----------------------------------------------------------------------------
(***************************************************************************)
(* The stack and the agenda keep their shape.                              *)
(***************************************************************************)
ObjectsApart == \A o : o \in Objects => o \notin Internal

LEMMA Apart == ObjectsApart
BY SchemaAssumption DEF ObjectsApart

LEMMA WaitingIsActive ==
  ASSUME NEW f, Waiting(f)
  PROVE  Active(f) /\ Active(f)'
BY Apart DEF Waiting, Active, ObjectsApart

\* The frames of the new stack, given as a value.
LEMMA FramesOf ==
  ASSUME NEW s, stack' = s,
         \A i \in DOMAIN s : OfCall(s[i])' /\ IF i = 1 THEN Active(s[i])' ELSE Waiting(s[i])
  PROVE  FrameInvariant'
<1>1. \A i \in DOMAIN s : OfCall(s[i])' /\ IF i = 1 THEN Active(s[i])' ELSE Waiting(s[i])'
  BY DEF Waiting
<1>2. QED BY <1>1 DEF FrameInvariant

LEMMA PushedFrames ==
  ASSUME UNCHANGED <<call, tables>>, NEW below \in Frames,
         \A i \in 1..Len(below) : Waiting(below[i]) /\ OfCall(below[i]),
         NEW f \in FrameSet, Active(f), OfCall(f), Pushed(FrameSet, stack', f, below)
  PROVE  stack' \in Frames /\ FrameInvariant'
<1>0. PICK s : s = stack'
  OBVIOUS
<1>1. s \in Frames /\ Len(s) = Len(below) + 1 /\ Len(below) \in Nat
      /\ s[1] = f /\ DOMAIN s = 1..Len(s)
  BY <1>0 DEF Pushed, Frames
<1>2. OfCall(f)' /\ Active(f)'
  BY DEF OfCall, Active, Exists
<1>3. ASSUME NEW i \in DOMAIN s, i # 1
      PROVE  OfCall(s[i])' /\ Waiting(s[i])
  <2>1. i \in 2..Len(s) /\ i - 1 \in 1..Len(below)
    BY <1>1, <1>3
  <2>2. s[i] = below[i - 1]
    BY <1>0, <2>1 DEF Pushed
  <2>3. Waiting(below[i - 1]) /\ OfCall(below[i - 1])
    BY <2>1
  <2>4. QED BY <2>2, <2>3 DEF OfCall
<1>4. \A i \in DOMAIN s :
        OfCall(s[i])' /\ IF i = 1 THEN Active(s[i])' ELSE Waiting(s[i])
  BY <1>1, <1>2, <1>3
<1>5. FrameInvariant'
  BY <1>0, <1>4, FramesOf
<1>6. QED BY <1>0, <1>1, <1>5

LEMMA ReplacedFrames ==
  ASSUME UNCHANGED call, stack \in Frames, stack # <<>>, FrameInvariant,
         NEW f \in FrameSet, Active(f)', OfCall(f), Replaced(FrameSet, stack', f, stack)
  PROVE  stack' \in Frames /\ FrameInvariant'
<1>0. PICK s : s = stack'
  OBVIOUS
<1>1. s \in Frames /\ Len(s) = Len(stack) /\ Len(stack) \in Nat
      /\ s[1] = f /\ DOMAIN s = 1..Len(s) /\ DOMAIN stack = DOMAIN s
  BY <1>0 DEF Replaced, Frames
<1>2. OfCall(f)'
  BY DEF OfCall
<1>3. ASSUME NEW i \in DOMAIN s, i # 1
      PROVE  OfCall(s[i])' /\ Waiting(s[i])
  <2>1. i \in 2..Len(stack)
    BY <1>1, <1>3
  <2>2. s[i] = stack[i]
    BY <1>0, <2>1 DEF Replaced
  <2>3. Waiting(stack[i]) /\ OfCall(stack[i])
    BY <1>1, <1>3 DEF FrameInvariant
  <2>4. QED BY <2>2, <2>3 DEF OfCall
<1>4. \A i \in DOMAIN s :
        OfCall(s[i])' /\ IF i = 1 THEN Active(s[i])' ELSE Waiting(s[i])
  BY <1>1, <1>2, <1>3
<1>5. FrameInvariant'
  BY <1>0, <1>4, FramesOf
<1>6. QED BY <1>0, <1>1, <1>5

LEMMA PoppedFrames ==
  ASSUME UNCHANGED call, stack \in Frames, stack # <<>>, FrameInvariant,
         Popped(FrameSet, stack', stack)
  PROVE  stack' \in Frames /\ FrameInvariant'
<1>0. PICK s : s = stack'
  OBVIOUS
<1>1. s \in Frames /\ Len(s) = Len(stack) - 1 /\ Len(stack) \in Nat
      /\ DOMAIN s = 1..Len(s) /\ DOMAIN stack = 1..Len(stack)
  BY <1>0 DEF Popped, Frames
<1>2. ASSUME NEW i \in DOMAIN s
      PROVE  OfCall(s[i])' /\ Waiting(s[i])
  <2>1. i \in 1..Len(s) /\ i + 1 \in DOMAIN stack /\ i + 1 # 1
    BY <1>1, <1>2
  <2>2. s[i] = stack[i + 1]
    BY <1>0, <2>1 DEF Popped
  <2>3. Waiting(stack[i + 1]) /\ OfCall(stack[i + 1])
    BY <2>1 DEF FrameInvariant
  <2>4. QED BY <2>2, <2>3 DEF OfCall
<1>3. \A i \in DOMAIN s : Active(s[i])'
  <2>1. SUFFICES ASSUME NEW i \in DOMAIN s
                 PROVE  Active(s[i])'
    OBVIOUS
  <2> DEFINE f == s[i]
  <2>2. Waiting(f)
    BY <1>2
  <2>3. f.action # "alter" /\ f.stage = "visit" /\ f.obj \notin Internal
    BY <2>2, Apart DEF Waiting, ObjectsApart
  <2> HIDE DEF f
  <2>4. Active(f)'
    BY <2>3 DEF Active, f
  <2>5. QED BY <2>4 DEF f
<1>4. \A i \in DOMAIN s :
        OfCall(s[i])' /\ IF i = 1 THEN Active(s[i])' ELSE Waiting(s[i])
  BY <1>2, <1>3
<1>5. FrameInvariant'
  BY <1>0, <1>4, FramesOf
<1>6. QED BY <1>0, <1>1, <1>5

LEMMA NoFrames ==
  ASSUME stack' = <<>>
  PROVE  stack' \in Frames /\ FrameInvariant'
<1>1. stack' \in Frames /\ DOMAIN stack' = {}
  BY DEF Frames
<1>2. QED BY <1>1 DEF FrameInvariant

LEMMA SameFrames ==
  ASSUME StackInvariant, UNCHANGED <<stack, call, tables>>
  PROVE  stack' \in Frames /\ FrameInvariant'
BY DEF StackInvariant, Frames, FrameInvariant, OfCall, Active, Waiting, Exists

\* A task of the agenda is done.
LEMMA PoppedAgenda ==
  ASSUME StackInvariant, agenda # <<>>, Popped(TaskSet, agenda', agenda), UNCHANGED call,
         call = "drop" /\ agenda[1].do = "clearCache" => stack' = <<>>
  PROVE  agenda' \in Seq(TaskSet) /\ AgendaInvariant'
<1>1. /\ agenda' \in Seq(TaskSet) /\ Len(agenda') = Len(agenda) - 1 /\ Len(agenda) \in Nat \ {0}
      /\ DOMAIN agenda = 1..Len(agenda) /\ DOMAIN agenda' = 1..Len(agenda')
      /\ \A i \in 1..Len(agenda') : agenda'[i] = agenda[i + 1]
  BY DEF Popped, StackInvariant
<1>2. call # "none"
  BY DEF StackInvariant, AgendaInvariant
<1>3. \A i \in DOMAIN agenda' : i + 1 \in DOMAIN agenda /\ agenda'[i] = agenda[i + 1]
                                /\ (i = Len(agenda') <=> i + 1 = Len(agenda))
  BY <1>1
<1>4. CASE call = "execute"
  BY <1>1, <1>2, <1>3, <1>4 DEF StackInvariant, AgendaInvariant
<1>5. CASE call = "drop"
  <2>1. \A i \in DOMAIN agenda' :
             IF i = Len(agenda') THEN agenda'[i].do = "clearCache"
             ELSE agenda'[i].do = "drop" /\ agenda'[i].obj \in Objects
    BY <1>3, <1>5 DEF StackInvariant, AgendaInvariant
  <2>2. agenda' = <<>> => stack' = <<>>
    <3>1. SUFFICES ASSUME agenda' = <<>>
                   PROVE  stack' = <<>>
      OBVIOUS
    <3>2. Len(agenda) = 1 /\ 1 \in DOMAIN agenda
      BY <1>1, <3>1
    <3>3. agenda[1].do = "clearCache"
      BY <1>5, <3>2 DEF StackInvariant, AgendaInvariant
    <3>4. QED BY <1>5, <3>3
  <2>3. QED BY <1>1, <1>2, <1>5, <2>1, <2>2 DEF AgendaInvariant
<1>6. CASE call \notin {"none", "execute", "drop"}
  BY <1>1, <1>6 DEF AgendaInvariant
<1>7. QED BY <1>2, <1>4, <1>5, <1>6

\* In a Drop there is the agenda's last task as long as an object is executing.
LEMMA SameAgenda ==
  ASSUME StackInvariant, UNCHANGED <<agenda, call>>, stack' = <<>> \/ stack # <<>>
  PROVE  agenda' \in Seq(TaskSet) /\ AgendaInvariant'
BY DEF StackInvariant, AgendaInvariant

\* The new frame is of this call.
LEMMA NewFrameFits ==
  ASSUME InstanceInvariant, NEW o \in All, NEW drop \in BOOLEAN, NEW seen \in BOOLEAN,
         NEW f \in FrameSet, NewFrame(f, o, drop, seen), seen => Exists(o),
         call = "execute" => ~drop, call = "drop" => drop /\ o \in Objects
  PROVE  Active(f) /\ OfCall(f)
<1>1. CASE drop
  <2>1. f.action = "drop" /\ f.visit = Dependents(o) /\ f.obj = o /\ f.stage = "visit"
    BY <1>1 DEF NewFrame
  <2>2. Dependents(o) \subseteq Objects /\ (o \in Internal => Dependents(o) = {})
    <3>1. \A p \in Objects : declared[p] \subseteq Objects
      BY DEF InstanceInvariant
    <3>2. QED BY <3>1, Apart DEF Dependents, ObjectsApart
  <2>3. Active(f)
    BY <2>1, <2>2 DEF Active
  <2>4. OfCall(f)
    BY <1>1, <2>1, <2>2 DEF OfCall
  <2>5. QED BY <2>3, <2>4
<1>2. CASE ~drop /\ seen
  <2>1. f.action = "alter" /\ f.visit = {} /\ f.obj = o /\ f.stage = "visit"
    BY <1>2 DEF NewFrame
  <2>2. QED BY <1>2, <2>1 DEF Active, OfCall
<1>3. CASE ~drop /\ ~seen
  <2>1. f.action = "create" /\ f.visit = Dependencies(o) /\ f.obj = o /\ f.stage = "visit"
    BY <1>3 DEF NewFrame
  <2>2. o \in Internal => Dependencies(o) = {}
    BY Apart DEF Dependencies, ObjectsApart
  <2>3. QED BY <1>3, <2>1, <2>2 DEF Active, OfCall
<1>4. QED BY <1>1, <1>2, <1>3

LEMMA AnswerIsRight ==
  ASSUME NEW o, NEW seen \in BOOLEAN, Answer(o, seen)
  PROVE  seen => Exists(o)
BY DEF Answer, Exists

\* An object enters on top of those that wait.
LEMMA EnteringKeeps ==
  ASSUME InstanceInvariant, NEW o \in All, NEW drop \in BOOLEAN, NEW below \in Frames,
         Entering(o, drop, below), UNCHANGED <<call, tables>>,
         \A i \in 1..Len(below) : Waiting(below[i]) /\ OfCall(below[i]),
         call = "execute" => ~drop, call = "drop" => drop /\ o \in Objects
  PROVE  stack' \in Frames /\ FrameInvariant'
<1>1. PICK seen \in BOOLEAN :
        /\ Answer(o, seen)
        /\ \/ stack' = below
           \/ \E f \in FrameSet : NewFrame(f, o, drop, seen) /\ Pushed(FrameSet, stack', f, below)
  BY DEF Entering
<1>2. CASE stack' = below
  <2>1. DOMAIN below = 1..Len(below)
    BY DEF Frames
  <2>2. \A i \in DOMAIN below : Active(below[i])' /\ OfCall(below[i])'
    <3>1. SUFFICES ASSUME NEW i \in DOMAIN below
                   PROVE  Active(below[i])' /\ OfCall(below[i])'
      OBVIOUS
    <3> DEFINE g == below[i]
    <3>2. Waiting(g) /\ OfCall(g)
      BY <2>1
    <3> HIDE DEF g
    <3>3. Active(g)' /\ OfCall(g)'
      BY <3>2, WaitingIsActive DEF OfCall
    <3>4. QED BY <3>3 DEF g
  <2>3. \A i \in DOMAIN below : Waiting(below[i])
    BY <2>1
  <2>4. QED BY <1>2, <2>2, <2>3 DEF FrameInvariant, Waiting
<1>3. CASE \E f \in FrameSet : NewFrame(f, o, drop, seen) /\ Pushed(FrameSet, stack', f, below)
  <2>1. PICK f \in FrameSet : NewFrame(f, o, drop, seen) /\ Pushed(FrameSet, stack', f, below)
    BY <1>3
  <2>2. seen => Exists(o)
    BY <1>1, AnswerIsRight
  <2>3. Active(f) /\ OfCall(f)
    BY <2>1, <2>2, NewFrameFits
  <2>4. QED BY <2>1, <2>3, PushedFrames
<1>4. QED BY <1>1, <1>2, <1>3

-----------------------------------------------------------------------------
(***************************************************************************)
(* The tables and the open transaction.                                    *)
(***************************************************************************)
Quiet == work' = tables /\ UNCHANGED <<tables, engine>> /\ ~Stage("run")' /\ ~Stage("committed")'

\* No transaction is open after the step, and none has been committed in it.
LEMMA QuietWork ==
  ASSUME WorkInvariant, TablesAreWhole, Quiet
  PROVE  WorkInvariant' /\ TablesAreWhole'
<1>1. Database(tables)' /\ Database(work)'
  BY DEF Quiet, WorkInvariant, Database
<1>2. work' = tables'
  BY DEF Quiet
<1>3. \A o \in Internal \cap DOMAIN tables' : tables'[o].refs \subseteq Internal
  BY DEF Quiet, WorkInvariant
<1>4. WorkInvariant'
  BY <1>1, <1>2, <1>3 DEF WorkInvariant, Quiet
<1>5. TablesAreWhole'
  BY DEF Quiet, TablesAreWhole, Matches, Fits, RefersTo
<1>6. QED BY <1>4, <1>5

LEMMA NotRunning ==
  ASSUME WorkInvariant, ~Stage("run")
  PROVE  work = tables
BY DEF WorkInvariant

\* Nothing executes, or the innermost object still visits.
LEMMA QuietStack ==
  ASSUME stack' = <<>> \/ stack'[1].stage = "visit"
  PROVE  ~Stage("run")' /\ ~Stage("committed")'
BY DEF Stage, Top

LEMMA PoppedStack ==
  ASSUME stack \in Frames, FrameInvariant, stack # <<>>, Popped(FrameSet, stack', stack)
  PROVE  stack' = <<>> \/ stack'[1].stage = "visit"
<1>1. /\ stack' \in Frames /\ Len(stack') = Len(stack) - 1 /\ Len(stack) \in Nat
      /\ \A i \in 1..Len(stack') : stack'[i] = stack[i + 1]
      /\ DOMAIN stack = 1..Len(stack)
  BY DEF Popped, Frames
<1>2. SUFFICES ASSUME stack' # <<>>
               PROVE  stack'[1].stage = "visit"
  OBVIOUS
<1>3. Len(stack') # 0
  BY <1>1, <1>2 DEF Frames
<1>4. 1 \in 1..Len(stack') /\ 2 \in DOMAIN stack /\ 1 + 1 = 2
  BY <1>1, <1>3
<1>5. stack'[1] = stack[2]
  BY <1>1, <1>4
<1>6. stack[2].stage = "visit"
  BY <1>4 DEF FrameInvariant, Waiting
<1>7. QED BY <1>5, <1>6

LEMMA EnteringStack ==
  ASSUME NEW o, NEW drop, NEW below, Entering(o, drop, below),
         below = <<>> \/ below[1].stage = "visit"
  PROVE  stack' = <<>> \/ stack'[1].stage = "visit"
BY DEF Entering, NewFrame, Pushed

\* The innermost frame of a stack whose first frame is replaced.
LEMMA ReplacedTop ==
  ASSUME NEW f, stack \in Frames, stack # <<>>, Replaced(FrameSet, stack', f, stack)
  PROVE  stack' # <<>> /\ Top' = f
<1>1. Len(stack') = Len(stack) /\ Len(stack) \in Nat \ {0} /\ stack'[1] = f
  BY DEF Replaced, Frames
<1>2. stack' # <<>>
  BY <1>1
<1>3. QED BY <1>1, <1>2 DEF Top

LEMMA OwnFits ==
  ASSUME NEW o
  PROVE  Fits(Wanted(o).columns, Wanted(o))
BY DEF Fits

LEMMA BeginKeepsWork ==
  ASSUME IInv, NEW f, BeginEffect(f)
  PROVE  WorkInvariant' /\ TablesAreWhole'
<1> USE DEF IInv
<1>1. /\ stack # <<>> /\ stack \in Frames /\ FrameInvariant /\ Top = stack[1] /\ Top.obj \in All
      /\ Top \in FrameSet /\ 1 \in DOMAIN stack
  BY TopFrame DEF BeginEffect, StackInvariant
<1>2. UNCHANGED <<tables, engine, release>> /\ work' = tables
  BY DEF BeginEffect, database, instance, application
<1>3. CASE Popped(FrameSet, stack', stack)
  BY <1>1, <1>2, <1>3, PoppedStack, QuietStack, QuietWork DEF Quiet
<1>4. CASE Replaced(FrameSet, stack', f, stack) /\ f.stage = "run" /\ f.ddl # <<>>
           /\ f.obj = Top.obj /\ f.action = Top.action
           /\ f.ddl = (IF Top.action = "alter"
                    THEN AlterCommands(tables[Top.obj].columns, Wanted(Top.obj))
                    ELSE << Wanted(Top.obj).columns >>)
  <2>1. stack' # <<>> /\ Top' = f
    BY <1>1, <1>4, ReplacedTop
  <2>2. Stage("run")' /\ ~Stage("committed")'
    BY <1>4, <2>1 DEF Stage
  <2> DEFINE o == Top.obj
  <2>3. Wanted(f.obj)' = Wanted(o)
    BY <1>2, <1>4 DEF Wanted
  <2>4. OthersUntouched'
    BY <1>2, <2>1 DEF OthersUntouched, Alike
  <2>5. f.action # "alter" => f.ddl = << Wanted(o).columns >> /\ Len(f.ddl) = 1
    BY <1>4
  <2>6. f.action = "alter" => o \in DOMAIN tables
    BY <1>1, <1>4 DEF StackInvariant, FrameInvariant, Active, Exists
  <2>7. Fits(f.ddl[Len(f.ddl)], Wanted(o))
    <3>1. CASE f.action # "alter"
      BY <3>1, <2>5, OwnFits
    <3>2. CASE f.action = "alter"
      <4>1. tables[o] \in TableSet
        BY <2>6, <3>2 DEF WorkInvariant, Database
      <4>2. tables[o].columns \in ColumnSets
        BY <4>1 DEF TableSet
      <4>3. Wanted(o).columns \in ColumnSets /\ IsFiniteSet(DOMAIN Wanted(o).columns)
        BY <1>1, WantedColumns DEF InstanceInvariant
      <4> DEFINE m == Wanted(o)
                 old == tables[o].columns
      <4>4. f.ddl = AlterCommands(old, m) /\ f.ddl # <<>>
        BY <1>4, <3>2
      <4>5. m.columns \in ColumnSets /\ IsFiniteSet(DOMAIN m.columns) /\ old \in ColumnSets
        BY <4>2, <4>3
      <4> HIDE DEF m, old
      <4>6. Fits(f.ddl[Len(f.ddl)], m)
        BY <4>4, <4>5, AlterLeadsToTheModel
      <4>7. QED BY <4>6 DEF m
    <3>3. QED BY <3>1, <3>2
  <2>8. TransactionInvariant'
    <3>1. Fits(f.ddl[Len(f.ddl)], Wanted(f.obj)')
      BY <2>3, <2>7
    <3>2. Fits(f.ddl[Len(f.ddl)], Wanted(f.obj))'
      BY <3>1 DEF Fits
    <3>3. f.action # "alter" => Len(f.ddl) = 1 /\ work' = tables'
      BY <1>2, <2>5
    <3>4. f.action = "alter" => f.obj \in DOMAIN work'
      BY <1>2, <1>4, <2>6
    <3>5. f.ddl # <<>>
      BY <1>4
    <3>6. QED BY <2>1, <2>4, <3>2, <3>3, <3>4, <3>5 DEF TransactionInvariant
  <2>9. Database(tables)' /\ Database(work)'
    BY <1>2 DEF WorkInvariant, Database
  <2>10. \A p \in Internal \cap DOMAIN tables' : tables'[p].refs \subseteq Internal
    BY <1>2 DEF WorkInvariant
  <2>11. WorkInvariant'
    BY <2>2, <2>8, <2>9, <2>10 DEF WorkInvariant
  <2>12. TablesAreWhole'
    BY <1>2 DEF TablesAreWhole, Matches, Fits, RefersTo
  <2>13. QED BY <2>11, <2>12
<1>5. QED BY <1>3, <1>4 DEF BeginEffect

\* What a command makes of the table.
LEMMA ChangedTable ==
  ASSUME IInv, Stage("run"), Top.ddl # <<>>, Top.action # "drop", CommandAccepted
  PROVE  LET o == Top.obj
         IN  /\ Changed(o) \in TableSet /\ Changed(o).keys \subseteq DOMAIN Changed(o).columns
             /\ Changed(o).seeded = (o \in Seeded) /\ Changed(o).refs = RefersTo(o)
             /\ Fits(Head(Top.ddl), Wanted(o)) => Matches(Changed(o), Wanted(o))
<1> USE DEF IInv
<1> DEFINE o == Top.obj
           h == Head(Top.ddl)
           k == Wanted(o).keys \cup (IF o \in DOMAIN work THEN work[o].keys ELSE {})
<1>1. Top \in FrameSet /\ o \in All /\ Top.ddl \in Seq(ColumnSets)
      /\ Top.action \in {"create", "alter"}
  BY TopFrame DEF Stage
<1>2. h \in ColumnSets
  BY <1>1
<1>3. IsColumns(h)
  BY <1>2, ColumnsInSet
<1>4. Wanted(o).keys \subseteq DOMAIN Wanted(o).columns /\ Wanted(o).keys \subseteq ColumnNames
  BY <1>1, WantedColumns DEF InstanceInvariant
<1>5. Wanted(o).keys \subseteq DOMAIN h
  <2>1. CASE Top.action = "alter"
    BY <2>1 DEF CommandAccepted
  <2>2. CASE Top.action = "create"
    <3>1. Len(Top.ddl) = 1 /\ Fits(Top.ddl[Len(Top.ddl)], Wanted(o))
      BY <2>2 DEF WorkInvariant, TransactionInvariant
    <3>2. h = Top.ddl[1]
      BY <1>1
    <3>3. QED BY <3>1, <3>2, <1>4 DEF Fits
  <2>3. QED BY <1>1, <2>1, <2>2
<1>6. k \subseteq DOMAIN h /\ k \subseteq ColumnNames /\ Wanted(o).keys \subseteq k
  <2>1. o \in DOMAIN work => work[o].keys \subseteq DOMAIN h
    BY <1>1 DEF CommandAccepted
  <2>2. QED BY <1>3, <1>5, <2>1 DEF IsColumns
<1>7. RefersTo(o) \subseteq All
  BY <1>1, SchemaAssumption DEF RefersTo, All, Internal
<1>8. Changed(o) = [columns |-> h, keys |-> k, refs |-> RefersTo(o), seeded |-> o \in Seeded]
  BY DEF Changed
<1> DEFINE c == Changed(o)
<1> HIDE DEF h, k, c
<1>9. c.columns = h /\ c.keys = k /\ c.refs = RefersTo(o) /\ c.seeded = (o \in Seeded)
  BY <1>8 DEF c
<1>10. c \in TableSet
  BY <1>2, <1>6, <1>7, <1>8 DEF c, TableSet
<1>11. Fits(h, Wanted(o)) => Matches(c, Wanted(o))
  BY <1>6, <1>9 DEF Matches
<1>12. c.keys \subseteq DOMAIN c.columns
  BY <1>6, <1>9
<1>13. QED BY <1>9, <1>10, <1>11, <1>12 DEF c, h

\* The DROP.
LEMMA DropKeepsWork ==
  ASSUME IInv, RunCommand, Top.action = "drop",
         NEW f, StageEffect(f, "run", Tail(Top.ddl))
  PROVE  WorkInvariant'
<1> USE DEF IInv
<1> DEFINE o == Top.obj
<1>1. /\ Stage("run") /\ Top.ddl # <<>> /\ CommandAccepted /\ work' = Without(o)
      /\ UNCHANGED <<tables, engine, release>>
  BY DEF RunCommand, Accepted, database, application
<1>2. Top \in FrameSet /\ Top.ddl \in Seq(ColumnSets) /\ stack \in Frames /\ stack # <<>>
  BY <1>1, TopFrame DEF Stage
<1>3. TransactionInvariant
  BY <1>1 DEF WorkInvariant
<1>4. Len(Top.ddl) = 1 /\ work = tables /\ Tail(Top.ddl) = <<>>
  <2>1. Len(Top.ddl) = 1 /\ work = tables
    BY <1>1, <1>3 DEF TransactionInvariant
  <2>2. QED BY <1>1, <1>2, <2>1, TailOfSequence
<1>5. o \in DOMAIN work /\ (engine = "SQLServer" => \A p \in DOMAIN work \ {o} : o \notin work[p].refs)
  BY <1>1 DEF CommandAccepted
<1>6. Database(work)
  BY DEF WorkInvariant
<1>7. stack' # <<>> /\ Top' = f
  BY <1>2, ReplacedTop DEF StageEffect
<1>8. f.obj = o /\ f.action = "drop" /\ f.stage = "run" /\ f.ddl = <<>>
  BY <1>4 DEF StageEffect
<1>9. /\ DOMAIN work' = DOMAIN work \ {o}
      /\ \A p \in DOMAIN work \ {o} : work'[p] = [work[p] EXCEPT !.refs = @ \ {o}]
  BY <1>1 DEF Without
<1>10. \A p \in DOMAIN work \ {o} :
         /\ work'[p] \in TableSet /\ work'[p].keys \subseteq DOMAIN work'[p].columns
         /\ Alike(work'[p], work[p])
  <2>1. SUFFICES ASSUME NEW p \in DOMAIN work \ {o}
                 PROVE  /\ work'[p] \in TableSet /\ work'[p].keys \subseteq DOMAIN work'[p].columns
                        /\ Alike(work'[p], work[p])
    OBVIOUS
  <2>2. work[p] \in TableSet /\ work[p].keys \subseteq DOMAIN work[p].columns
    BY <1>6 DEF Database
  <2> DEFINE t == work[p]
             u == [t EXCEPT !.refs = @ \ {o}]
  <2>3. work'[p] = u
    BY <1>9
  <2>4. engine = "SQLServer" => o \notin t.refs
    BY <1>5
  <2>5. t \in TableSet /\ t.keys \subseteq DOMAIN t.columns
    BY <2>2
  <2> HIDE DEF t
  <2>6. u \in TableSet /\ u.columns = t.columns /\ u.keys = t.keys /\ u.seeded = t.seeded
        /\ u.refs = t.refs \ {o}
    BY <2>5 DEF TableSet
  <2> HIDE DEF u
  <2>7. Alike(u, t)
    BY <2>4, <2>6 DEF Alike
  <2>8. QED BY <2>3, <2>5, <2>6, <2>7 DEF t
<1>11. Database(work)'
  <2>1. DOMAIN work' \subseteq All
    BY <1>6, <1>9 DEF Database
  <2>2. work' = [p \in DOMAIN work \ {o} |-> [work[p] EXCEPT !.refs = @ \ {o}]]
    BY <1>1 DEF Without
  <2>3. work' \in [DOMAIN work' -> TableSet]
    BY <1>9, <1>10, <2>2
  <2>4. QED BY <1>9, <1>10, <2>1, <2>3 DEF Database
<1>12. OthersUntouched'
  <2>1. \A p \in All \ {o} : p \in DOMAIN work' <=> p \in DOMAIN tables'
    BY <1>1, <1>4, <1>9
  <2>2. \A p \in All \ {o} : p \in DOMAIN work' => Alike(work'[p], tables[p])
    BY <1>4, <1>9, <1>10
  <2>3. \A p \in All \ {o} : p \in DOMAIN work' => Alike(work[p], tables[p])'
    BY <1>1, <2>2 DEF Alike
  <2>4. QED BY <1>7, <1>8, <2>1, <2>3 DEF OthersUntouched
<1>13. f.obj \in DOMAIN tables' /\ f.obj \notin DOMAIN work'
  BY <1>1, <1>4, <1>5, <1>8, <1>9
<1>14. TransactionInvariant'
  BY <1>7, <1>8, <1>12, <1>13 DEF TransactionInvariant
<1>15. Stage("run")' /\ ~Stage("committed")'
  BY <1>7, <1>8 DEF Stage
<1>16. Database(tables)'
  BY <1>1 DEF WorkInvariant, Database
<1>17. \A p \in Internal \cap DOMAIN tables' : tables'[p].refs \subseteq Internal
  BY <1>1 DEF WorkInvariant
<1>18. QED BY <1>11, <1>14, <1>15, <1>16, <1>17 DEF WorkInvariant

\* The CREATE and the ALTER commands.
LEMMA ChangeKeepsWork ==
  ASSUME IInv, RunCommand, Top.action # "drop",
         NEW f, StageEffect(f, "run", Tail(Top.ddl))
  PROVE  WorkInvariant'
<1> USE DEF IInv
<1>a. PICK o : o = Top.obj
  OBVIOUS
<1>b. PICK c : c = Changed(o)
  OBVIOUS
<1>1. /\ Stage("run") /\ Top.ddl # <<>> /\ CommandAccepted
      /\ work' = [p \in DOMAIN work \cup {o} |-> IF p = o THEN c ELSE work[p]]
      /\ UNCHANGED <<tables, engine, release>>
  BY <1>a, <1>b DEF RunCommand, Accepted, database, application
<1>2. Top \in FrameSet /\ Top.ddl \in Seq(ColumnSets) /\ stack \in Frames /\ stack # <<>>
      /\ o \in All /\ Top.action \in {"create", "alter"}
  BY <1>1, <1>a, TopFrame DEF Stage
<1>3. TransactionInvariant
  BY <1>1 DEF WorkInvariant
<1>4. /\ c \in TableSet /\ c.keys \subseteq DOMAIN c.columns
      /\ c.seeded = (o \in Seeded) /\ c.refs = RefersTo(o)
      /\ Fits(Head(Top.ddl), Wanted(o)) => Matches(c, Wanted(o))
  BY <1>1, <1>a, <1>b, ChangedTable
<1>5. Database(work)
  BY DEF WorkInvariant
<1>6. stack' # <<>> /\ Top' = f
  BY <1>2, ReplacedTop DEF StageEffect
<1>7. f.obj = o /\ f.action = Top.action /\ f.stage = "run" /\ f.ddl = Tail(Top.ddl)
  BY <1>a DEF StageEffect
<1>8. /\ DOMAIN work' = DOMAIN work \cup {o} /\ work'[o] = c
      /\ \A p \in DOMAIN work \ {o} : work'[p] = work[p]
  BY <1>1
<1>9. Database(work)'
  <2>1. DOMAIN work' \subseteq All
    BY <1>2, <1>5, <1>8 DEF Database
  <2>2. \A p \in DOMAIN work' : work'[p] \in TableSet /\ work'[p].keys \subseteq DOMAIN work'[p].columns
    BY <1>4, <1>5, <1>8 DEF Database
  <2>3. work' \in [DOMAIN work' -> TableSet]
    BY <1>1, <1>8, <2>2
  <2>4. QED BY <2>1, <2>2, <2>3 DEF Database
<1>10. OthersUntouched'
  <2>1. \A p \in All \ {o} : p \in DOMAIN work' <=> p \in DOMAIN tables'
    BY <1>1, <1>3, <1>8, <1>a DEF TransactionInvariant, OthersUntouched
  <2>2. \A p \in All \ {o} : p \in DOMAIN work' => Alike(work'[p], tables[p])
    BY <1>3, <1>8, <1>a DEF TransactionInvariant, OthersUntouched
  <2>3. \A p \in All \ {o} : p \in DOMAIN work' => Alike(work[p], tables[p])'
    BY <1>1, <2>2 DEF Alike
  <2>4. QED BY <1>6, <1>7, <2>1, <2>3 DEF OthersUntouched
<1>11. /\ Head(Top.ddl) = Top.ddl[1] /\ Tail(Top.ddl) \in Seq(ColumnSets)
       /\ Tail(Top.ddl) = <<>> <=> Len(Top.ddl) = 1
       /\ Tail(Top.ddl) # <<>> => Tail(Top.ddl)[Len(Tail(Top.ddl))] = Top.ddl[Len(Top.ddl)]
  BY <1>1, <1>2, TailOfSequence
<1>12. Fits(Top.ddl[Len(Top.ddl)], Wanted(o))
  BY <1>1, <1>2, <1>3, <1>a DEF TransactionInvariant
<1>13. f.ddl = <<>> => Made(work, o)'
  <2>1. SUFFICES ASSUME f.ddl = <<>>
                 PROVE  Made(work, o)'
    OBVIOUS
  <2>3. Len(Top.ddl) = 1
    BY <1>7, <1>11, <2>1
  <2>4. Matches(c, Wanted(o))
    BY <1>4, <1>11, <1>12, <2>3
  <2>5. o \in DOMAIN work' /\ work'[o] = c /\ Wanted(o)' = Wanted(o)
    BY <1>1, <1>8 DEF Wanted
  <2>6. /\ o \in DOMAIN work' /\ Matches(work'[o], Wanted(o)')
        /\ work'[o].seeded = (o \in Seeded) /\ work'[o].refs = RefersTo(o)
    BY <1>4, <2>4, <2>5
  <2>7. QED BY <2>6 DEF Made, Matches, Fits, RefersTo
<1>14. f.ddl # <<>> => Fits(f.ddl[Len(f.ddl)], Wanted(f.obj))'
  <2>1. SUFFICES ASSUME f.ddl # <<>>
                 PROVE  Fits(f.ddl[Len(f.ddl)], Wanted(f.obj))'
    OBVIOUS
  <2>3. f.ddl[Len(f.ddl)] = Top.ddl[Len(Top.ddl)]
    BY <1>7, <1>11, <2>1
  <2>4. Wanted(f.obj)' = Wanted(o)
    BY <1>1, <1>7 DEF Wanted
  <2>5. Fits(f.ddl[Len(f.ddl)], Wanted(f.obj)')
    BY <1>12, <2>3, <2>4
  <2>6. QED BY <2>5 DEF Fits
<1>15. f.action # "alter" => f.ddl = <<>> /\ f.obj \notin DOMAIN tables' /\ f.obj \in DOMAIN work'
  <2>1. SUFFICES ASSUME f.action # "alter"
                 PROVE  f.ddl = <<>> /\ f.obj \notin DOMAIN tables' /\ f.obj \in DOMAIN work'
    OBVIOUS
  <2>2. Top.action = "create" /\ Len(Top.ddl) = 1 /\ work = tables
    BY <1>1, <1>2, <1>3, <1>7, <2>1 DEF TransactionInvariant
  <2>3. o \notin DOMAIN work
    BY <1>1, <1>a, <2>2 DEF CommandAccepted
  <2>4. Tail(Top.ddl) = <<>>
    BY <1>11, <2>2
  <2>5. QED BY <1>1, <1>7, <1>8, <2>2, <2>3, <2>4
<1>16. f.obj \in DOMAIN work' /\ f.action # "drop"
  BY <1>7, <1>8
<1>17. TransactionInvariant'
  <2>1. f.ddl = <<>> => Made(work, f.obj)'
    BY <1>7, <1>13
  <2>2. (IF f.ddl = <<>> THEN Made(work, f.obj) ELSE Fits(f.ddl[Len(f.ddl)], Wanted(f.obj)))'
    BY <1>14, <2>1
  <2>3. (IF Top.ddl = <<>> THEN Made(work, Top.obj)
         ELSE Fits(Top.ddl[Len(Top.ddl)], Wanted(Top.obj)))'
    BY <1>6, <2>2
  <2>4. Top'.action # "alter" => /\ Top'.ddl = <<>> /\ Top'.action # "drop"
                                 /\ Top'.obj \notin DOMAIN tables' /\ Top'.obj \in DOMAIN work'
    BY <1>6, <1>15, <1>16
  <2>5. Top'.obj \in DOMAIN work' /\ Top'.action # "drop"
    BY <1>6, <1>16
  <2>6. Top'.action # "alter" /\ Top'.ddl = <<>> =>
          /\ Top'.obj \in DOMAIN tables' <=> Top'.action = "drop"
          /\ Top'.obj \in DOMAIN work' <=> Top'.action = "create"
    <3>1. f.action \in {"create", "alter"}
      BY <1>2, <1>7
    <3>2. QED BY <1>6, <2>4, <2>5, <3>1
  <2>7. QED BY <1>10, <2>3, <2>4, <2>5, <2>6 DEF TransactionInvariant
<1>18. Stage("run")' /\ ~Stage("committed")'
  BY <1>6, <1>7 DEF Stage
<1>19. Database(tables)'
  BY <1>1 DEF WorkInvariant, Database
<1>20. \A p \in Internal \cap DOMAIN tables' : tables'[p].refs \subseteq Internal
  BY <1>1 DEF WorkInvariant
<1>21. QED BY <1>9, <1>17, <1>18, <1>19, <1>20 DEF WorkInvariant

LEMMA RunCommandKeepsWork ==
  ASSUME IInv, RunCommand
  PROVE  WorkInvariant' /\ TablesAreWhole'
<1>1. PICK f : StageEffect(f, "run", Tail(Top.ddl))
  BY RunCommandEffect DEF IInv
<1>2. WorkInvariant'
  BY <1>1, DropKeepsWork, ChangeKeepsWork
<1>3. UNCHANGED <<tables, engine>>
  BY DEF RunCommand, database
<1>4. TablesAreWhole'
  BY <1>3 DEF IInv, TablesAreWhole, Matches, Fits, RefersTo
<1>5. QED BY <1>2, <1>4

LEMMA CommitKeepsWork ==
  ASSUME IInv, Commit
  PROVE  WorkInvariant' /\ TablesAreWhole'
<1> USE DEF IInv
<1> DEFINE o == Top.obj
<1>1. /\ Stage("run") /\ Top.ddl = <<>> /\ tables' = work
      /\ UNCHANGED <<work, engine, release>>
  BY DEF Commit, instance, application
<1>2. stack \in Frames /\ stack # <<>> /\ o \in All /\ Top.action \in {"create", "alter", "drop"}
  BY <1>1, TopFrame DEF Stage
<1>3. PICK f : StageEffect(f, "committed", <<>>)
  BY CommitEffect
<1>4. stack' # <<>> /\ Top' = f /\ f.obj = o /\ f.action = Top.action /\ f.stage = "committed"
  BY <1>2, <1>3, ReplacedTop DEF StageEffect
<1>5. ~Stage("run")'
  BY <1>4 DEF Stage
<1>6. TransactionInvariant /\ OthersUntouched
  BY <1>1 DEF WorkInvariant, TransactionInvariant
<1>7. f.action = "drop" => f.obj \notin DOMAIN tables'
  BY <1>1, <1>4, <1>6 DEF TransactionInvariant
<1>8. Top.action # "drop" => Made(work, o)
  BY <1>1, <1>6 DEF TransactionInvariant
<1>9. f.action # "drop" => Made(tables, f.obj)'
  BY <1>1, <1>4, <1>8 DEF Made, Matches, Fits, Wanted, RefersTo
<1>10. Database(tables)' /\ Database(work)'
  BY <1>1 DEF WorkInvariant, Database
<1>11. \A p \in Internal \cap DOMAIN tables' : tables'[p].refs \subseteq Internal
  <2>1. SUFFICES ASSUME NEW p \in Internal, p \in DOMAIN work
                 PROVE  work[p].refs \subseteq Internal
    BY <1>1
  <2>2. CASE p = o
    <3>1. Top.action # "drop"
      BY <1>1, <1>6, <2>1, <2>2 DEF TransactionInvariant
    <3>2. work[p].refs = RefersTo(p)
      BY <1>8, <2>2, <3>1 DEF Made
    <3>3. p \notin Objects
      BY Apart DEF ObjectsApart
    <3>4. RefersTo(p) \subseteq Internal
      BY <3>3 DEF RefersTo, Internal
    <3>5. QED BY <3>2, <3>4
  <2>3. CASE p # o
    <3>1. p \in DOMAIN tables /\ Alike(work[p], tables[p])
      BY <1>6, <2>1, <2>3 DEF OthersUntouched, All
    <3>2. tables[p].refs \subseteq Internal
      BY <3>1 DEF WorkInvariant
    <3>3. QED BY <3>1, <3>2 DEF Alike
  <2>4. QED BY <2>2, <2>3
<1>12. WorkInvariant'
  <2>1. work' = tables'
    BY <1>1
  <2>2. IF f.action = "drop" THEN ~Exists(f.obj)' ELSE Made(tables, f.obj)'
    BY <1>7, <1>9 DEF Exists
  <2>3. QED BY <1>4, <1>5, <1>10, <1>11, <2>1, <2>2 DEF WorkInvariant
<1>13. TablesAreWhole'
  <2>1. SUFFICES ASSUME NEW p \in Objects, p \in DOMAIN work
                 PROVE  /\ \E v \in Versions : Matches(work[p], Model[v])
                        /\ work[p].seeded = (p \in Seeded)
                        /\ engine = "SQLServer" => work[p].refs = RefersTo(p)
    BY <1>1 DEF TablesAreWhole, Matches, Fits, RefersTo
  <2>2. CASE p = o
    <3>1. Top.action # "drop"
      BY <1>1, <1>6, <2>1, <2>2 DEF TransactionInvariant
    <3>2. Made(work, p)
      BY <1>8, <2>2, <3>1
    <3>3. release[p] \in Versions /\ Wanted(p) = Model[release[p]]
      BY <1>2, <2>2, WantedColumns DEF InstanceInvariant
    <3>4. QED BY <3>2, <3>3 DEF Made
  <2>3. CASE p # o
    <3>1. p \in DOMAIN tables /\ Alike(work[p], tables[p])
      BY <1>6, <2>1, <2>3 DEF OthersUntouched, All
    <3>2. PICK v \in Versions : Matches(tables[p], Model[v])
      BY <3>1 DEF TablesAreWhole
    <3>3. Matches(work[p], Model[v])
      BY <3>1, <3>2 DEF Alike, Matches
    <3>4. QED BY <3>1, <3>3 DEF TablesAreWhole, Alike
  <2>4. QED BY <2>2, <2>3
<1>14. QED BY <1>12, <1>13

-----------------------------------------------------------------------------
(***************************************************************************)
(* Every action keeps the invariant.                                       *)
(***************************************************************************)

\* The call and the instance go on as they were.
LEMMA SameInstance ==
  ASSUME InstanceInvariant,
         UNCHANGED <<engine, registered, release, order, declared, isCreated, depends, cache,
                     rows, call, calls>>,
         UNCHANGED <<unseen, faults>> \/ (unseen' = TRUE /\ \E kind \in Faults : Strike(kind))
  PROVE  InstanceInvariant'
<1>1. faults' \in 0..MaxFaults /\ unseen' \in BOOLEAN
  <2>1. UNCHANGED faults \/ \E kind \in Faults : Strike(kind)
    OBVIOUS
  <2>2. faults' \in 0..MaxFaults
    BY <2>1, SchemaAssumption DEF InstanceInvariant, Strike, Fault
  <2>3. unseen' \in BOOLEAN
    BY DEF InstanceInvariant
  <2>4. QED BY <2>2, <2>3
<1>2. QED BY <1>1 DEF InstanceInvariant

LEMMA AnswerKeeps ==
  ASSUME InstanceInvariant, NEW o, NEW seen, Answer(o, seen)
  PROVE  UNCHANGED <<unseen, faults>> \/ (unseen' = TRUE /\ \E kind \in Faults : Strike(kind))
BY DEF Answer, Strike, Fault

LEMMA EnteringAnswers ==
  ASSUME InstanceInvariant, NEW o, NEW drop, NEW below, Entering(o, drop, below)
  PROVE  UNCHANGED <<unseen, faults>> \/ (unseen' = TRUE /\ \E kind \in Faults : Strike(kind))
BY AnswerKeeps DEF Entering

LEMMA NextObjectKeeps ==
  ASSUME IInv, NextObject
  PROVE  IInv'
<1> USE DEF IInv
<1>1. NextEffect
  BY NextObjectEffect
<1>2. /\ stack = <<>> /\ agenda # <<>> /\ agenda[1].do \in {"execute", "drop"}
      /\ Popped(TaskSet, agenda', agenda) /\ agenda[1].obj \in All
      /\ Entering(agenda[1].obj, agenda[1].do = "drop", <<>>)
      /\ UNCHANGED <<database, work, instance, call, calls>>
  BY <1>1 DEF NextEffect
<1>3. PICK o \in All, drop \in BOOLEAN : o = agenda[1].obj /\ drop = (agenda[1].do = "drop")
  BY <1>2
<1>4. InstanceInvariant'
  BY <1>2, EnteringAnswers, SameInstance DEF database, instance, application
<1>5. agenda' \in Seq(TaskSet) /\ AgendaInvariant'
  BY <1>2, PoppedAgenda DEF database, instance, application
<1>6. stack' \in Frames /\ FrameInvariant'
  <2>1. 1 \in DOMAIN agenda
    BY <1>2, HeadTask
  <2>2. call = "execute" => ~drop
    BY <1>2, <1>3, <2>1 DEF StackInvariant, AgendaInvariant
  <2>3. call = "drop" => drop /\ o \in Objects
    BY <1>2, <1>3, <2>1 DEF StackInvariant, AgendaInvariant
  <2>4. <<>> \in Frames /\ \A i \in 1..Len(<<>>) : Waiting(<<>>[i]) /\ OfCall(<<>>[i])
    BY DEF Frames
  <2>5. Entering(o, drop, <<>>) /\ UNCHANGED <<call, tables>>
    BY <1>2, <1>3 DEF database
  <2>6. QED BY <2>2, <2>3, <2>4, <2>5, EnteringKeeps
<1>7. StackInvariant'
  BY <1>5, <1>6 DEF StackInvariant, Frames
<1>8. Quiet
  <2>1. ~Stage("run")
    BY <1>2 DEF Stage
  <2>2. stack' = <<>> \/ stack'[1].stage = "visit"
    BY <1>2, EnteringStack
  <2>3. QED BY <1>2, <2>1, <2>2, NotRunning, QuietStack DEF Quiet, database
<1>9. QED BY <1>4, <1>7, <1>8, QuietWork

LEMMA VisitDependencyKeeps ==
  ASSUME IInv, VisitDependency
  PROVE  IInv'
<1> USE DEF IInv
<1>1. PICK o \in All, f \in FrameSet, below \in Frames : VisitEffect(o, f, below)
  BY VisitDependencyEffect
<1>2. /\ stack # <<>> /\ Top.stage = "visit" /\ o \in Top.visit
      /\ f = [Top EXCEPT !.visit = @ \ {o}] /\ Replaced(FrameSet, below, f, stack)
      /\ Entering(o, Top.action = "drop", below)
      /\ UNCHANGED <<database, work, instance, call, calls, agenda>>
  BY <1>1 DEF VisitEffect
<1>3. PICK drop \in BOOLEAN : drop = (Top.action = "drop")
  OBVIOUS
<1>4. InstanceInvariant'
  BY <1>2, EnteringAnswers, SameInstance DEF database, instance, application
<1>5. agenda' \in Seq(TaskSet) /\ AgendaInvariant'
  BY <1>2, SameAgenda
<1>6. Top \in FrameSet /\ Top = stack[1] /\ 1 \in DOMAIN stack /\ stack \in Frames
      /\ DOMAIN stack = 1..Len(stack)
  BY <1>2, TopFrame
<1>7. Active(Top) /\ OfCall(Top)
  BY <1>6 DEF StackInvariant, FrameInvariant
<1>8. Waiting(f) /\ OfCall(f)
  <2>1. f.stage = "visit" /\ f.action = Top.action /\ f.obj = Top.obj
        /\ f.visit \subseteq Top.visit
    BY <1>2, <1>6 DEF FrameSet
  <2>2. Top.action # "alter" /\ Top.obj \notin Internal
    BY <1>2, <1>7 DEF Active
  <2>3. Top.obj \in All
    BY <1>6 DEF FrameSet
  <2>4. Waiting(f)
    BY <2>1, <2>2, <2>3 DEF Waiting, All
  <2>5. OfCall(f)
    BY <1>7, <2>1 DEF OfCall
  <2>6. QED BY <2>4, <2>5
<1>9. ASSUME NEW i \in 1..Len(below)
      PROVE  Waiting(below[i]) /\ OfCall(below[i])
  <2>1. CASE i = 1
    BY <1>2, <1>8, <2>1 DEF Replaced
  <2>2. CASE i # 1
    <3>1. i \in 2..Len(stack) /\ i \in DOMAIN stack
      BY <1>2, <1>6, <2>2 DEF Replaced, Frames
    <3>2. below[i] = stack[i]
      BY <1>2, <3>1 DEF Replaced
    <3>3. Waiting(stack[i]) /\ OfCall(stack[i])
      BY <2>2, <3>1 DEF StackInvariant, FrameInvariant
    <3>4. QED BY <3>2, <3>3
  <2>3. QED BY <2>1, <2>2
<1>10. stack' \in Frames /\ FrameInvariant'
  <2>1. call = "execute" => ~drop
    BY <1>3, <1>7 DEF OfCall
  <2>2. call = "drop" => drop /\ o \in Objects
    BY <1>2, <1>3, <1>7 DEF OfCall
  <2>3. Entering(o, drop, below) /\ UNCHANGED <<call, tables>>
    BY <1>2, <1>3 DEF database
  <2>4. QED BY <1>9, <2>1, <2>2, <2>3, EnteringKeeps
<1>11. StackInvariant'
  BY <1>5, <1>10 DEF StackInvariant, Frames
<1>12. Quiet
  <2>1. ~Stage("run")
    BY <1>2 DEF Stage
  <2>2. below[1].stage = "visit"
    BY <1>2, <1>8 DEF Replaced, Waiting
  <2>3. stack' = <<>> \/ stack'[1].stage = "visit"
    BY <1>2, <2>2, EnteringStack
  <2>4. QED BY <1>2, <2>1, <2>3, NotRunning, QuietStack DEF Quiet, database
<1>13. QED BY <1>4, <1>11, <1>12, QuietWork

LEMMA BeginKeeps ==
  ASSUME IInv, Begin
  PROVE  IInv'
<1> USE DEF IInv
<1>1. PICK f : BeginEffect(f)
  BY BeginsOrLeaves
<1>2. /\ stack # <<>> /\ UNCHANGED <<database, instance, call, calls, agenda, unseen, faults>>
      /\ \/ Popped(FrameSet, stack', stack)
         \/ /\ f \in FrameSet /\ f.obj = Top.obj /\ f.action = Top.action /\ f.visit = {}
            /\ Replaced(FrameSet, stack', f, stack)
  BY <1>1 DEF BeginEffect
<1>3. InstanceInvariant'
  BY <1>2, SameInstance DEF database, instance, application
<1>4. agenda' \in Seq(TaskSet) /\ AgendaInvariant'
  BY <1>2, SameAgenda
<1>5. Top = stack[1] /\ 1 \in DOMAIN stack /\ stack \in Frames
  BY <1>2, TopFrame
<1>6. Active(Top) /\ OfCall(Top) /\ FrameInvariant
  BY <1>5 DEF StackInvariant, FrameInvariant
<1>7. stack' \in Frames /\ FrameInvariant'
  <2>1. CASE Popped(FrameSet, stack', stack)
    BY <1>2, <1>5, <1>6, <2>1, PoppedFrames
  <2>2. CASE /\ f \in FrameSet /\ f.obj = Top.obj /\ f.action = Top.action /\ f.visit = {}
             /\ Replaced(FrameSet, stack', f, stack)
    <3>1. Active(f)'
      BY <1>2, <1>6, <2>2 DEF Active, Exists, database
    <3>2. OfCall(f)
      BY <1>6, <2>2 DEF OfCall
    <3>3. QED BY <1>2, <1>5, <1>6, <2>2, <3>1, <3>2, ReplacedFrames
  <2>3. QED BY <1>2, <2>1, <2>2
<1>8. StackInvariant'
  BY <1>4, <1>7 DEF StackInvariant, Frames
<1>9. QED BY <1>1, <1>3, <1>8, BeginKeepsWork

\* The frame of a running object moves on.
LEMMA StageKeeps ==
  ASSUME IInv, NEW f, NEW stage, NEW ddl, StageEffect(f, stage, ddl),
         UNCHANGED <<agenda, call>>,
         Top.action = "alter" => Top.obj \in DOMAIN tables'
  PROVE  StackInvariant'
<1> USE DEF IInv
<1>1. /\ stack # <<>> /\ Top.stage = "run" /\ Replaced(FrameSet, stack', f, stack)
      /\ f \in FrameSet /\ f.obj = Top.obj /\ f.action = Top.action /\ f.visit = Top.visit
  BY DEF StageEffect
<1>2. agenda' \in Seq(TaskSet) /\ AgendaInvariant'
  BY <1>1, SameAgenda
<1>3. Top = stack[1] /\ 1 \in DOMAIN stack /\ stack \in Frames
  BY <1>1, TopFrame
<1>4. Active(Top) /\ OfCall(Top) /\ FrameInvariant
  BY <1>3 DEF StackInvariant, FrameInvariant
<1>5. Active(f)'
  BY <1>1, <1>4 DEF Active, Exists
<1>6. OfCall(f)
  BY <1>1, <1>4 DEF OfCall
<1>7. stack' \in Frames /\ FrameInvariant'
  BY <1>1, <1>3, <1>4, <1>5, <1>6, ReplacedFrames
<1>8. QED BY <1>2, <1>7 DEF StackInvariant, Frames

LEMMA RunCommandKeeps ==
  ASSUME IInv, RunCommand
  PROVE  IInv'
<1> USE DEF IInv
<1>1. PICK f : StageEffect(f, "run", Tail(Top.ddl))
  BY RunCommandEffect
<1>2. /\ stack # <<>> /\ UNCHANGED <<database, application, depends, cache, call, calls, agenda,
                                    unseen, faults>>
      /\ isCreated' \in {isCreated \ {Top.obj}, isCreated \cup {Top.obj}}
  BY DEF RunCommand, Stage
<1>3. Top \in FrameSet /\ Top.obj \in All /\ Top = stack[1] /\ 1 \in DOMAIN stack
  BY <1>2, TopFrame
<1>4. InstanceInvariant'
  <2>1. call # "none"
    BY <1>2 DEF StackInvariant, AgendaInvariant
  <2>2. isCreated' \subseteq All
    BY <1>2, <1>3 DEF InstanceInvariant
  <2>3. QED BY <1>2, <2>1, <2>2 DEF InstanceInvariant, database, application
<1>5. Top.action = "alter" => Top.obj \in DOMAIN tables'
  BY <1>2, <1>3 DEF StackInvariant, FrameInvariant, Active, Exists, database
<1>6. StackInvariant'
  BY <1>1, <1>2, <1>5, StageKeeps
<1>7. QED BY <1>4, <1>6, RunCommandKeepsWork

LEMMA CommitKeeps ==
  ASSUME IInv, Commit
  PROVE  IInv'
<1> USE DEF IInv
<1>1. PICK f : StageEffect(f, "committed", <<>>)
  BY CommitEffect
<1>2. /\ Stage("run") /\ tables' = work
      /\ UNCHANGED <<engine, rows, registered, instance, call, calls, agenda, unseen, faults>>
  BY DEF Commit
<1>3. InstanceInvariant'
  BY <1>2, SameInstance DEF instance, application
<1>4. Top.action = "alter" => Top.obj \in DOMAIN tables'
  BY <1>2 DEF WorkInvariant, TransactionInvariant
<1>5. StackInvariant'
  BY <1>1, <1>2, <1>4, StageKeeps
<1>6. QED BY <1>3, <1>5, CommitKeepsWork

\* The innermost object is done, the database unchanged.
LEMMA LeavingKeeps ==
  ASSUME IInv, NEW action, LeaveEffect(action),
         UNCHANGED <<engine, tables, work, call, agenda>>
  PROVE  StackInvariant' /\ WorkInvariant' /\ TablesAreWhole'
<1> USE DEF IInv
<1>1. stack # <<>> /\ Top.stage = "committed" /\ Popped(FrameSet, stack', stack)
  BY DEF LeaveEffect
<1>2. agenda' \in Seq(TaskSet) /\ AgendaInvariant'
  BY <1>1, SameAgenda
<1>3. stack \in Frames /\ FrameInvariant
  BY DEF StackInvariant, Frames
<1>4. stack' \in Frames /\ FrameInvariant'
  BY <1>1, <1>3, PoppedFrames
<1>5. StackInvariant'
  BY <1>2, <1>4 DEF StackInvariant, Frames
<1>6. ~Stage("run")
  BY <1>1 DEF Stage
<1>7. Quiet
  BY <1>1, <1>3, <1>6, NotRunning, PoppedStack, QuietStack DEF Quiet
<1>8. QED BY <1>5, <1>7, QuietWork

LEMMA RegisterObjectKeeps ==
  ASSUME IInv, RegisterObject
  PROVE  IInv'
<1> USE DEF IInv
<1>1. /\ Stage("committed") /\ Top.action = "create" /\ Leave
      /\ UNCHANGED <<engine, tables, registered, work, application, isCreated, depends,
                     call, calls, agenda, unseen, faults>>
      /\ rows' \subseteq rows \cup {Top.obj} /\ cache' \subseteq cache \cup {Top.obj}
  BY DEF RegisterObject, Remember
<1>2. Top.obj \in All
  BY <1>1, TopFrame DEF Stage
<1>3. InstanceInvariant'
  BY <1>1, <1>2 DEF InstanceInvariant, application
<1>4. LeaveEffect("create")
  BY <1>1, LeavingEffect
<1>5. QED BY <1>1, <1>3, <1>4, LeavingKeeps

LEMMA UnregisterObjectKeeps ==
  ASSUME IInv, UnregisterObject
  PROVE  IInv'
<1> USE DEF IInv
<1>1. /\ Stage("committed") /\ Top.action = "drop" /\ Leave
      /\ UNCHANGED <<engine, tables, registered, work, application, isCreated, call, calls,
                     agenda>>
      /\ rows' \subseteq rows /\ cache' \subseteq cache \cup {Top.obj}
      /\ depends' = [p \in Objects |-> depends[p] \ {Top.obj}]
      /\ UNCHANGED <<unseen, faults>> \/ (unseen' = TRUE /\ \E kind \in Faults : Strike(kind))
  BY DEF UnregisterObject, Remember, Strike, Fault
<1>2. Top.obj \in All /\ call # "none"
  BY <1>1, TopFrame DEF Stage, StackInvariant, AgendaInvariant
<1>3. InstanceInvariant'
  <2>1. faults' \in 0..MaxFaults /\ unseen' \in BOOLEAN
    <3>1. UNCHANGED faults \/ \E kind \in Faults : Strike(kind)
      BY <1>1
    <3>2. faults' \in 0..MaxFaults
      BY <3>1, SchemaAssumption DEF InstanceInvariant, Strike, Fault
    <3>3. unseen' \in BOOLEAN
      BY <1>1 DEF InstanceInvariant
    <3>4. QED BY <3>2, <3>3
  <2>2. depends' \in [Objects -> SUBSET Objects]
    BY <1>1 DEF InstanceInvariant
  <2>3. rows' \subseteq All /\ cache' \subseteq All
    BY <1>1, <1>2 DEF InstanceInvariant
  <2>4. QED BY <1>1, <1>2, <2>1, <2>2, <2>3 DEF InstanceInvariant, application
<1>4. LeaveEffect("drop")
  BY <1>1, LeavingEffect
<1>5. QED BY <1>1, <1>3, <1>4, LeavingKeeps

LEMMA LeaveAlteredKeeps ==
  ASSUME IInv, LeaveAltered
  PROVE  IInv'
<1> USE DEF IInv
<1>1. /\ Stage("committed") /\ Top.action = "alter" /\ Leave
      /\ UNCHANGED <<database, work, instance, call, calls, agenda, unseen, faults>>
  BY DEF LeaveAltered
<1>2. InstanceInvariant'
  BY <1>1, SameInstance DEF database, instance, application
<1>3. LeaveEffect("alter")
  BY <1>1, LeavingEffect
<1>4. QED BY <1>1, <1>2, <1>3, LeavingKeeps DEF database

\* A task that no object executes.
LEMMA TaskKeeps ==
  ASSUME IInv, stack = <<>>, agenda # <<>>, agenda' = Tail(agenda),
         UNCHANGED <<engine, tables, work, call, stack>>
  PROVE  StackInvariant' /\ WorkInvariant' /\ TablesAreWhole'
<1> USE DEF IInv
<1>1. Popped(TaskSet, agenda', agenda)
  BY HeadTask
<1>2. agenda' \in Seq(TaskSet) /\ AgendaInvariant'
  BY <1>1, PoppedAgenda
<1>3. stack' \in Frames /\ FrameInvariant'
  BY NoFrames
<1>4. StackInvariant'
  BY <1>2, <1>3 DEF StackInvariant, Frames
<1>5. Quiet
  BY NotRunning, QuietStack DEF Quiet, Stage
<1>6. QED BY <1>4, <1>5, QuietWork

LEMMA RegisterSchemaKeeps ==
  ASSUME IInv, RegisterSchema
  PROVE  IInv'
<1> USE DEF IInv
<1>1. /\ stack = <<>> /\ agenda # <<>> /\ agenda' = Tail(agenda) /\ registered' = TRUE
      /\ UNCHANGED <<engine, tables, rows, work, instance, call, calls, stack, unseen, faults>>
  BY DEF RegisterSchema, Turn
<1>2. InstanceInvariant'
  BY <1>1 DEF InstanceInvariant, instance, application
<1>3. QED BY <1>1, <1>2, TaskKeeps

LEMMA ClearCacheKeeps ==
  ASSUME IInv, ClearCache
  PROVE  IInv'
<1> USE DEF IInv
<1>1. /\ stack = <<>> /\ agenda # <<>> /\ agenda' = Tail(agenda) /\ cache' = {}
      /\ UNCHANGED <<database, work, application, isCreated, depends, call, calls, stack,
                     unseen, faults>>
  BY DEF ClearCache, Turn
<1>2. InstanceInvariant'
  BY <1>1 DEF InstanceInvariant, database, application
<1>3. QED BY <1>1, <1>2, TaskKeeps DEF database

LEMMA IdleKeeps ==
  ASSUME IInv, agenda' = <<>>, stack' = <<>>, call' = "none", work' = tables,
         UNCHANGED <<engine, tables>>
  PROVE  StackInvariant' /\ WorkInvariant' /\ TablesAreWhole'
<1> USE DEF IInv
<1>1. stack' \in Frames /\ FrameInvariant'
  BY NoFrames
<1>2. StackInvariant'
  BY <1>1 DEF StackInvariant, AgendaInvariant, Frames
<1>3. Quiet
  BY QuietStack DEF Quiet
<1>4. QED BY <1>2, <1>3, QuietWork

LEMMA ReturnKeeps ==
  ASSUME IInv, Return
  PROVE  IInv'
<1> USE DEF IInv
<1>1. /\ call # "none" /\ agenda = <<>> /\ stack = <<>> /\ call' = "none"
      /\ UNCHANGED <<database, work, instance, calls, agenda, stack, unseen, faults>>
  BY DEF Return, Done
<1>2. calls > 0 /\ calls \in Nat
  BY <1>1, SchemaAssumption DEF InstanceInvariant
<1>3. InstanceInvariant'
  BY <1>1, <1>2 DEF InstanceInvariant, database, instance, application
<1>4. work = tables
  BY <1>1, NotRunning DEF Stage
<1>5. QED BY <1>1, <1>3, <1>4, IdleKeeps DEF database

LEMMA ThrowKeeps ==
  ASSUME IInv, Throw
  PROVE  IInv'
<1> USE DEF IInv
<1>1. /\ call' = "none" /\ agenda' = <<>> /\ stack' = <<>> /\ work' = tables
      /\ calls' = IF Retries THEN calls ELSE MaxCalls
      /\ UNCHANGED <<database, application, depends, cache, unseen>>
      /\ isCreated' \in {isCreated, Flagged}
      /\ UNCHANGED faults \/ \E kind \in Faults : Strike(kind)
      /\ stack # <<>> \/ agenda # <<>>
  BY DEF Throw, Strike, Fault, Rejected, CanFail, Stage, Turn
<1>2. call # "none"
  BY <1>1 DEF StackInvariant, AgendaInvariant
<1>3. calls > 0 /\ calls \in 0..MaxCalls /\ MaxCalls \in Nat
  BY <1>2, SchemaAssumption DEF InstanceInvariant
<1>4. calls' \in 0..MaxCalls /\ calls' > 0
  BY <1>1, <1>3
<1>5. isCreated' \subseteq All
  <2>1. Stage("run") => Top.obj \in All
    BY TopFrame DEF Stage
  <2>2. QED BY <1>1, <2>1 DEF Flagged, InstanceInvariant
<1>6. faults' \in 0..MaxFaults
  BY <1>1, SchemaAssumption DEF InstanceInvariant, Strike, Fault
<1>7. InstanceInvariant'
  BY <1>1, <1>4, <1>5, <1>6 DEF InstanceInvariant, database, application
<1>8. QED BY <1>1, <1>7, IdleKeeps DEF database

\* A new instance of the application.
LEMMA NewInstance ==
  ASSUME NEW s \in Schemas
  PROVE  /\ s.list \in Seq(Objects) /\ Found(s) \in [Objects -> SUBSET Objects]
         /\ \A o \in Objects : Found(s)[o] \subseteq DependsOn[o]
BY SchemaAssumption DEF Found

LEMMA RestartKeeps ==
  ASSUME IInv, Restart
  PROVE  IInv'
<1> USE DEF IInv
<1>1. PICK s \in Schemas : order' = s.list /\ declared' = Found(s)
  BY DEF Restart
<1>2. /\ release' \in Releases /\ isCreated' = {} /\ depends' = declared' /\ cache' = {}
      /\ call' = "none" /\ calls' = 0 /\ agenda' = <<>> /\ stack' = <<>>
      /\ work' = tables /\ unseen' = FALSE /\ UNCHANGED database
      /\ UNCHANGED faults \/ Strike("crash")
  BY DEF Restart
<1>3. faults' \in 0..MaxFaults
  BY <1>2, SchemaAssumption DEF InstanceInvariant, Strike, Fault
<1>4. InstanceInvariant'
  <2>1. /\ s.list \in Seq(Objects) /\ Found(s) \in [Objects -> SUBSET Objects]
        /\ \A o \in Objects : Found(s)[o] \subseteq DependsOn[o]
    BY NewInstance
  <2>2. 0 \in 0..MaxCalls
    BY SchemaAssumption
  <2>3. /\ order' \in Seq(Objects) /\ declared' \in [Objects -> SUBSET Objects]
        /\ depends' \in [Objects -> SUBSET Objects]
        /\ \A o \in Objects : declared'[o] \subseteq DependsOn[o]
    BY <1>1, <1>2, <2>1
  <2>4. UNCHANGED <<engine, rows, registered>>
    BY <1>2 DEF database
  <2>5. QED BY <1>2, <1>3, <2>2, <2>3, <2>4 DEF InstanceInvariant
<1>5. QED BY <1>2, <1>4, IdleKeeps DEF database

LEMMA EachTask ==
  ASSUME InstanceInvariant, NEW do \in {"execute", "drop"}
  PROVE  /\ Each(do) \in Seq(TaskSet) /\ Len(Each(do)) = Len(order) /\ Len(order) \in Nat
         /\ \A i \in 1..Len(order) : Each(do)[i] = Task(do, order[i]) /\ order[i] \in Objects
<1>1. order \in Seq(Objects) /\ DOMAIN order = 1..Len(order) /\ Len(order) \in Nat
  BY DEF InstanceInvariant
<1>2. \A i \in 1..Len(order) : Task(do, order[i]) \in TaskSet
  BY <1>1 DEF Task, TaskSet, All
<1>3. Each(do) \in Seq(TaskSet) /\ Len(Each(do)) = Len(order)
  BY <1>1, <1>2 DEF Each
<1>4. QED BY <1>1, <1>3 DEF Each

\* The agenda of an Execute: Orpheus's own tables, the schema, the objects.
LEMMA ExecuteAgenda ==
  ASSUME InstanceInvariant, NEW seen \in BOOLEAN
  PROVE  LET own == OwnTables(seen)
             tasks == own \o << Task("registerSchema", "Info") >> \o Each("execute")
         IN  /\ tasks \in Seq(TaskSet) /\ Len(own) \in Nat
             /\ own = <<>> \/ own = << Task("execute", "Info"), Task("execute", "Object"),
                                       Task("execute", "Module") >>
             /\ Len(tasks) = Len(own) + 1 + Len(order)
             /\ \A i \in 1..Len(own) : tasks[i] = own[i]
             /\ tasks[Len(own) + 1] = Task("registerSchema", "Info")
             /\ \A i \in 1..Len(order) : tasks[Len(own) + 1 + i] = Task("execute", order[i])
<1> DEFINE own == OwnTables(seen)
           middle == << Task("registerSchema", "Info") >>
           each == Each("execute")
<1>1. own \in Seq(TaskSet) /\ middle \in Seq(TaskSet)
  <2>1. \A o \in Internal : Task("execute", o) \in TaskSet
    BY DEF Task, TaskSet, All
  <2>2. Task("execute", "Info") \in TaskSet /\ Task("execute", "Object") \in TaskSet
        /\ Task("execute", "Module") \in TaskSet
    BY <2>1 DEF Internal
  <2>3. own \in Seq(TaskSet)
    <3>1. PICK a \in TaskSet, b \in TaskSet, c \in TaskSet :
            a = Task("execute", "Info") /\ b = Task("execute", "Object")
            /\ c = Task("execute", "Module")
      BY <2>2
    <3>2. own = IF seen THEN <<>> ELSE <<a, b, c>>
      BY <3>1 DEF OwnTables
    <3> HIDE DEF own
    <3>3. CASE seen
      <4>1. own = <<>>
        BY <3>2, <3>3
      <4>2. QED BY <4>1
    <3>4. CASE ~seen
      <4>1. own = <<a, b, c>>
        BY <3>2, <3>4
      <4>2. QED BY <4>1
    <3>5. QED BY <3>3, <3>4
  <2>4. Task("registerSchema", "Info") \in TaskSet
    BY DEF Task, TaskSet, All, Internal
  <2>5. QED BY <2>3, <2>4
<1>2. own = <<>> \/ own = << Task("execute", "Info"), Task("execute", "Object"),
                             Task("execute", "Module") >>
  BY DEF OwnTables
<1>3. /\ each \in Seq(TaskSet) /\ Len(each) = Len(order) /\ Len(order) \in Nat
      /\ \A i \in 1..Len(order) : each[i] = Task("execute", order[i])
  BY EachTask
<1>4. Len(middle) = 1 /\ middle[1] = Task("registerSchema", "Info")
  OBVIOUS
<1> HIDE DEF own, middle, each
<1>5. own \o middle \in Seq(TaskSet) /\ Len(own \o middle) = Len(own) + 1 /\ Len(own) \in Nat
  <2>1. own \o middle \in Seq(TaskSet) /\ Len(own \o middle) = Len(own) + Len(middle)
    BY <1>1, Concatenation
  <2>2. Len(own) \in Nat
    BY <1>1
  <2>3. QED BY <1>4, <2>1, <2>2
<1>6. (\A i \in 1..Len(own) : (own \o middle)[i] = own[i])
      /\ (own \o middle)[Len(own) + 1] = Task("registerSchema", "Info")
  <2>1. 1 \in 1..Len(middle)
    BY <1>4
  <2>2. \A i \in 1..Len(own) : (own \o middle)[i] = own[i]
    BY <1>1, Concatenation
  <2>3. (own \o middle)[Len(own) + 1] = middle[1]
    BY <1>1, <2>1, Concatenation
  <2>4. QED BY <1>4, <2>2, <2>3
<1> DEFINE tasks == (own \o middle) \o each
<1>7. /\ tasks \in Seq(TaskSet) /\ Len(tasks) = Len(own) + 1 + Len(order)
      /\ \A i \in 1..(Len(own) + 1) : tasks[i] = (own \o middle)[i]
      /\ \A i \in 1..Len(order) : tasks[Len(own) + 1 + i] = each[i]
  <2> DEFINE om == own \o middle
  <2> HIDE DEF om
  <2>1. om \in Seq(TaskSet) /\ Len(om) = Len(own) + 1
    BY <1>5 DEF om
  <2>2. /\ om \o each \in Seq(TaskSet) /\ Len(om \o each) = Len(om) + Len(each)
        /\ \A i \in 1..Len(om) : (om \o each)[i] = om[i]
        /\ \A i \in 1..Len(each) : (om \o each)[Len(om) + i] = each[i]
    <3>1. each \in Seq(TaskSet) /\ om \in Seq(TaskSet)
      BY <1>3, <2>1
    <3>2. QED BY <3>1, Concatenation
  <2>3. QED BY <1>3, <1>5, <2>1, <2>2 DEF om
<1> HIDE DEF tasks
<1>8. /\ \A i \in 1..Len(own) : tasks[i] = own[i]
      /\ tasks[Len(own) + 1] = Task("registerSchema", "Info")
  <2>1. Len(own) + 1 \in 1..(Len(own) + 1) /\ 1..Len(own) \subseteq 1..(Len(own) + 1)
    BY <1>5
  <2>2. \A i \in 1..Len(own) : tasks[i] = (own \o middle)[i]
    BY <1>7, <2>1
  <2>3. tasks[Len(own) + 1] = (own \o middle)[Len(own) + 1]
    BY <1>7, <2>1
  <2>4. QED BY <1>6, <2>2, <2>3
<1>9. \A i \in 1..Len(order) : tasks[Len(own) + 1 + i] = Task("execute", order[i])
  BY <1>3, <1>7
<1>10. QED BY <1>2, <1>5, <1>7, <1>8, <1>9 DEF tasks, own, middle, each

LEMMA ExecuteKeeps ==
  ASSUME IInv, Execute
  PROVE  IInv'
<1> USE DEF IInv
<1>1. PICK seen \in BOOLEAN :
        /\ \/ seen = Exists("Object") /\ unseen' = FALSE /\ UNCHANGED faults
           \/ ~seen /\ Exists("Object") /\ unseen' = TRUE /\ Strike("check")
        /\ Call("execute", OwnTables(seen) \o << Task("registerSchema", "Info") >> \o Each("execute"))
  BY DEF Execute
<1> DEFINE own == OwnTables(seen)
           tasks == own \o << Task("registerSchema", "Info") >> \o Each("execute")
<1>2. /\ call = "none" /\ calls < MaxCalls /\ call' = "execute" /\ calls' = calls + 1
      /\ agenda' = tasks
      /\ UNCHANGED <<database, work, instance, stack>>
  BY <1>1 DEF Call
<1>3. stack = <<>> /\ stack' = <<>>
  BY <1>2 DEF StackInvariant, AgendaInvariant
<1>4. faults' \in 0..MaxFaults /\ unseen' \in BOOLEAN
  <2>1. UNCHANGED faults \/ Strike("check")
    BY <1>1
  <2>2. faults' \in 0..MaxFaults
    BY <2>1, SchemaAssumption DEF InstanceInvariant, Strike, Fault
  <2>3. unseen' \in BOOLEAN
    BY <1>1
  <2>4. QED BY <2>2, <2>3
<1>5. calls' \in 0..MaxCalls /\ calls' > 0
  BY <1>2, SchemaAssumption DEF InstanceInvariant
<1>6. InstanceInvariant'
  BY <1>2, <1>4, <1>5 DEF InstanceInvariant, database, instance, application
<1>7. /\ tasks \in Seq(TaskSet) /\ Len(own) \in Nat /\ Len(order) \in Nat
      /\ own = <<>> \/ own = << Task("execute", "Info"), Task("execute", "Object"),
                                       Task("execute", "Module") >>
      /\ Len(tasks) = Len(own) + 1 + Len(order)
      /\ \A i \in 1..Len(own) : tasks[i] = own[i]
      /\ tasks[Len(own) + 1] = Task("registerSchema", "Info")
      /\ \A i \in 1..Len(order) : tasks[Len(own) + 1 + i] = Task("execute", order[i])
  BY ExecuteAgenda, EachTask
<1>8. \A i \in 1..Len(own) : own[i].do = "execute"
  BY <1>7 DEF Task
<1> HIDE DEF own, tasks
<1>9. \A i \in DOMAIN tasks : tasks[i].do \in {"execute", "registerSchema"}
  <2>1. SUFFICES ASSUME NEW i \in DOMAIN tasks
                 PROVE  tasks[i].do \in {"execute", "registerSchema"}
    OBVIOUS
  <2>2. i \in 1..(Len(own) + 1 + Len(order))
    BY <1>7
  <2>3. CASE i \in 1..Len(own)
    BY <1>7, <1>8, <2>3
  <2>4. CASE i = Len(own) + 1
    BY <1>7, <2>4 DEF Task
  <2>5. CASE i - Len(own) - 1 \in 1..Len(order)
    <3>1. i = Len(own) + 1 + (i - Len(own) - 1)
      BY <1>7, <2>2
    <3>2. tasks[i] = Task("execute", order[i - Len(own) - 1])
      BY <1>7, <2>5, <3>1
    <3>3. QED BY <3>2 DEF Task
  <2>6. Len(own) \in Nat /\ Len(order) \in Nat
    BY <1>7
  <2>7. i \in 1..Len(own) \/ i = Len(own) + 1 \/ i - Len(own) - 1 \in 1..Len(order)
    BY <2>2, <2>6
  <2>8. QED BY <2>3, <2>4, <2>5, <2>7
<1>10. agenda' \in Seq(TaskSet) /\ AgendaInvariant'
  BY <1>2, <1>7, <1>9 DEF AgendaInvariant
<1>11. stack' \in Frames /\ FrameInvariant'
  BY <1>3, NoFrames
<1>12. StackInvariant'
  BY <1>10, <1>11 DEF StackInvariant, Frames
<1>13. Quiet
  BY <1>2, <1>3, NotRunning, QuietStack DEF Quiet, Stage, database
<1>14. QED BY <1>6, <1>12, <1>13, QuietWork

LEMMA DropAgenda ==
  ASSUME InstanceInvariant
  PROVE  LET tasks == Each("drop") \o << Task("clearCache", "Info") >>
         IN  /\ tasks \in Seq(TaskSet) /\ Len(tasks) = Len(order) + 1 /\ Len(order) \in Nat
             /\ \A i \in 1..Len(order) : tasks[i] = Task("drop", order[i]) /\ order[i] \in Objects
             /\ tasks[Len(order) + 1] = Task("clearCache", "Info")
<1> DEFINE each == Each("drop")
           last == << Task("clearCache", "Info") >>
<1>1. /\ each \in Seq(TaskSet) /\ Len(each) = Len(order) /\ Len(order) \in Nat
      /\ \A i \in 1..Len(order) : each[i] = Task("drop", order[i]) /\ order[i] \in Objects
  BY EachTask
<1>2. last \in Seq(TaskSet) /\ Len(last) = 1 /\ last[1] = Task("clearCache", "Info")
  BY DEF Task, TaskSet, All, Internal
<1> HIDE DEF each, last
<1>3. /\ each \o last \in Seq(TaskSet) /\ Len(each \o last) = Len(order) + 1
      /\ \A i \in 1..Len(order) : (each \o last)[i] = each[i]
      /\ (each \o last)[Len(order) + 1] = Task("clearCache", "Info")
  <2>1. /\ each \o last \in Seq(TaskSet) /\ Len(each \o last) = Len(each) + Len(last)
        /\ \A i \in 1..Len(each) : (each \o last)[i] = each[i]
        /\ \A i \in 1..Len(last) : (each \o last)[Len(each) + i] = last[i]
    <3>1. each \in Seq(TaskSet) /\ last \in Seq(TaskSet)
      BY <1>1, <1>2
    <3>2. QED BY <3>1, Concatenation
  <2>2. 1 \in 1..Len(last)
    BY <1>2
  <2>3. QED BY <1>1, <1>2, <2>1, <2>2
<1>4. QED BY <1>1, <1>3 DEF each, last

LEMMA DropKeeps ==
  ASSUME IInv, Drop
  PROVE  IInv'
<1> USE DEF IInv
<1> DEFINE tasks == Each("drop") \o << Task("clearCache", "Info") >>
<1>1. /\ call = "none" /\ calls < MaxCalls /\ call' = "drop" /\ calls' = calls + 1
      /\ agenda' = tasks
      /\ UNCHANGED <<database, work, instance, stack>>
      /\ unseen' = FALSE /\ UNCHANGED faults
  BY DEF Drop, Call
<1>2. stack = <<>> /\ stack' = <<>>
  BY <1>1 DEF StackInvariant, AgendaInvariant
<1>3. calls' \in 0..MaxCalls /\ calls' > 0
  BY <1>1, SchemaAssumption DEF InstanceInvariant
<1>4. InstanceInvariant'
  BY <1>1, <1>3 DEF InstanceInvariant, database, instance, application
<1>5. /\ tasks \in Seq(TaskSet) /\ Len(tasks) = Len(order) + 1 /\ Len(order) \in Nat
      /\ \A i \in 1..Len(order) : tasks[i] = Task("drop", order[i]) /\ order[i] \in Objects
      /\ tasks[Len(order) + 1] = Task("clearCache", "Info")
  BY DropAgenda
<1> HIDE DEF tasks
<1>6. \A i \in DOMAIN tasks :
        IF i = Len(tasks) THEN tasks[i].do = "clearCache"
        ELSE tasks[i].do = "drop" /\ tasks[i].obj \in Objects
  <2>1. DOMAIN tasks = 1..(Len(order) + 1)
    BY <1>5
  <2>2. \A i \in DOMAIN tasks : i = Len(order) + 1 \/ i \in 1..Len(order)
    BY <1>5, <2>1
  <2>3. Len(tasks) = Len(order) + 1 /\ \A i \in 1..Len(order) : i # Len(tasks)
    BY <1>5
  <2>4. SUFFICES ASSUME NEW i \in DOMAIN tasks
                 PROVE  IF i = Len(tasks) THEN tasks[i].do = "clearCache"
                        ELSE tasks[i].do = "drop" /\ tasks[i].obj \in Objects
    OBVIOUS
  <2>5. CASE i = Len(order) + 1
    BY <1>5, <2>3, <2>5 DEF Task
  <2>6. CASE i \in 1..Len(order)
    <3>1. tasks[i] = Task("drop", order[i]) /\ order[i] \in Objects /\ i # Len(tasks)
      BY <1>5, <2>3, <2>6
    <3>2. tasks[i].do = "drop" /\ tasks[i].obj \in Objects
      BY <3>1 DEF Task
    <3>3. QED BY <3>1, <3>2
  <2>7. QED BY <2>2, <2>5, <2>6
<1>7. agenda' \in Seq(TaskSet) /\ AgendaInvariant'
  BY <1>1, <1>2, <1>5, <1>6 DEF AgendaInvariant
<1>8. stack' \in Frames /\ FrameInvariant'
  BY <1>2, NoFrames
<1>9. StackInvariant'
  BY <1>7, <1>8 DEF StackInvariant, Frames
<1>10. Quiet
  BY <1>1, <1>2, NotRunning, QuietStack DEF Quiet, Stage, database
<1>11. QED BY <1>4, <1>9, <1>10, QuietWork

LEMMA InitHolds ==
  ASSUME Init
  PROVE  IInv
<1>1. PICK s \in Schemas : order = s.list /\ declared = Found(s)
  BY DEF Init
<1>2. InstanceInvariant
  <2>1. /\ s.list \in Seq(Objects) /\ Found(s) \in [Objects -> SUBSET Objects]
        /\ \A o \in Objects : Found(s)[o] \subseteq DependsOn[o]
    BY NewInstance
  <2>2. 0 \in 0..MaxCalls /\ 0 \in 0..MaxFaults
    BY SchemaAssumption
  <2>3. /\ order \in Seq(Objects) /\ declared \in [Objects -> SUBSET Objects]
        /\ depends \in [Objects -> SUBSET Objects]
        /\ \A o \in Objects : declared[o] \subseteq DependsOn[o]
    BY <1>1, <2>1 DEF Init
  <2>4. QED BY <2>2, <2>3 DEF Init, InstanceInvariant
<1>3. StackInvariant
  <2>1. stack = <<>> /\ agenda = <<>> /\ call = "none"
    BY DEF Init
  <2>2. FrameInvariant
    BY <2>1 DEF FrameInvariant
  <2>3. QED BY <2>1, <2>2 DEF StackInvariant, AgendaInvariant
<1>4. DOMAIN tables = {} /\ work = tables
  BY DEF Init
<1>5. tables \in [DOMAIN tables -> TableSet]
  BY <1>4 DEF Init
<1>6. Database(tables) /\ Database(work)
  BY <1>4, <1>5 DEF Database
<1>7. ~Stage("run") /\ ~Stage("committed")
  BY DEF Init, Stage
<1>8. WorkInvariant
  BY <1>4, <1>6, <1>7 DEF WorkInvariant
<1>9. TablesAreWhole
  BY <1>4 DEF TablesAreWhole
<1>10. QED BY <1>2, <1>3, <1>8, <1>9 DEF IInv

LEMMA StutterKeeps ==
  ASSUME IInv, UNCHANGED vars
  PROVE  IInv'
<1> USE DEF IInv, vars, database, instance, application, progress
<1>1. InstanceInvariant'
  BY SameInstance
<1>2. StackInvariant'
  BY DEF StackInvariant, FrameInvariant, AgendaInvariant, OfCall, Active, Waiting, Exists
<1>3. Stage("run")' = Stage("run") /\ Stage("committed")' = Stage("committed") /\ Top' = Top
  BY DEF Stage, Top
<1>4. Database(tables)' /\ Database(work)'
  BY DEF WorkInvariant, Database
<1>5. TransactionInvariant' = TransactionInvariant
  BY <1>3 DEF TransactionInvariant, OthersUntouched, Alike, Made, Matches, Fits, Wanted, RefersTo
<1>6. WorkInvariant'
  BY <1>3, <1>4, <1>5 DEF WorkInvariant, Exists, Made, Matches, Fits, Wanted, RefersTo
<1>7. TablesAreWhole'
  BY DEF TablesAreWhole, Matches, Fits, RefersTo
<1>8. QED BY <1>1, <1>2, <1>6, <1>7

LEMMA StepKeeps ==
  ASSUME IInv, [Next]_vars
  PROVE  IInv'
<1>1. SUFFICES ASSUME Next
               PROVE  IInv'
  BY StutterKeeps
<1>2. CASE Restart
  BY <1>1, <1>2, RestartKeeps
<1>3. CASE Execute
  BY <1>1, <1>3, ExecuteKeeps
<1>4. CASE Drop
  BY <1>1, <1>4, DropKeeps
<1>5. CASE NextObject \/ VisitDependency \/ Begin \/ RunCommand \/ Commit
  BY <1>1, <1>5, NextObjectKeeps, VisitDependencyKeeps, BeginKeeps, RunCommandKeeps, CommitKeeps
<1>6. CASE RegisterObject \/ UnregisterObject \/ LeaveAltered
  BY <1>1, <1>6, RegisterObjectKeeps, UnregisterObjectKeeps, LeaveAlteredKeeps
<1>7. CASE RegisterSchema \/ ClearCache \/ Return
  BY <1>1, <1>7, RegisterSchemaKeeps, ClearCacheKeeps, ReturnKeeps
<1>8. CASE Throw
  BY <1>1, <1>8, ThrowKeeps
<1>9. QED BY <1>1, <1>2, <1>3, <1>4, <1>5, <1>6, <1>7, <1>8 DEF Next, Progress

\* The inductive invariant: the shape of the instance, of the stack and of the agenda, and
\* what an open transaction has made of the tables, whatever fails or crashes.
THEOREM SchemaInvariant == Spec => []IInv
<1>1. Init => IInv
  BY InitHolds
<1>2. IInv /\ [Next]_vars => IInv'
  BY StepKeeps
<1>3. QED BY <1>1, <1>2, PTL DEF Spec

\* The database, the instance of Schema and its call keep their shape; between the calls
\* nothing executes and no transaction is open (Schema, SchemaDataObject).
THEOREM SchemaTypes == Spec => []TypeOK
<1>1. IInv => TypeOK
  <2>1. SUFFICES ASSUME IInv
                 PROVE  TypeOK
    OBVIOUS
  <2>2. ASSUME NEW T, Database(T)
        PROVE  DOMAIN T \subseteq All /\ \A o \in DOMAIN T : TableShape(T[o])
    BY <2>2 DEF Database, TableSet, TableShape
  <2>3. \A T \in {tables, work} : DOMAIN T \subseteq All /\ \A o \in DOMAIN T : TableShape(T[o])
    BY <2>1, <2>2 DEF IInv, WorkInvariant
  <2>4. call = "none" => agenda = <<>> /\ stack = <<>> /\ work = tables
    BY <2>1 DEF IInv, StackInvariant, AgendaInvariant, WorkInvariant, Stage
  <2>5. QED BY <2>1, <2>3, <2>4 DEF TypeOK, IInv, InstanceInvariant
<1>2. QED BY <1>1, SchemaInvariant, PTL

\* Whatever fails or crashes, a table of the application is as one version of its model
\* has it, with its seed data and, on SQL Server, with its foreign keys: the transaction of
\* a CREATE or an ALTER is there as a whole or not at all (SchemaDataObject.Execute).
THEOREM WholeTables == Spec => []TablesAreWhole
<1>1. IInv => TablesAreWhole
  BY DEF IInv
<1>2. QED BY <1>1, SchemaInvariant, PTL
===============================================================================
