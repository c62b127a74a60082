-------------------------- MODULE OrpheusTableProofs --------------------------
(***************************************************************************)
(* Theorems about OrpheusTable, for every set of records and values, every *)
(* number of keys, every batch size and every set of faults.               *)
(***************************************************************************)
EXTENDS OrpheusTable, TLAPS, FiniteSetTheorems, WellFoundedInduction

-----------------------------------------------------------------------------
(***************************************************************************)
(* Queues.                                                                 *)
(***************************************************************************)

\* An entry that is queued keeps the queue a sequence with one entry per record, and
\* is the only entry of the queue that changes.
LEMMA EnqueueLemma ==
  ASSUME NEW E, NEW q \in Seq(E), OncePerRecord(q), NEW e \in E
  PROVE  /\ Enqueue(q, e) \in Seq(E)
         /\ OncePerRecord(Enqueue(q, e))
         /\ Atomic!OneEntry(q, Enqueue(q, e))
<1>1. CASE Queued(q, e.rec)
  <2>1. PICK n \in DOMAIN q : q[n].rec = e.rec
    BY <1>1 DEF Queued
  <2>2. \A i \in DOMAIN q : q[i].rec = e.rec <=> i = n
    BY <2>1 DEF OncePerRecord
  <2>3. Enqueue(q, e) = [i \in DOMAIN q |-> IF i = n THEN e ELSE q[i]]
    BY <1>1, <2>2 DEF Enqueue
  <2>4. DOMAIN q = 1..Len(q) /\ Len(q) \in Nat
    OBVIOUS
  <2>5. Enqueue(q, e) \in Seq(E)
    BY <2>3, <2>4
  <2>6. OncePerRecord(Enqueue(q, e))
    BY <2>1, <2>2, <2>3 DEF OncePerRecord
  <2>7. Atomic!OneEntry(q, Enqueue(q, e))
    BY <2>1, <2>3, <2>4 DEF Atomic!OneEntry
  <2>8. QED BY <2>5, <2>6, <2>7
<1>2. CASE ~Queued(q, e.rec)
  <2>1. Enqueue(q, e) = Append(q, e)
    BY <1>2 DEF Enqueue
  <2>2. /\ Append(q, e) \in Seq(E)
        /\ DOMAIN Append(q, e) = 1..(Len(q) + 1)
        /\ DOMAIN q = 1..Len(q) /\ Len(q) \in Nat
        /\ \A i \in DOMAIN q : Append(q, e)[i] = q[i]
        /\ Append(q, e)[Len(q) + 1] = e
    OBVIOUS
  <2>3. OncePerRecord(Append(q, e))
    BY <1>2, <2>2 DEF OncePerRecord, Queued
  <2>4. Atomic!OneEntry(q, Append(q, e))
    BY <2>2 DEF Atomic!OneEntry
  <2>5. QED BY <2>1, <2>2, <2>3, <2>4
<1>3. QED BY <1>1, <1>2

-----------------------------------------------------------------------------
(***************************************************************************)
(* Batches: a command for the entries 1..m followed by a command for the   *)
(* entries m+1..n is one command for the entries 1..n.                     *)
(***************************************************************************)

\* Deletes compose.
LEMMA DeleteCompose ==
  ASSUME NEW t \in Rows, NEW q, NEW m \in Nat, NEW n \in Nat, m <= n
  PROVE  DeleteRows(DeleteRows(t, q, 1, m), q, m + 1, n) = DeleteRows(t, q, 1, n)
BY DEF DeleteRows, Rows

\* Deletes stay within the table.
LEMMA DeleteType ==
  ASSUME NEW t \in Rows, NEW q, NEW lo, NEW hi
  PROVE  DeleteRows(t, q, lo, hi) \in Rows
BY DEF DeleteRows, Rows

\* Every set of naturals that is not empty has a smallest element.
LEMMA SmallestOfNaturals ==
  ASSUME NEW S \in SUBSET Nat, S # {}
  PROVE  \E x \in S : \A y \in S : x <= y
<1> DEFINE Less == OpToRel(<, Nat)
<1>1. IsWellFoundedOn(Less, Nat)
  BY NatLessThanWellFounded
<1>2. \A x, y \in Nat : x < y => <<x, y>> \in Less
  BY DEF OpToRel
<1> HIDE DEF Less
<1>3. PICK x \in S : \A y \in S : ~ (<<y, x>> \in Less)
  BY <1>1, WFMin
<1>4. ASSUME NEW y \in S
      PROVE  x <= y
  <2>1. x \in Nat /\ y \in Nat
    OBVIOUS
  <2>2. ~ (y < x)
    BY <1>2, <1>3, <2>1
  <2>3. QED BY <2>1, <2>2
<1>5. QED BY <1>4

\* The last of the statements for a row is well defined.
LEMMA LastForLemma ==
  ASSUME NEW q, NEW lo \in Nat, NEW hi \in Nat, NEW k,
         \E i \in lo..hi : q[i].key = k
  PROVE  /\ LastFor(q, lo, hi, k) \in lo..hi
         /\ q[LastFor(q, lo, hi, k)].key = k
         /\ \A j \in lo..hi : q[j].key = k => j <= LastFor(q, lo, hi, k)
<1> DEFINE Distances == {d \in Nat : \E i \in lo..hi : q[i].key = k /\ d = hi - i}
<1>1. PICK d \in Distances : \A other \in Distances : d <= other
  <2>1. Distances \in SUBSET Nat
    OBVIOUS
  <2>2. Distances # {}
    <3>1. PICK i \in lo..hi : q[i].key = k
      OBVIOUS
    <3>2. hi - i \in Distances
      BY <3>1
    <3>3. QED BY <3>2
  <2> HIDE DEF Distances
  <2>3. QED BY <2>1, <2>2, SmallestOfNaturals
<1>2. PICK x \in lo..hi : q[x].key = k /\ d = hi - x
  OBVIOUS
<1>3. ASSUME NEW j \in lo..hi, q[j].key = k
      PROVE  j <= x
  <2>1. hi - j \in Distances
    BY <1>3
  <2>2. d <= hi - j
    BY <1>1, <2>1
  <2>3. d = hi - x /\ x \in Int /\ j \in Int
    BY <1>2
  <2> HIDE DEF Distances
  <2>4. QED BY <2>2, <2>3
<1>4. QED BY <1>2, <1>3 DEF LastFor

\* Updates stay within the table.
LEMMA UpdateType ==
  ASSUME NEW t \in Rows, NEW q, NEW lo \in Nat, NEW hi \in Nat,
         \A i \in lo..hi : q[i].val \in Vals
  PROVE  UpdateRows(t, q, lo, hi) \in Rows
<1>1. ASSUME NEW k \in Keys, \E i \in lo..hi : q[i].key = k
      PROVE  q[LastFor(q, lo, hi, k)].val \in Vals
  BY <1>1, LastForLemma
<1>2. QED BY <1>1 DEF UpdateRows, Rows

\* Updates compose: the last statement of the later batch that addresses a row wins.
LEMMA UpdateCompose ==
  ASSUME NEW t \in Rows, NEW q, NEW m \in Nat, NEW n \in Nat, m <= n,
         \A i \in 1..n : q[i].val \in Vals
  PROVE  UpdateRows(UpdateRows(t, q, 1, m), q, m + 1, n) = UpdateRows(t, q, 1, n)
<1> DEFINE half == UpdateRows(t, q, 1, m)
<1>1. ASSUME NEW k \in Keys
      PROVE  UpdateRows(half, q, m + 1, n)[k] = UpdateRows(t, q, 1, n)[k]
  <2>1. half[k] = IF t[k] # None /\ \E i \in 1..m : q[i].key = k
                  THEN q[LastFor(q, 1, m, k)].val ELSE t[k]
    BY DEF UpdateRows
  <2>2. UpdateRows(half, q, m + 1, n)[k] =
           IF half[k] # None /\ \E i \in (m + 1)..n : q[i].key = k
           THEN q[LastFor(q, m + 1, n, k)].val ELSE half[k]
    BY DEF UpdateRows
  <2>3. UpdateRows(t, q, 1, n)[k] = IF t[k] # None /\ \E i \in 1..n : q[i].key = k
                  THEN q[LastFor(q, 1, n, k)].val ELSE t[k]
    BY DEF UpdateRows
  <2>4. half[k] # None <=> t[k] # None
    <3>1. (\E i \in 1..m : q[i].key = k) => q[LastFor(q, 1, m, k)].val # None
      BY LastForLemma, NoneAssumption
    <3>2. QED BY <2>1, <3>1
  <2> HIDE DEF half
  <2>5. CASE \E i \in (m + 1)..n : q[i].key = k
    <3>1. LastFor(q, 1, n, k) = LastFor(q, m + 1, n, k)
      <4>1. \E i \in 1..n : q[i].key = k
        BY <2>5
      <4>2. /\ LastFor(q, 1, n, k) \in 1..n
            /\ q[LastFor(q, 1, n, k)].key = k
            /\ \A j \in 1..n : q[j].key = k => j <= LastFor(q, 1, n, k)
        BY <4>1, LastForLemma
      <4>3. /\ LastFor(q, m + 1, n, k) \in (m + 1)..n
            /\ q[LastFor(q, m + 1, n, k)].key = k
            /\ \A j \in (m + 1)..n : q[j].key = k => j <= LastFor(q, m + 1, n, k)
        BY <2>5, LastForLemma
      <4>4. QED BY <4>2, <4>3
    <3>2. \E i \in 1..n : q[i].key = k
      BY <2>5
    <3>3. t[k] = None => half[k] = t[k]
      BY <2>1
    <3>4. QED BY <2>2, <2>3, <2>4, <2>5, <3>1, <3>2, <3>3
  <2>6. CASE ~ \E i \in (m + 1)..n : q[i].key = k
    <3>1. UpdateRows(half, q, m + 1, n)[k] = half[k]
      BY <2>2, <2>6
    <3>2. (\E i \in 1..n : q[i].key = k) <=> (\E i \in 1..m : q[i].key = k)
      BY <2>6
    <3>3. ASSUME \E i \in 1..m : q[i].key = k
          PROVE  LastFor(q, 1, n, k) = LastFor(q, 1, m, k)
      <4>1. /\ LastFor(q, 1, n, k) \in 1..n
            /\ q[LastFor(q, 1, n, k)].key = k
            /\ \A j \in 1..n : q[j].key = k => j <= LastFor(q, 1, n, k)
        BY <3>2, <3>3, LastForLemma
      <4>2. /\ LastFor(q, 1, m, k) \in 1..m
            /\ q[LastFor(q, 1, m, k)].key = k
            /\ \A j \in 1..m : q[j].key = k => j <= LastFor(q, 1, m, k)
        BY <3>3, LastForLemma
      <4>3. QED BY <2>6, <4>1, <4>2
    <3>4. QED BY <2>1, <2>3, <3>1, <3>2, <3>3
  <2>7. QED BY <2>5, <2>6
<1>2. QED BY <1>1 DEF UpdateRows

\* Inserts stay within the table.
LEMMA InsertType ==
  ASSUME NEW t \in Rows, NEW q, NEW keys, NEW lo, NEW hi,
         \A i \in lo..hi : q[i].val \in Vals
  PROVE  InsertRows(t, q, keys, lo, hi) \in Rows
BY DEF InsertRows, Rows

\* Inserts compose when no key is used twice.
LEMMA InsertCompose ==
  ASSUME NEW t \in Rows, NEW q, NEW m \in Nat, NEW n \in Nat, m <= n,
         NEW first, NEW second, NEW all,
         \A i \in 1..m : first[i] = all[i],
         \A i \in (m + 1)..n : second[i] = all[i],
         \A i, j \in 1..n : all[i] = all[j] => i = j
  PROVE  InsertRows(InsertRows(t, q, first, 1, m), q, second, m + 1, n)
            = InsertRows(t, q, all, 1, n)
<1> DEFINE half == InsertRows(t, q, first, 1, m)
<1>1. ASSUME NEW k \in Keys
      PROVE  InsertRows(half, q, second, m + 1, n)[k] = InsertRows(t, q, all, 1, n)[k]
  <2>1. half[k] = IF \E i \in 1..m : first[i] = k
                  THEN q[CHOOSE i \in 1..m : first[i] = k].val ELSE t[k]
    BY DEF InsertRows
  <2>2. InsertRows(half, q, second, m + 1, n)[k] =
           IF \E i \in (m + 1)..n : second[i] = k
           THEN q[CHOOSE i \in (m + 1)..n : second[i] = k].val ELSE half[k]
    BY DEF InsertRows
  <2>3. InsertRows(t, q, all, 1, n)[k] =
           IF \E i \in 1..n : all[i] = k
           THEN q[CHOOSE i \in 1..n : all[i] = k].val ELSE t[k]
    BY DEF InsertRows
  <2> HIDE DEF half
  <2>4. CASE \E i \in (m + 1)..n : all[i] = k
    <3>1. PICK x \in (m + 1)..n : all[x] = k
      BY <2>4
    <3>2. (CHOOSE i \in (m + 1)..n : second[i] = k) = x
      BY <3>1
    <3>3. (CHOOSE i \in 1..n : all[i] = k) = x
      BY <3>1
    <3>4. /\ \E i \in (m + 1)..n : second[i] = k
          /\ \E i \in 1..n : all[i] = k
      BY <3>1
    <3>5. QED BY <2>2, <2>3, <3>2, <3>3, <3>4
  <2>5. CASE \E i \in 1..m : all[i] = k
    <3>1. PICK x \in 1..m : all[x] = k
      BY <2>5
    <3>2. ~ \E i \in (m + 1)..n : second[i] = k
      BY <3>1
    <3>3. (CHOOSE i \in 1..m : first[i] = k) = x
      BY <3>1
    <3>4. (CHOOSE i \in 1..n : all[i] = k) = x
      BY <3>1
    <3>5. /\ \E i \in 1..m : first[i] = k
          /\ \E i \in 1..n : all[i] = k
      BY <3>1
    <3>6. QED BY <2>1, <2>2, <2>3, <3>2, <3>3, <3>4, <3>5
  <2>6. CASE ~ \E i \in 1..n : all[i] = k
    BY <2>1, <2>2, <2>3, <2>6
  <2>7. QED BY <2>4, <2>5, <2>6
<1>2. QED BY <1>1 DEF InsertRows

\* Nothing is sent in an empty batch.
LEMMA NothingSent ==
  ASSUME NEW t \in Rows, NEW q, NEW keys
  PROVE  /\ DeleteRows(t, q, 1, 0) = t
         /\ UpdateRows(t, q, 1, 0) = t
         /\ InsertRows(t, q, keys, 1, 0) = t
BY DEF DeleteRows, UpdateRows, InsertRows, Rows
-----------------------------------------------------------------------------
(***************************************************************************)
(* Types.                                                                  *)
(***************************************************************************)

\* What is captured of a record is an entry of the queues.
LEMMA SnapshotType ==
  ASSUME NEW r \in Records, NEW o \in Object
  PROVE  /\ Snapshot(r, o) \in Entry
         /\ Snapshot(r, o).rec = r
BY DEF Snapshot, Object, Entry

\* An object with another key.
LEMMA WithKey ==
  ASSUME NEW o \in Object, NEW k \in Keys \cup {None}
  PROVE  /\ [o EXCEPT !.key = k] \in Object
         /\ [o EXCEPT !.key = k].key = k
         /\ [o EXCEPT !.key = k].val = o.val
BY DEF Object

\* An object with another value.
LEMMA WithVal ==
  ASSUME NEW o \in Object, NEW v \in Vals
  PROVE  [o EXCEPT !.val = v] \in Object
BY DEF Object

\* A record keeps its shape when Add gives it a key.
LEMMA KeyedType ==
  ASSUME TypeOK, NEW r \in Records, obj[r] # None, NeedsKey(r) => nextKey <= MaxKey
  PROVE  Keyed(r) \in Object
<1>1. obj[r] \in Object
  BY DEF TypeOK
<1>2. NeedsKey(r) => nextKey \in Keys
  BY TableAssumption DEF TypeOK
<1>3. NeedsKey(r) => [obj[r] EXCEPT !.key = nextKey] \in Object
  BY <1>1, <1>2, WithKey, Zenon
<1>4. QED BY <1>1, <1>3, Zenon DEF Keyed

\* The end of a chunk lies behind what was sent before, within the queue.
LEMMA ChunkEndLemma ==
  ASSUME TypeOK, NEW q, Len(q) \in Nat, pos < Len(q)
  PROVE  ChunkEnd(q) \in Nat /\ pos < ChunkEnd(q) /\ ChunkEnd(q) <= Len(q)
BY TableAssumption DEF TypeOK, ChunkEnd

\* Each helper reports, for every row of the command, the key that the engine gave to it
\* (ExecuteBatchedInsertWithKeyRetrieval).
THEOREM HelpersReportTheKeys ==
  ASSUME NEW engine \in AllEngines, NEW lo \in Nat, NEW hi \in Nat, lo <= hi,
         NEW values \in SUBSET Int, NEW keys \in Assignments(engine, lo..hi, values)
  PROVE  Retrieved(engine, keys, lo) = keys
<1>1. keys \in [lo..hi -> values]
  BY DEF Assignments
<1>2. ByCorrelation(keys) = keys
  <2>1. ASSUME NEW i \in lo..hi
        PROVE  (CHOOSE out \in Output(keys) : out[1] = i)[2] = keys[i]
    <3>1. <<i, keys[i]>> \in Output(keys)
      BY <1>1 DEF Output
    <3>2. \E out \in Output(keys) : out[1] = i
      BY <3>1
    <3> DEFINE row == CHOOSE out \in Output(keys) : out[1] = i
    <3>3. row \in Output(keys) /\ row[1] = i
      BY <3>2
    <3> HIDE DEF row
    <3>4. row[2] = keys[i]
      BY <3>3 DEF Output
    <3>5. QED BY <3>4 DEF row
  <2>2. QED BY <1>1, <2>1 DEF ByCorrelation
<1>3. engine = "MySQL" => FromLastInsertId(keys, lo) = keys
  <2>1. ASSUME engine = "MySQL", NEW i \in lo..hi
        PROVE  keys[lo] + (i - lo) = keys[i]
    <3>1. lo \in lo..hi
      OBVIOUS
    <3>2. keys[lo] \in values /\ keys[i] \in values
      BY <1>1, <3>1
    <3>3. keys[i] - keys[lo] = i - lo
      BY <2>1, <3>1 DEF Assignments
    <3>4. keys[lo] \in Int /\ keys[i] \in Int
      BY <3>2
    <3> DEFINE a == keys[lo]
               b == keys[i]
    <3>5. a \in Int /\ b \in Int /\ b - a = i - lo
      BY <3>3, <3>4
    <3> HIDE DEF a, b
    <3>6. a + (i - lo) = b
      BY <3>5
    <3>7. QED BY <3>6 DEF a, b
  <2>2. QED BY <1>1, <2>1 DEF FromLastInsertId
<1>4. QED BY <1>2, <1>3 DEF Retrieved, AsReturned, AllEngines

\* The rows of a chunk get these keys, and each record learns its own.
GetsKeys(keys) ==
  /\ DOMAIN keys = (pos + 1)..ChunkEnd(insertCommandValues)
  /\ CanInsert(txRows, keys, pos + 1, ChunkEnd(insertCommandValues))
  /\ txRows' = InsertRows(txRows, insertCommandValues, keys, pos + 1,
                          ChunkEnd(insertCommandValues))
  /\ DbGenerated => obj' = WithGeneratedKeys(insertCommandValues, keys)
  /\ ~DbGenerated => /\ obj' = obj
                     /\ \A i \in DOMAIN keys : keys[i] = insertCommandValues[i].key

\* A chunk of inserts gets keys, whichever engine hands them out.
LEMMA ChunkGetsKeys ==
  ASSUME TypeOK, SendInserts
  PROVE  \E keys : GetsKeys(keys)
<1>1. PICK engine \in Engines, last \in (nextKey - 1)..MaxKey :
          \E keys \in ChunkKeys(engine, last) : InsertChunk(engine, last, keys)
  BY DEF SendInserts
<1>2. PICK keys \in ChunkKeys(engine, last) : InsertChunk(engine, last, keys)
  BY <1>1
<1> DEFINE hi == ChunkEnd(insertCommandValues)
<1>3. pos \in Nat /\ hi \in Nat /\ pos < hi
  BY <1>2, ChunkEndLemma DEF InsertChunk, TypeOK
<1>4. CASE DbGenerated
  <2>1. keys \in Assignments(engine, (pos + 1)..hi, nextKey..last)
    BY <1>4 DEF ChunkKeys, ChunkRows
  <2>2. Retrieved(engine, keys, pos + 1) = keys
    <3>1. engine \in AllEngines /\ (nextKey..last) \in SUBSET Int
      BY TableAssumption DEF TypeOK
    <3> HIDE DEF hi
    <3>2. QED BY <1>3, <2>1, <3>1, HelpersReportTheKeys
  <2>3. DOMAIN keys = (pos + 1)..hi
    BY <2>1 DEF Assignments
  <2>4. GetsKeys(keys)
    BY <1>2, <1>4, <2>2, <2>3 DEF InsertChunk, GetsKeys
  <2>5. QED BY <2>4
<1>5. CASE ~DbGenerated
  <2>1. keys = [i \in (pos + 1)..hi |-> insertCommandValues[i].key]
    BY <1>5 DEF ChunkKeys, ChunkRows
  <2>2. DOMAIN keys = (pos + 1)..hi /\ \A i \in DOMAIN keys : keys[i] = insertCommandValues[i].key
    BY <2>1
  <2>3. GetsKeys(keys)
    BY <1>2, <1>5, <2>2 DEF InsertChunk, GetsKeys
  <2>4. QED BY <2>3
<1>6. QED BY <1>4, <1>5

\* A record gets a generated key, or is left as it was.
LEMMA GeneratedKeysLemma ==
  ASSUME TypeOK, InsertsExist, SendInserts, NEW keys, GetsKeys(keys), NEW r \in Records
  PROVE  LET new == WithGeneratedKeys(insertCommandValues, keys)[r]
         IN new \in Object \/ new = obj[r]
<1>1. /\ ChunkEnd(insertCommandValues) \in Nat
      /\ ChunkEnd(insertCommandValues) <= Len(insertCommandValues)
      /\ pos \in Nat /\ insertCommandValues \in Seq(Entry)
  BY ChunkEndLemma DEF SendInserts, InsertChunk, TypeOK
<1>2. DOMAIN keys = (pos + 1)..ChunkEnd(insertCommandValues)
  BY DEF GetsKeys
<1>3. CASE \E i \in DOMAIN keys : insertCommandValues[i].rec = r
  <2>1. PICK i \in DOMAIN keys :
           i = CHOOSE j \in DOMAIN keys : insertCommandValues[j].rec = r
    BY <1>3
  <2>2. insertCommandValues[i].rec = r
    BY <1>3, <2>1
  <2>3. obj[r] \in Object
    BY <1>1, <1>2, <2>2 DEF TypeOK, InsertsExist
  <2>4. keys[i] \in Keys \cup {None}
    BY <1>2 DEF GetsKeys, CanInsert
  <2>5. WithGeneratedKeys(insertCommandValues, keys)[r]
           = [obj[r] EXCEPT !.key = keys[i]]
    BY <1>3, <2>1, Zenon DEF WithGeneratedKeys
  <2>6. [obj[r] EXCEPT !.key = keys[i]] \in Object
    BY <2>3, <2>4, WithKey, Zenon
  <2>7. QED BY <2>5, <2>6, Zenon
<1>4. CASE ~ \E i \in DOMAIN keys : insertCommandValues[i].rec = r
  BY <1>4, Zenon DEF WithGeneratedKeys
<1>5. QED BY <1>3, <1>4

\* Every step keeps the types, if the records in the insert queue exist.
LEMMA TypeStep ==
  ASSUME TypeOK, SaveInvariant, [Next]_vars
  PROVE  TypeOK'
<1> USE DEF TypeOK, memory, queues, store, saving
<1>1. ASSUME NEW r \in Records, NEW k \in Keys \cup {None}, NEW v \in Vals,
             Construct(r, k, v)
      PROVE  TypeOK'
  BY <1>1 DEF Construct, Object
<1>2. ASSUME NEW r \in Records, NEW v \in Vals, Assign(r, v)
      PROVE  TypeOK'
  <2>1. [obj[r] EXCEPT !.val = v] \in Object
    <3>1. obj[r] \in Object
      BY <1>2 DEF Assign
    <3>2. QED BY <3>1, WithVal, Zenon
  <2>2. QED BY <1>2, <2>1 DEF Assign
<1>3. ASSUME NEW r \in Records, NEW k \in Keys, AssignKey(r, k)
      PROVE  TypeOK'
  <2>1. [obj[r] EXCEPT !.key = k] \in Object
    <3>1. obj[r] \in Object
      BY <1>3 DEF AssignKey
    <3>2. QED BY <3>1, WithKey, Zenon
  <2>2. QED BY <1>3, <2>1 DEF AssignKey
<1>4. ASSUME NEW r \in Records, NEW ending \in Endings, Add(r, ending)
      PROVE  TypeOK'
  <2>1. Keyed(r) \in Object
    BY <1>4, KeyedType DEF Add
  <2>2. /\ Enqueue(insertCommandValues, Snapshot(r, Keyed(r))) \in Seq(Entry)
        /\ OncePerRecord(Enqueue(insertCommandValues, Snapshot(r, Keyed(r))))
    BY <2>1, SnapshotType, EnqueueLemma
  <2>3. insertCommandValues' \in Seq(Entry) /\ OncePerRecord(insertCommandValues)'
    BY <1>4, <2>2 DEF Add
  <2>4. obj' \in [Records -> Object \cup {None}] /\ nextKey' \in Nat \ {0}
    <3>1. obj' \in {obj, [obj EXCEPT ![r] = Keyed(r)]}
      BY <1>4 DEF Add
    <3>2. nextKey' \in {nextKey, nextKey + 1}
      BY <1>4 DEF Add
    <3>3. QED BY <2>1, <3>1, <3>2
  <2>5. data' \in Seq(Records) /\ indexedData' \in [Records -> Nat]
    <3>1. data' \in Seq(Records) /\ Len(data') \in Nat
      BY <1>4 DEF Add
    <3>2. indexedData' \in {indexedData, [indexedData EXCEPT ![r] = Len(data')]}
      BY <1>4, Zenon DEF Add
    <3>3. QED BY <3>1, <3>2
  <2>6. modified' \in BOOLEAN
    BY <1>4, Zenon DEF Add
  <2>7. QED BY <1>4, <2>3, <2>4, <2>5, <2>6 DEF Add
<1>5. ASSUME NEW r \in Records, NEW ending \in Endings, Update(r, ending)
      PROVE  TypeOK'
  <2>1. obj[r] \in Object
    BY <1>5 DEF Update
  <2>2. /\ updateCommandValues' \in Seq(Entry)
        /\ OncePerRecord(updateCommandValues)'
    BY <1>5, <2>1, SnapshotType, EnqueueLemma DEF Update
  <2>3. data' \in Seq(Records)
    BY <1>5 DEF Update
  <2>4. QED BY <1>5, <2>2, <2>3 DEF Update
<1>6. ASSUME NEW r \in Records, NEW ending \in Endings, Delete(r, ending)
      PROVE  TypeOK'
  <2>1. [rec |-> r, key |-> obj[r].key] \in DeleteEntry
    BY <1>6 DEF Delete, Object, DeleteEntry
  <2>2. /\ deleteCommandValues' \in Seq(DeleteEntry)
        /\ OncePerRecord(deleteCommandValues)'
    BY <1>6, <2>1, EnqueueLemma DEF Delete
  <2>3. data' \in Seq(Records)
    <3>1. indexedData[r] # 0 => WithoutPosition(data, indexedData[r]) \in Seq(Records)
      BY <1>6 DEF Delete, WithoutPosition
    <3>2. QED BY <1>6, <3>1 DEF Delete
  <2>4. modified' \in BOOLEAN
    BY <1>6, Zenon DEF Delete
  <2>5. indexedData' \in [Records -> Nat]
    BY <1>6 DEF Delete
  <2>6. QED BY <1>6, <2>2, <2>3, <2>4, <2>5 DEF Delete
<1>7. ASSUME NEW clearExistingData \in BOOLEAN, Load(clearExistingData)
      PROVE  TypeOK'
  <2> DEFINE kept == IF clearExistingData THEN <<>> ELSE data
  <2>1. PICK selected \in SUBSET {k \in Keys : txRows[k] # None}, new \in SUBSET Unborn :
             /\ Cardinality(new) = Cardinality(selected)
             /\ \E keyAt \in Listings(selected), recAt \in Listings(new) :
                   ReadRows(kept, keyAt, recAt)
    BY <1>7, Zenon DEF Load
  <2>2. PICK keyAt \in Listings(selected), recAt \in Listings(new) :
             ReadRows(kept, keyAt, recAt)
    BY <2>1
  <2>3. Cardinality(new) \in Nat /\ Cardinality(new) = Cardinality(selected)
    <3>1. IsFiniteSet(Keys)
      BY FS_Interval, TableAssumption
    <3>2. IsFiniteSet(selected)
      BY <3>1, FS_Subset
    <3>3. QED BY <2>1, <3>2, FS_CardinalityType
  <2>4. recAt \in Seq(Records) /\ DOMAIN keyAt = DOMAIN recAt
    <3>1. /\ recAt \in [1..Cardinality(new) -> new]
          /\ keyAt \in [1..Cardinality(selected) -> selected]
      BY Zenon DEF Listings
    <3>2. new \subseteq Records
      BY DEF Unborn
    <3>3. recAt \in Seq(Records)
      <4> DEFINE n == Cardinality(new)
      <4>1. n \in Nat /\ recAt \in [1..n -> Records]
        BY <2>3, <3>1, <3>2
      <4> HIDE DEF n
      <4>2. QED BY <4>1
    <3>4. QED BY <2>3, <3>1, <3>3, Zenon
  <2>5. \A i \in DOMAIN keyAt : keyAt[i] \in Keys /\ txRows[keyAt[i]] \in Vals
    <3>1. keyAt \in [1..Cardinality(selected) -> selected]
      BY Zenon DEF Listings
    <3>2. \A k \in selected : k \in Keys /\ txRows[k] \in Vals
      BY DEF Rows
    <3>3. QED BY <3>1, <3>2, Zenon
  <2>6. obj' \in [Records -> Object \cup {None}]
    <3>1. ASSUME NEW r \in Records
          PROVE  obj'[r] \in Object \cup {None}
      <4>1. CASE \E i \in DOMAIN recAt : recAt[i] = r
        <5>1. PICK i \in DOMAIN recAt : i = CHOOSE j \in DOMAIN recAt : recAt[j] = r
          BY <4>1
        <5>2. obj'[r] = [key |-> keyAt[i], val |-> txRows[keyAt[i]]]
          BY <2>2, <4>1, <5>1 DEF ReadRows
        <5>3. QED BY <2>4, <2>5, <5>2 DEF Object
      <4>2. CASE ~ \E i \in DOMAIN recAt : recAt[i] = r
        BY <2>2, <4>2 DEF ReadRows
      <4>3. QED BY <4>1, <4>2
    <3>2. QED BY <2>2, <3>1 DEF ReadRows
  <2>7. data' \in Seq(Records)
    BY <2>2, <2>4 DEF ReadRows
  <2>8. QED BY <1>7, <2>6, <2>7 DEF Load
<1>8. CASE ClearData
  BY <1>8 DEF ClearData
<1>9. CASE BeginSave
  BY <1>9 DEF BeginSave, Queues, Pending
<1>10. CASE SendDeletes
  BY <1>10, DeleteType, ChunkEndLemma DEF SendDeletes
<1>11. CASE EndDeletes
  BY <1>11 DEF EndDeletes, OncePerRecord
<1>12. CASE SendUpdates
  <2>1. /\ ChunkEnd(updateCommandValues) \in Nat
        /\ ChunkEnd(updateCommandValues) <= Len(updateCommandValues)
    BY <1>12, ChunkEndLemma DEF SendUpdates
  <2>2. \A i \in (pos + 1)..ChunkEnd(updateCommandValues) :
           updateCommandValues[i].val \in Vals
    <3>1. ASSUME NEW i \in (pos + 1)..ChunkEnd(updateCommandValues)
          PROVE  updateCommandValues[i] \in Entry
      BY <2>1
    <3>2. QED BY <3>1 DEF Entry
  <2>3. txRows' \in Rows
    <3>1. pos + 1 \in Nat /\ txRows \in Rows
      OBVIOUS
    <3>2. UpdateRows(txRows, updateCommandValues, pos + 1,
                     ChunkEnd(updateCommandValues)) \in Rows
      BY <2>1, <2>2, <3>1, UpdateType, Zenon
    <3>3. QED BY <1>12, <3>2, Zenon DEF SendUpdates
  <2>4. QED BY <1>12, <2>1, <2>3 DEF SendUpdates
<1>13. CASE EndUpdates
  BY <1>13 DEF EndUpdates, OncePerRecord
<1>14. CASE SendInserts
  <2>1. /\ ChunkEnd(insertCommandValues) \in Nat /\ pos < ChunkEnd(insertCommandValues)
        /\ ChunkEnd(insertCommandValues) <= Len(insertCommandValues)
    BY <1>14, ChunkEndLemma DEF SendInserts, InsertChunk
  <2>2. \A i \in (pos + 1)..ChunkEnd(insertCommandValues) :
           insertCommandValues[i].val \in Vals
    <3>1. ASSUME NEW i \in (pos + 1)..ChunkEnd(insertCommandValues)
          PROVE  insertCommandValues[i] \in Entry
      BY <2>1
    <3>2. QED BY <3>1 DEF Entry
  <2>3. PICK keys : GetsKeys(keys)
    BY <1>14, ChunkGetsKeys
  <2>4. txRows' \in Rows
    BY <2>2, <2>3, InsertType DEF GetsKeys
  <2>5. nextKey' \in Nat \ {0} /\ pos' \in Nat
    <3>1. pos' \in Nat
      BY <1>14, <2>1 DEF SendInserts, InsertChunk
    <3>2. nextKey' \in Nat \ {0}
      <4>1. PICK last \in (nextKey - 1)..MaxKey : nextKey' \in {nextKey, last + 1}
        BY <1>14 DEF SendInserts, InsertChunk
      <4>2. QED BY <4>1, TableAssumption
    <3>3. QED BY <3>1, <3>2
  <2>6. ASSUME NEW r \in Records
        PROVE  WithGeneratedKeys(insertCommandValues, keys)[r] \in Object \cup {None}
    BY <1>14, <2>3, GeneratedKeysLemma DEF SaveInvariant
  <2>7. obj' \in [Records -> Object \cup {None}]
    <3>1. WithGeneratedKeys(insertCommandValues, keys)
             \in [Records -> Object \cup {None}]
      BY <2>6, Zenon DEF WithGeneratedKeys
    <3>2. QED BY <2>3, <3>1 DEF GetsKeys
  <2>8. QED BY <1>14, <2>4, <2>5, <2>7 DEF SendInserts, InsertChunk
<1>15. CASE EndInserts
  BY <1>15 DEF EndInserts, OncePerRecord
<1>16. CASE Commit
  BY <1>16 DEF Commit
<1>17. CASE EndSave
  BY <1>17 DEF EndSave
<1>18. CASE FailSave
  BY <1>18 DEF FailSave
<1>19. CASE CancelSave
  BY <1>19 DEF CancelSave
<1>20. CASE UNCHANGED vars
  BY <1>20 DEF vars, OncePerRecord
<1>21. QED
  BY <1>1, <1>2, <1>3, <1>4, <1>5, <1>6, <1>7, <1>8, <1>9, <1>10, <1>11, <1>12,
     <1>13, <1>14, <1>15, <1>16, <1>17, <1>18, <1>19, <1>20
     DEF Next, ObjectStep, TableStep, SaveStep, ForwardStep
-----------------------------------------------------------------------------
(***************************************************************************)
(* The invariant of Save.                                                  *)
(***************************************************************************)

\* What Save started from.
LEMMA BeganLemma ==
  ASSUME TypeOK, began # None
  PROVE  /\ began.del \in Seq(DeleteEntry) /\ Len(began.del) \in Nat
         /\ began.upd \in Seq(Entry) /\ Len(began.upd) \in Nat
         /\ began.ins \in Seq(Entry) /\ Len(began.ins) \in Nat
         /\ \A i \in 1..Len(began.upd) : began.upd[i].val \in Vals
         /\ \A i \in 1..Len(began.ins) : began.ins[i].val \in Vals
         /\ AfterDeletes(Len(began.del)) \in Rows
         /\ AfterUpdates(Len(began.upd)) \in Rows
<1>1. began \in [del : Seq(DeleteEntry), upd : Seq(Entry), ins : Seq(Entry)]
  BY DEF TypeOK, Pending
<1>2. /\ began.del \in Seq(DeleteEntry) /\ Len(began.del) \in Nat
      /\ began.upd \in Seq(Entry) /\ Len(began.upd) \in Nat
      /\ began.ins \in Seq(Entry) /\ Len(began.ins) \in Nat
  BY <1>1
<1>3. ASSUME NEW q \in Seq(Entry), NEW i \in 1..Len(q)
      PROVE  q[i].val \in Vals
  <2>1. q[i] \in Entry
    OBVIOUS
  <2>2. QED BY <2>1 DEF Entry
<1>4. \A i \in 1..Len(began.upd) : began.upd[i].val \in Vals
  BY <1>2, <1>3
<1>5. \A i \in 1..Len(began.ins) : began.ins[i].val \in Vals
  BY <1>2, <1>3
<1>6. AfterDeletes(Len(began.del)) \in Rows
  BY DeleteType DEF TypeOK, AfterDeletes
<1>7. AfterUpdates(Len(began.upd)) \in Rows
  BY <1>2, <1>4, <1>6, UpdateType DEF AfterUpdates
<1>8. QED BY <1>2, <1>4, <1>5, <1>6, <1>7

\* A chunk of inserts leaves the keys of the rows inserted before as they were, and its
\* own rows get the keys of the chunk, which are new.
LEMMA ChunkOfInserts ==
  ASSUME IInv, SendInserts, NEW sent, GetsKeys(sent)
  PROVE  /\ \A i \in 1..pos : InsertedKeys'[i] = InsertedKeys[i]
         /\ \A i \in (pos + 1)..pos' : InsertedKeys'[i] = sent[i]
         /\ CanInsert(AfterUpdates(Len(began.upd)), InsertedKeys', 1, pos')
<1> USE DEF IInv
<1>1. /\ pos' = ChunkEnd(insertCommandValues) /\ pos \in Nat /\ pos' \in Nat
      /\ pos < pos' /\ pos' <= Len(insertCommandValues)
      /\ insertCommandValues = began.ins /\ began' = began /\ began # None
      /\ insertCommandValues \in Seq(Entry) /\ OncePerRecord(insertCommandValues)
  BY ChunkEndLemma DEF SendInserts, InsertChunk, SaveInvariant, InTransaction, TypeOK
<1>2. DOMAIN sent = (pos + 1)..pos'
  BY <1>1 DEF GetsKeys
<1>3. ASSUME NEW i \in 1..pos
      PROVE  InsertedKeys'[i] = InsertedKeys[i]
  <2>1. i \in 1..Len(began.ins)
    BY <1>1
  <2>2. CASE DbGenerated
    <3>1. began.ins[i].rec \in Records
      <4>1. began.ins[i] \in Entry
        BY <1>1, <2>1
      <4>2. QED BY <4>1 DEF Entry
    <3>2. ~ \E j \in DOMAIN sent : began.ins[j].rec = began.ins[i].rec
      BY <1>1, <1>2 DEF OncePerRecord
    <3>3. obj' = WithGeneratedKeys(began.ins, sent)
      BY <1>1, <2>2 DEF GetsKeys
    <3>4. obj'[began.ins[i].rec] = obj[began.ins[i].rec]
      BY <3>1, <3>2, <3>3, Zenon DEF WithGeneratedKeys
    <3>5. QED BY <1>1, <2>1, <2>2, <3>4 DEF InsertedKeys
  <2>3. CASE ~DbGenerated
    BY <1>1, <2>1, <2>3 DEF InsertedKeys
  <2>4. QED BY <2>2, <2>3
<1>4. ASSUME NEW i \in (pos + 1)..pos'
      PROVE  InsertedKeys'[i] = sent[i]
  <2>1. i \in 1..Len(began.ins) /\ i \in DOMAIN sent
    BY <1>1, <1>2
  <2>2. CASE DbGenerated
    <3>1. began.ins[i] \in Entry
      BY <1>1, <2>1
    <3>2. began.ins[i].rec \in Records /\ obj[began.ins[i].rec] # None
      BY <1>1, <2>1, <3>1 DEF Entry, SaveInvariant, InsertsExist
    <3>3. \A j \in DOMAIN sent : began.ins[j].rec = began.ins[i].rec => j = i
      BY <1>1, <1>2, <2>1 DEF OncePerRecord
    <3>4. (CHOOSE j \in DOMAIN sent : began.ins[j].rec = began.ins[i].rec) = i
      BY <2>1, <3>3
    <3>5. obj' = WithGeneratedKeys(began.ins, sent)
      BY <1>1, <2>2 DEF GetsKeys
    <3>6. obj'[began.ins[i].rec] = [obj[began.ins[i].rec] EXCEPT !.key = sent[i]]
      BY <2>1, <3>2, <3>4, <3>5, Zenon DEF WithGeneratedKeys
    <3>7. obj'[began.ins[i].rec].key = sent[i]
      <4>1. obj[began.ins[i].rec] \in Object
        BY <3>2 DEF TypeOK
      <4>2. sent[i] \in Keys \cup {None}
        BY <1>1 DEF GetsKeys, CanInsert
      <4>3. [obj[began.ins[i].rec] EXCEPT !.key = sent[i]].key = sent[i]
        BY <4>1, <4>2, WithKey, Zenon
      <4>4. QED BY <3>6, <4>3, Zenon
    <3>8. QED BY <1>1, <2>1, <2>2, <3>7 DEF InsertedKeys
  <2>3. CASE ~DbGenerated
    BY <1>1, <2>1, <2>3 DEF InsertedKeys, GetsKeys
  <2>4. QED BY <2>2, <2>3
<1>5. CanInsert(AfterUpdates(Len(began.upd)), InsertedKeys', 1, pos')
  <2> DEFINE t == AfterUpdates(Len(began.upd))
             keys == InsertedKeys
             new == InsertedKeys'
  <2>1. CanInsert(t, keys, 1, pos) /\ CanInsert(txRows, sent, pos + 1, pos')
    BY <1>1 DEF SendInserts, InsertChunk, GetsKeys, SaveInvariant
  <2>2. txRows = InsertRows(t, began.ins, keys, 1, pos)
    BY DEF SendInserts, InsertChunk, BatchesAddUp, AfterInserts
  <2>3. \A i \in 1..pos : began.ins[i].val # None
    BY <1>1, BeganLemma, NoneAssumption
  <2>4. (\A i \in 1..pos : new[i] = keys[i]) /\ (\A i \in (pos + 1)..pos' : new[i] = sent[i])
    BY <1>3, <1>4
  <2> HIDE DEF t, keys, new
  <2>5. ASSUME NEW k \in Keys, txRows[k] = None
        PROVE  t[k] = None /\ \A i \in 1..pos : keys[i] # k
    <3>1. \A i \in 1..pos : keys[i] # k
      <4>1. SUFFICES ASSUME NEW i \in 1..pos, keys[i] = k PROVE FALSE
        OBVIOUS
      <4>2. \E j \in 1..pos : keys[j] = k
        BY <4>1
      <4>3. PICK j \in 1..pos : j = CHOOSE x \in 1..pos : keys[x] = k
        BY <4>2
      <4>4. txRows[k] = began.ins[j].val
        BY <2>2, <4>2, <4>3 DEF InsertRows
      <4>5. QED BY <2>3, <2>5, <4>4
    <3>2. QED BY <2>2, <2>5, <3>1 DEF InsertRows
  <2>6. ASSUME NEW i \in 1..pos'
        PROVE  new[i] \in Keys /\ t[new[i]] = None
    <3>1. CASE i \in 1..pos
      BY <2>1, <2>4, <3>1 DEF CanInsert
    <3>2. CASE i \in (pos + 1)..pos'
      BY <2>1, <2>4, <2>5, <3>2 DEF CanInsert
    <3>3. QED BY <1>1, <3>1, <3>2
  <2>7. ASSUME NEW i \in 1..pos', NEW j \in 1..pos', new[i] = new[j]
        PROVE  i = j
    <3>1. ASSUME NEW x \in 1..pos, NEW y \in (pos + 1)..pos'
          PROVE  new[x] # new[y]
      BY <2>1, <2>4, <2>5 DEF CanInsert
    <3>2. CASE i \in 1..pos /\ j \in 1..pos
      BY <2>1, <2>4, <2>7, <3>2 DEF CanInsert
    <3>3. CASE i \in (pos + 1)..pos' /\ j \in (pos + 1)..pos'
      BY <2>1, <2>4, <2>7, <3>3 DEF CanInsert
    <3>4. QED BY <1>1, <2>7, <3>1, <3>2, <3>3
  <2>8. CanInsert(t, new, 1, pos')
    BY <2>6, <2>7 DEF CanInsert
  <2>9. QED BY <2>8, Zenon DEF t, new
<1>6. QED BY <1>3, <1>4, <1>5
\* Initially nothing is pending and no Save is in progress.
LEMMA InitInvariant == Init => IInv
<1> SUFFICES ASSUME Init PROVE IInv
  OBVIOUS
<1>1. TypeOK
  <2>1. nextKey \in Nat \ {0}
    BY TableAssumption DEF Init
  <2>2. db \in Rows
    BY DEF Init
  <2>3. \A E : <<>> \in Seq(E) /\ OncePerRecord(<<>>)
    BY DEF OncePerRecord
  <2>4. QED BY <2>1, <2>2, <2>3 DEF Init, TypeOK
<1>2. SaveInvariant
  BY DEF Init, SaveInvariant, InTransaction, InsertsExist
<1>3. BatchesAddUp
  BY DEF Init, BatchesAddUp
<1>4. QED BY <1>1, <1>2, <1>3 DEF IInv

\* Records do not disappear, and Add queues a record that exists.
LEMMA InsertsExistStep ==
  ASSUME IInv, [Next]_vars
  PROVE  InsertsExist'
<1>0. TypeOK /\ SaveInvariant /\ InsertsExist
  BY DEF IInv, SaveInvariant
<1> USE DEF memory, queues, store, saving
<1>1. \A i \in DOMAIN insertCommandValues : insertCommandValues[i].rec \in Records
  <2>1. SUFFICES ASSUME NEW i \in DOMAIN insertCommandValues
                 PROVE  insertCommandValues[i].rec \in Records
    OBVIOUS
  <2>2. insertCommandValues[i] \in Entry
    BY <1>0 DEF TypeOK
  <2>3. QED BY <2>2 DEF Entry
<1>2. ASSUME UNCHANGED insertCommandValues,
             \A r \in Records : obj[r] # None => obj'[r] # None
      PROVE  InsertsExist'
  BY <1>0, <1>1, <1>2 DEF InsertsExist
<1>3. ASSUME insertCommandValues' = <<>>
      PROVE  InsertsExist'
  BY <1>3 DEF InsertsExist
<1>4. None \notin Object
  BY TableAssumption
<1>5. ASSUME UNCHANGED insertCommandValues, NEW r \in Records, NEW o \in Object,
             obj' = [obj EXCEPT ![r] = o]
      PROVE  InsertsExist'
  BY <1>0, <1>2, <1>4, <1>5 DEF TypeOK
<1>6. ASSUME NEW r \in Records, NEW k \in Keys \cup {None}, NEW v \in Vals,
             Construct(r, k, v)
      PROVE  InsertsExist'
  BY <1>5, <1>6 DEF Construct, Object
<1>7. ASSUME NEW r \in Records, NEW v \in Vals, Assign(r, v)
      PROVE  InsertsExist'
  <2>1. obj[r] \in Object
    BY <1>0, <1>7 DEF Assign, TypeOK
  <2>2. [obj[r] EXCEPT !.val = v] \in Object
    BY <2>1, WithVal, Zenon
  <2>3. QED BY <1>5, <1>7, <2>2 DEF Assign
<1>8. ASSUME NEW r \in Records, NEW k \in Keys, AssignKey(r, k)
      PROVE  InsertsExist'
  <2>1. obj[r] \in Object
    BY <1>0, <1>8 DEF AssignKey, TypeOK
  <2>2. [obj[r] EXCEPT !.key = k] \in Object
    BY <2>1, WithKey, Zenon
  <2>3. QED BY <1>5, <1>8, <2>2 DEF AssignKey
<1>9. ASSUME NEW r \in Records, NEW ending \in Endings, Add(r, ending)
      PROVE  InsertsExist'
  <2>1. Keyed(r) \in Object /\ Snapshot(r, Keyed(r)).rec = r
    BY <1>0, <1>9, KeyedType, SnapshotType DEF Add
  <2>2. \/ UNCHANGED <<obj, insertCommandValues>>
        \/ /\ obj' = [obj EXCEPT ![r] = Keyed(r)]
           /\ insertCommandValues' = Enqueue(insertCommandValues, Snapshot(r, Keyed(r)))
    BY <1>9 DEF Add
  <2>3. CASE UNCHANGED <<obj, insertCommandValues>>
    BY <1>2, <2>3
  <2>4. CASE /\ obj' = [obj EXCEPT ![r] = Keyed(r)]
             /\ insertCommandValues' = Enqueue(insertCommandValues, Snapshot(r, Keyed(r)))
    <3>1. ASSUME NEW i \in DOMAIN insertCommandValues'
          PROVE  \/ insertCommandValues'[i].rec = r
                 \/ /\ i \in DOMAIN insertCommandValues
                    /\ insertCommandValues'[i] = insertCommandValues[i]
      BY <1>0, <2>1, <2>4 DEF Enqueue, TypeOK
    <3>2. QED BY <1>0, <1>1, <1>4, <2>1, <2>4, <3>1 DEF InsertsExist, TypeOK
  <2>5. QED BY <2>2, <2>3, <2>4
<1>10. ASSUME NEW clearExistingData \in BOOLEAN, Load(clearExistingData)
       PROVE  InsertsExist'
  <2> DEFINE kept == IF clearExistingData THEN <<>> ELSE data
  <2>1. PICK selected \in SUBSET {k \in Keys : txRows[k] # None}, new \in SUBSET Unborn :
             \E keyAt \in Listings(selected), recAt \in Listings(new) :
                ReadRows(kept, keyAt, recAt)
    BY <1>10, Zenon DEF Load
  <2>2. PICK keyAt \in Listings(selected), recAt \in Listings(new) :
             ReadRows(kept, keyAt, recAt)
    BY <2>1
  <2>3. \A r \in Records : obj[r] # None => obj'[r] # None
    BY <2>2 DEF ReadRows, Listings, Unborn
  <2>4. QED BY <1>2, <1>10, <2>3 DEF Load
<1>11. CASE SendInserts
  <2>1. PICK keys : GetsKeys(keys)
    BY <1>0, <1>11, ChunkGetsKeys
  <2>2. ASSUME NEW r \in Records, obj[r] # None
        PROVE  obj'[r] # None
    <3>1. CASE DbGenerated
      BY <1>0, <1>4, <1>11, <2>1, <2>2, <3>1, GeneratedKeysLemma DEF GetsKeys
    <3>2. CASE ~DbGenerated
      BY <2>1, <2>2, <3>2 DEF GetsKeys
    <3>3. QED BY <3>1, <3>2
  <2>3. QED BY <1>2, <1>11, <2>2 DEF SendInserts, InsertChunk
<1>12. CASE EndInserts
  BY <1>3, <1>12 DEF EndInserts
<1>13. ASSUME UNCHANGED <<obj, insertCommandValues>>
       PROVE  InsertsExist'
  BY <1>2, <1>13
<1>14. QED
  BY <1>6, <1>7, <1>8, <1>9, <1>10, <1>11, <1>12, <1>13
     DEF Next, ObjectStep, TableStep, SaveStep, ForwardStep, Update, Delete, ClearData, BeginSave,
         SendDeletes, EndDeletes, SendUpdates, EndUpdates, Commit, EndSave, FailSave,
         CancelSave, vars

\* The calls between two Saves leave the database and the transaction alone.
LEMMA BetweenSaves ==
  ASSUME ObjectStep \/ TableStep
  PROVE  /\ pc = "idle" /\ pc' = "idle" /\ pos' = pos /\ began' = began
         /\ db' = db /\ txRows' = txRows /\ txOpen' = txOpen
<1> USE DEF memory, queues, store, saving, Idle
<1>1. CASE ObjectStep
  BY <1>1 DEF ObjectStep, Construct, Assign, AssignKey
<1>2. CASE TableStep
  BY <1>2 DEF TableStep, Add, Update, Delete, Load, ClearData
<1>3. QED BY <1>1, <1>2

\* Every step keeps what a Save relies on.
LEMMA SaveInvariantStep ==
  ASSUME IInv, [Next]_vars
  PROVE  SaveInvariant'
<1>0. TypeOK /\ SaveInvariant /\ BatchesAddUp /\ InsertsExist'
  BY InsertsExistStep DEF IInv
<1> USE DEF SaveInvariant, InTransaction, memory, queues, store, saving
<1>1. CASE ObjectStep \/ TableStep
  BY <1>0, <1>1, BetweenSaves
<1>2. CASE BeginSave
  <2>1. Queues \in Pending /\ Queues # None
    BY <1>0, TableAssumption DEF Queues, Pending, TypeOK
  <2>2. began' = began \/ began' # None
    BY <1>2, <2>1 DEF BeginSave
  <2>3. QED BY <1>0, <1>2, <2>1 DEF BeginSave, Idle, Queues, TypeOK
<1>3. CASE SendDeletes
  BY <1>0, <1>3, ChunkEndLemma DEF SendDeletes, TypeOK
<1>4. CASE EndDeletes
  BY <1>0, <1>4 DEF EndDeletes, TypeOK
<1>5. CASE SendUpdates
  BY <1>0, <1>5, ChunkEndLemma DEF SendUpdates, TypeOK
<1>6. CASE EndUpdates
  <2>1. pc' = "insert" => CanInsert(AfterUpdates(Len(began.upd)), InsertedKeys, 1, pos)'
    BY <1>6 DEF EndUpdates, CanInsert
  <2>2. QED BY <1>0, <1>6, <2>1 DEF EndUpdates, TypeOK
<1>7. CASE SendInserts
  <2>1. PICK keys : GetsKeys(keys)
    BY <1>0, <1>7, ChunkGetsKeys
  <2>2. CanInsert(AfterUpdates(Len(began.upd)), InsertedKeys', 1, pos')
    BY <1>7, <2>1, ChunkOfInserts
  <2>3. AfterUpdates(Len(began.upd))' = AfterUpdates(Len(began.upd))
    BY <1>7 DEF SendInserts, InsertChunk, AfterUpdates, AfterDeletes
  <2>4. QED BY <1>0, <1>7, <2>2, <2>3, ChunkEndLemma DEF SendInserts, InsertChunk, TypeOK
<1>8. CASE EndInserts
  <2>1. CanInsert(AfterUpdates(Len(began.upd)), InsertedKeys, 1, Len(began.ins))'
    BY <1>0, <1>8 DEF EndInserts, AfterUpdates, AfterDeletes, InsertedKeys
  <2>2. QED BY <1>0, <1>8, <2>1 DEF EndInserts
<1>9. CASE Commit
  BY <1>0, <1>9 DEF Commit
<1>10. CASE EndSave
  BY <1>0, <1>10 DEF EndSave
<1>11. CASE FailSave
  BY <1>0, <1>11 DEF FailSave
<1>12. CASE CancelSave
  BY <1>0, <1>12 DEF CancelSave
<1>13. CASE UNCHANGED vars
  BY <1>0, <1>13 DEF vars, InsertedKeys, AfterUpdates, AfterDeletes
<1>14. QED
  BY <1>1, <1>2, <1>3, <1>4, <1>5, <1>6, <1>7, <1>8, <1>9, <1>10, <1>11, <1>12, <1>13
     DEF Next, SaveStep, ForwardStep

\* Every step keeps the rows of the transaction in line with the entries that were sent.
LEMMA BatchesAddUpStep ==
  ASSUME IInv, [Next]_vars
  PROVE  BatchesAddUp'
<1>0. TypeOK /\ SaveInvariant /\ BatchesAddUp
  BY DEF IInv
<1> USE DEF BatchesAddUp, AfterDeletes, AfterUpdates, AfterInserts, memory, queues,
            store, saving
<1>1. CASE ObjectStep \/ TableStep
  BY <1>1, BetweenSaves
<1>2. CASE BeginSave
  <2>1. pc' = "delete" => txRows = db
    BY <1>0, <1>2 DEF BeginSave, SaveInvariant
  <2>2. DeleteRows(db, began'.del, 1, 0) = db
    BY <1>0, NothingSent DEF TypeOK
  <2>3. QED BY <1>2, <2>1, <2>2 DEF BeginSave, Idle
<1>3. CASE SendDeletes
  <2> DEFINE n == ChunkEnd(deleteCommandValues)
  <2>1. pos \in Nat /\ n \in Nat /\ pos <= n /\ db \in Rows
    <3>1. Len(deleteCommandValues) \in Nat /\ pos < Len(deleteCommandValues)
      BY <1>0, <1>3 DEF SendDeletes, TypeOK
    <3>2. n \in Nat /\ pos < n
      BY <1>0, <3>1, ChunkEndLemma
    <3>3. QED BY <1>0, <3>2 DEF TypeOK
  <2>2. /\ deleteCommandValues = began.del /\ txRows = DeleteRows(db, began.del, 1, pos)
        /\ txRows' = DeleteRows(txRows, began.del, pos + 1, n)
        /\ pos' = n /\ pc' = "delete" /\ db' = db /\ began' = began
    BY <1>0, <1>3 DEF SendDeletes, SaveInvariant
  <2> HIDE DEF n
  <2>3. txRows' = DeleteRows(db, began.del, 1, n)
    BY <2>1, <2>2, DeleteCompose
  <2>4. QED BY <2>2, <2>3
<1>4. CASE EndDeletes
  <2>1. began # None
    BY <1>0, <1>4 DEF EndDeletes, SaveInvariant, InTransaction
  <2>2. AfterDeletes(Len(began.del)) \in Rows
    BY <1>0, <2>1, BeganLemma
  <2>3. UpdateRows(AfterDeletes(Len(began.del)), began.upd, 1, 0)
           = AfterDeletes(Len(began.del))
    BY <2>2, NothingSent
  <2>4. QED BY <1>0, <1>4, <2>3 DEF EndDeletes, SaveInvariant
<1>5. CASE SendUpdates
  <2> DEFINE n == ChunkEnd(updateCommandValues)
             t == DeleteRows(db, began.del, 1, Len(began.del))
  <2>1. began # None /\ updateCommandValues = began.upd
    BY <1>0, <1>5 DEF SendUpdates, SaveInvariant, InTransaction
  <2>2. pos \in Nat /\ n \in Nat /\ pos <= n /\ n <= Len(began.upd)
    BY <1>0, <1>5, <2>1, BeganLemma, ChunkEndLemma DEF SendUpdates, TypeOK
  <2>3. /\ t \in Rows /\ Len(began.upd) \in Nat
        /\ \A i \in 1..Len(began.upd) : began.upd[i].val \in Vals
    BY <1>0, <2>1, BeganLemma
  <2>4. /\ txRows = UpdateRows(t, began.upd, 1, pos)
        /\ txRows' = UpdateRows(txRows, began.upd, pos + 1, n)
        /\ pos' = n /\ pc' = "update" /\ db' = db /\ began' = began
    BY <1>0, <1>5, <2>1 DEF SendUpdates
  <2> HIDE DEF n, t
  <2>5. \A i \in 1..n : began.upd[i].val \in Vals
    BY <2>2, <2>3
  <2>6. txRows' = UpdateRows(t, began.upd, 1, n)
    BY <2>2, <2>3, <2>4, <2>5, UpdateCompose
  <2>7. QED BY <2>4, <2>6 DEF t
<1>6. CASE EndUpdates
  <2>1. began # None
    BY <1>0, <1>6 DEF EndUpdates, SaveInvariant, InTransaction
  <2>2. AfterUpdates(Len(began.upd)) \in Rows
    BY <1>0, <2>1, BeganLemma
  <2>3. InsertRows(AfterUpdates(Len(began.upd)), began.ins, InsertedKeys', 1, 0)
           = AfterUpdates(Len(began.upd))
    BY <2>2, NothingSent
  <2>4. QED BY <1>0, <1>6, <2>3 DEF EndUpdates, SaveInvariant
<1>7. CASE SendInserts
  <2> DEFINE n == ChunkEnd(insertCommandValues)
             t == UpdateRows(DeleteRows(db, began.del, 1, Len(began.del)),
                             began.upd, 1, Len(began.upd))
  <2>1. began # None /\ insertCommandValues = began.ins
    BY <1>0, <1>7 DEF SendInserts, InsertChunk, SaveInvariant, InTransaction
  <2>2. pos \in Nat /\ n \in Nat /\ pos <= n
    <3>1. pos < Len(insertCommandValues)
      BY <1>7 DEF SendInserts, InsertChunk
    <3>2. pos \in Nat /\ Len(insertCommandValues) \in Nat
      BY <1>0 DEF TypeOK
    <3>3. QED BY <1>0, <3>1, <3>2, ChunkEndLemma
  <2>3. t \in Rows
    BY <1>0, <2>1, BeganLemma
  <2>0. PICK keys : GetsKeys(keys)
    BY <1>0, <1>7, ChunkGetsKeys
  <2>4. /\ txRows = InsertRows(t, began.ins, InsertedKeys, 1, pos)
        /\ txRows' = InsertRows(txRows, began.ins, keys, pos + 1, n)
        /\ pos' = n /\ pc' = "insert" /\ db' = db /\ began' = began
    BY <1>0, <1>7, <2>0, <2>1 DEF SendInserts, InsertChunk, GetsKeys
  <2>5. /\ \A i \in 1..pos : InsertedKeys[i] = InsertedKeys'[i]
        /\ \A i \in (pos + 1)..n : keys[i] = InsertedKeys'[i]
        /\ \A i, j \in 1..n : InsertedKeys'[i] = InsertedKeys'[j] => i = j
    BY <1>7, <2>0, <2>4, ChunkOfInserts DEF CanInsert
  <2> HIDE DEF n, t
  <2>6. txRows' = InsertRows(t, began.ins, InsertedKeys', 1, n)
    BY <2>2, <2>3, <2>4, <2>5, InsertCompose
  <2>7. QED BY <2>4, <2>6 DEF t
<1>8. CASE EndInserts
  BY <1>0, <1>8 DEF EndInserts, SaveInvariant, InsertedKeys
<1>9. CASE Commit \/ EndSave \/ FailSave \/ CancelSave
  BY <1>9 DEF Commit, EndSave, FailSave, CancelSave
<1>10. CASE UNCHANGED vars
  BY <1>0, <1>10 DEF vars, InsertedKeys
<1>11. QED
  BY <1>1, <1>2, <1>3, <1>4, <1>5, <1>6, <1>7, <1>8, <1>9, <1>10 DEF Next, SaveStep, ForwardStep

\* The inductive invariant holds in every behaviour of a table.
THEOREM Invariant == Spec => []IInv
<1>1. IInv /\ [Next]_vars => IInv'
  BY TypeStep, SaveInvariantStep, BatchesAddUpStep DEF IInv
<1>2. QED BY InitInvariant, <1>1, PTL DEF Spec

\* The state of a table has the types it is declared with, and each of its queues holds
\* one entry per record (the fields of OrpheusTable<T>).
THEOREM TypeCorrect == Spec => []TypeOK
<1>1. IInv => TypeOK
  BY DEF IInv
<1>2. QED BY Invariant, <1>1, PTL

\* Whatever the batch size, the rows of the transaction are those that the entries sent
\* so far make of the committed rows (executeDelete, executeUpdate, executeInsert).
THEOREM BatchesAreCorrect == Spec => []BatchesAddUp
<1>1. IInv => BatchesAddUp
  BY DEF IInv
<1>2. QED BY Invariant, <1>1, PTL

\* Every record that a Save inserts carries the key of its own row, whatever the chunk
\* it was sent in (applyGeneratedKey).
THEOREM InsertsAreFound == Spec => []InsertedRecordsFindTheirRows
<1>1. ASSUME IInv, pc = "commit", NEW i \in DOMAIN began.ins
      PROVE  /\ InsertedKeys[i] \in Keys
             /\ txRows[InsertedKeys[i]] = began.ins[i].val
             /\ \A j \in DOMAIN began.ins \ {i} : InsertedKeys[j] # InsertedKeys[i]
  <2> DEFINE n == Len(began.ins)
             keys == InsertedKeys
             t == AfterUpdates(Len(began.upd))
  <2>1. began # None /\ TypeOK
    BY <1>1 DEF IInv, SaveInvariant, InTransaction
  <2>2. DOMAIN began.ins = 1..n
    BY <2>1, BeganLemma
  <2>3. CanInsert(t, keys, 1, n)
    BY <1>1 DEF IInv, SaveInvariant
  <2>4. txRows = InsertRows(t, began.ins, keys, 1, n)
    BY <1>1 DEF IInv, BatchesAddUp, AfterInserts
  <2> HIDE DEF t, keys, n
  <2>5. i \in 1..n /\ keys[i] \in Keys /\ \A j \in 1..n : keys[j] = keys[i] => j = i
    BY <1>1, <2>2, <2>3 DEF CanInsert
  <2>6. (CHOOSE j \in 1..n : keys[j] = keys[i]) = i
    BY <2>5
  <2>7. txRows[keys[i]] = began.ins[i].val
    BY <2>4, <2>5, <2>6 DEF InsertRows
  <2>8. QED BY <2>2, <2>5, <2>7 DEF keys
<1>2. IInv => InsertedRecordsFindTheirRows
  BY <1>1 DEF InsertedRecordsFindTheirRows
<1>3. QED BY Invariant, <1>2, PTL

-----------------------------------------------------------------------------
(***************************************************************************)
(* Save implements AtomicTable.                                            *)
(***************************************************************************)

\* A step that changes neither the committed rows nor what is pending is a stutter.
LEMMA CallStep ==
  ASSUME IInv, NEW r \in Records, NEW ending \in Endings,
         Add(r, ending) \/ Update(r, ending) \/ Delete(r, ending)
  PROVE  Atomic!Call \/ UNCHANGED Atomic!vars
<1>0. TypeOK /\ SaveInvariant
  BY DEF IInv
<1> USE DEF memory, queues, store, saving, Idle
<1>1. /\ pc = "idle" /\ began = None /\ began' = None /\ db' = db /\ obj[r] # None
      /\ PendingNow = Queues /\ PendingNow' = Queues'
  BY <1>0 DEF Add, Update, Delete, SaveInvariant, PendingNow
<1>2. CASE Add(r, ending)
  <2>1. Snapshot(r, Keyed(r)) \in Entry
    BY <1>0, <1>2, KeyedType, SnapshotType DEF Add
  <2>2. Atomic!OneEntry(insertCommandValues,
                        Enqueue(insertCommandValues, Snapshot(r, Keyed(r))))
    BY <1>0, <2>1, EnqueueLemma DEF TypeOK
  <2>3. /\ UNCHANGED <<deleteCommandValues, updateCommandValues>>
        /\ \/ UNCHANGED insertCommandValues
           \/ insertCommandValues'
                 = Enqueue(insertCommandValues, Snapshot(r, Keyed(r)))
    BY <1>2 DEF Add
  <2>4. QED BY <1>1, <2>2, <2>3
            DEF Queues, Atomic!Call, Atomic!Changes, Atomic!vars
<1>3. CASE Update(r, ending)
  <2>1. Snapshot(r, obj[r]) \in Entry
    <3>1. obj[r] \in Object
      BY <1>0, <1>1 DEF TypeOK
    <3>2. QED BY <3>1, SnapshotType
  <2>2. Atomic!OneEntry(updateCommandValues,
                        Enqueue(updateCommandValues, Snapshot(r, obj[r])))
    BY <1>0, <2>1, EnqueueLemma DEF TypeOK
  <2>3. /\ UNCHANGED <<deleteCommandValues, insertCommandValues>>
        /\ \/ UNCHANGED updateCommandValues
           \/ updateCommandValues'
                 = Enqueue(updateCommandValues, Snapshot(r, obj[r]))
    BY <1>3 DEF Update
  <2>4. QED BY <1>1, <2>2, <2>3
            DEF Queues, Atomic!Call, Atomic!Changes, Atomic!vars
<1>4. CASE Delete(r, ending)
  <2> DEFINE e == [rec |-> r, key |-> obj[r].key]
  <2>1. e \in DeleteEntry
    BY <1>0, <1>1 DEF TypeOK, Object, DeleteEntry
  <2>2. Atomic!OneEntry(deleteCommandValues, Enqueue(deleteCommandValues, e))
    BY <1>0, <2>1, EnqueueLemma DEF TypeOK
  <2>3. /\ UNCHANGED <<updateCommandValues, insertCommandValues>>
        /\ \/ UNCHANGED deleteCommandValues
           \/ deleteCommandValues' = Enqueue(deleteCommandValues, e)
    BY <1>4 DEF Delete
  <2>4. QED BY <1>1, <2>2, <2>3
            DEF Queues, Atomic!Call, Atomic!Changes, Atomic!vars
<1>5. QED BY <1>2, <1>3, <1>4

\* The commit of a Save is the one step in which AtomicTable saves.
LEMMA CommitStep ==
  ASSUME IInv, Commit
  PROVE  Atomic!Save
<1>0. TypeOK /\ SaveInvariant /\ BatchesAddUp /\ began # None
  BY DEF IInv, Commit, SaveInvariant, InTransaction
<1>1. PendingNow = began /\ PendingNow' = Atomic!NoChanges
  BY <1>0 DEF Commit, PendingNow, SaveInvariant, Queues, queues,
              Atomic!NoChanges, Atomic!Changes
<1>2. Atomic!WithoutInserts(db, began) = AfterUpdates(Len(began.upd))
  BY Zenon DEF Atomic!WithoutInserts, AfterUpdates, AfterDeletes, UpdateRows,
               Atomic!UpdateRows, DeleteRows, Atomic!DeleteRows, LastFor, Atomic!LastFor
<1>3. db' = InsertRows(AfterUpdates(Len(began.upd)), began.ins, InsertedKeys, 1,
                       Len(began.ins))
  BY <1>0 DEF Commit, BatchesAddUp, AfterInserts
<1>4. CanInsert(AfterUpdates(Len(began.upd)), InsertedKeys, 1, Len(began.ins))
  BY <1>0 DEF Commit, SaveInvariant
<1>5. InsertedKeys \in Atomic!KeyChoices(began.ins)
  BY <1>0, <1>4, TableAssumption DEF InsertedKeys, Atomic!KeyChoices, CanInsert
<1>6. /\ Atomic!CanInsert(AfterUpdates(Len(began.upd)), InsertedKeys, 1, Len(began.ins))
      /\ db' = Atomic!InsertRows(AfterUpdates(Len(began.upd)), began.ins,
                                 InsertedKeys, 1, Len(began.ins))
  BY <1>3, <1>4, Zenon DEF CanInsert, Atomic!CanInsert, InsertRows, Atomic!InsertRows
<1>7. QED BY <1>1, <1>2, <1>5, <1>6, Zenon DEF Atomic!Save

\* A Save that is rolled back or abandoned has forgotten the queues it had finished.
LEMMA FailureStep ==
  ASSUME IInv, FailSave \/ CancelSave
  PROVE  Atomic!Fail
<1>0. TypeOK /\ SaveInvariant /\ began # None /\ InTransaction /\ began' = None
      /\ UNCHANGED <<deleteCommandValues, updateCommandValues, insertCommandValues, db>>
  BY DEF IInv, FailSave, CancelSave, SaveInvariant, InTransaction, queues, store
<1>1. PendingNow = began /\ PendingNow' = Queues
  BY <1>0 DEF PendingNow, Queues
<1>2. began = Atomic!Changes(began.del, began.upd, began.ins)
  BY <1>0 DEF TypeOK, Pending, Atomic!Changes
<1>3. Queues \in { began, Atomic!Changes(<<>>, began.upd, began.ins),
                   Atomic!Changes(<<>>, <<>>, began.ins), Atomic!NoChanges }
  BY <1>0, <1>2 DEF Queues, InTransaction, SaveInvariant, Atomic!Changes,
                    Atomic!NoChanges
<1>4. QED BY <1>0, <1>1, <1>3 DEF Atomic!Fail

\* Every step of a table is a step of AtomicTable or a stutter.
LEMMA RefinementStep ==
  ASSUME IInv, [Next]_vars
  PROVE  [Atomic!Next]_(Atomic!vars)
<1>0. TypeOK /\ SaveInvariant
  BY DEF IInv
<1> USE DEF memory, queues, store, saving, Atomic!Next
<1>1. ASSUME UNCHANGED <<db, PendingNow>>
      PROVE  [Atomic!Next]_(Atomic!vars)
  BY <1>1 DEF Atomic!vars
<1>2. CASE ObjectStep
  BY <1>1, <1>2 DEF ObjectStep, Construct, Assign, AssignKey, PendingNow, Queues
<1>3. CASE TableStep
  <2>1. CASE \E r \in Records, ending \in Endings :
                Add(r, ending) \/ Update(r, ending) \/ Delete(r, ending)
    BY <2>1, CallStep
  <2>2. CASE ClearData \/ \E clearExistingData \in BOOLEAN : Load(clearExistingData)
    BY <1>1, <2>2 DEF ClearData, Load, PendingNow, Queues
  <2>3. QED BY <1>3, <2>1, <2>2 DEF TableStep
<1>4. CASE BeginSave
  <2>1. Queues # None
    BY <1>0, TableAssumption DEF Queues, Pending, TypeOK
  <2>2. PendingNow' = PendingNow /\ db' = db
    BY <1>0, <1>4, <2>1 DEF BeginSave, PendingNow, Queues, Idle, SaveInvariant
  <2>3. QED BY <1>1, <2>2
<1>5. CASE SendDeletes \/ EndDeletes \/ SendUpdates \/ EndUpdates \/ SendInserts
           \/ EndInserts
  <2>1. began # None /\ began' = began /\ db' = db
    BY <1>0, <1>5 DEF SendDeletes, EndDeletes, SendUpdates, EndUpdates, SendInserts,
                      InsertChunk, EndInserts, SaveInvariant, InTransaction
  <2>2. QED BY <1>1, <2>1 DEF PendingNow
<1>6. CASE Commit
  BY <1>6, CommitStep
<1>7. CASE EndSave
  BY <1>1, <1>7 DEF EndSave, PendingNow, Queues
<1>8. CASE FailSave \/ CancelSave
  BY <1>8, FailureStep
<1>9. CASE UNCHANGED vars
  BY <1>1, <1>9 DEF vars, PendingNow, Queues
<1>10. QED
  BY <1>2, <1>3, <1>4, <1>5, <1>6, <1>7, <1>8, <1>9 DEF Next, SaveStep, ForwardStep

\* Save is atomic: for every batch size, and whatever fails, the committed rows change
\* by one whole Save or not at all (Save, SaveAsync).
THEOREM Atomicity == Spec => SaveIsAtomic
<1>1. Init => Atomic!Init
  BY InitInvariant DEF IInv, TypeOK, Init, Atomic!Init, Atomic!NoChanges,
                       Atomic!Changes, PendingNow, Queues, Rows, Atomic!Rows
<1>2. QED BY Invariant, RefinementStep, <1>1, PTL DEF Spec, SaveIsAtomic
=============================================================================
