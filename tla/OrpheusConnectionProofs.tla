------------------------ MODULE OrpheusConnectionProofs ------------------------
(***************************************************************************)
(* Theorems about OrpheusConnection, for every set of tables and records,  *)
(* every batch size, every number of transactions and every fault model.   *)
(***************************************************************************)
EXTENDS OrpheusConnection, TLAPS

\* No transaction is open at the start and nothing waits.
LEMMA InitInvariant == Init => IInv
<1> SUFFICES ASSUME Init PROVE IInv
  OBVIOUS
<1>1. TypeOK
  <2>1. NoSave \in Saves
    BY DEF Saves, NoSave, Places
  <2>2. rows \in [Records -> Nat] /\ work \in [Records -> Nat]
    BY DEF Init
  <2>3. save \in [Tables -> Saves]
    BY <2>1 DEF Init
  <2>4. /\ active \in Begun \cup {None} /\ last \in Begun \cup {None}
        /\ unit \in Begun \cup {None} /\ nextTx \in Nat \ {0}
        /\ opening \in Begun \cup {None} /\ ended \subseteq Begun
    BY DEF Init
  <2>5. faults \in FaultModels /\ connected \in BOOLEAN /\ failed \in BOOLEAN
    BY DEF Init
  <2>6. queue \subseteq added /\ added \subseteq Records /\ promised \subseteq Records
    BY DEF Init
  <2>7. QED BY <2>2, <2>3, <2>4, <2>5, <2>6 DEF TypeOK
<1>2. OpenTransactionIsLast /\ AwaitInvariant /\ RowsInvariant
  BY DEF Init, OpenTransactionIsLast, AwaitInvariant, RowsInvariant
<1>3. SaveInvariant
  <2>1. \A t \in Tables : save[t] = NoSave
    BY DEF Init
  <2>2. QED BY <2>1 DEF SaveInvariant, NoSave, Running, InActive
<1>4. WaitingInvariant /\ UnitInvariant
  BY DEF Init, WaitingInvariant, UnitInvariant, UnitIsHeldBack
<1>5. QED BY <1>1, <1>2, <1>3, <1>4 DEF IInv

\* Send puts a chunk of the copy into the open transaction.
LEMMA SendKeeps ==
  ASSUME IInv, NEW t \in Tables, Send(t)
  PROVE  IInv'
<1> USE ConnectionAssumption
<1>1. PICK chunk \in Chunks(save[t].copy \ save[t].sent) :
        /\ work' = [r \in Records |-> IF r \in chunk THEN work[r] + 1 ELSE work[r]]
        /\ save' = [save EXCEPT ![t].sent = @ \cup chunk]
  BY DEF Send
<1>2. chunk \subseteq save[t].copy \ save[t].sent
  BY DEF Chunks
<1>3. /\ save[t].at = "send" /\ active = save[t].tx
      /\ UNCHANGED <<connected, active, last, awaited, nextTx, rows, queued, caller>>
  BY DEF Send
<1>u. /\ UNCHANGED <<faults, connected, active, last, opening, ended, nextTx, rows>>
      /\ UNCHANGED <<added, queue, unit, promised, failed>>
  BY <1>3 DEF awaited, queued, caller
<1>4. save \in [Tables -> Saves] /\ save[t] \in Saves /\ work \in [Records -> Nat]
  BY DEF IInv, TypeOK
<1>5. chunk \subseteq queue \cap Of(t) /\ chunk \subseteq Records
  BY <1>2, <1>3, <1>4 DEF IInv, SaveInvariant, Saves
<1>6. /\ save' \in [Tables -> Saves]
      /\ save'[t] = [save[t] EXCEPT !.sent = @ \cup chunk]
      /\ \A u \in Tables \ {t} : save'[u] = save[u]
  BY <1>1, <1>4, <1>5 DEF Saves
<1>7. InActive(t)
  BY <1>3 DEF InActive, Running
<1>8. \A r \in chunk : work[r] = 0 /\ work'[r] = 1
  BY <1>1, <1>2, <1>4, <1>5, <1>7 DEF IInv, RowsInvariant, WaitingInvariant, Of
<1>9. \A r \in Records \ chunk : work'[r] = work[r]
  BY <1>1
<1>10. TypeOK'
  BY <1>1, <1>u, <1>6 DEF IInv, TypeOK, Begun
<1>11. OpenTransactionIsLast' /\ AwaitInvariant'
  <2>1. \A u \in Tables : /\ Beginning(u)' <=> Beginning(u)
                          /\ save'[u].at = save[u].at
    BY <1>u, <1>4, <1>6 DEF Beginning, Running, Saves
  <2>2. QED BY <1>u, <2>1 DEF IInv, OpenTransactionIsLast, AwaitInvariant
<1>12. RowsInvariant'
  <2>1. active # None
    BY <1>7 DEF IInv, SaveInvariant, InActive, TypeOK, Begun, ConnectionAssumption
  <2>2. \A r \in chunk : rows[r] = 0 /\ r \in added
    BY <1>5 DEF IInv, RowsInvariant, TypeOK
  <2>3. QED BY <1>u, <1>8, <1>9, <2>1, <2>2 DEF IInv, RowsInvariant
<1>13. SaveInvariant'
  <2>1. \A u \in Tables : /\ Running(u)' <=> Running(u)
                          /\ InActive(u)' <=> InActive(u)
    BY <1>u, <1>4, <1>6 DEF Running, InActive, Saves
  <2> SUFFICES ASSUME NEW u \in Tables
               PROVE  SaveInvariant!(u)'
    BY DEF SaveInvariant
  <2>2. CASE u = t
    <3>1. save'[t].sent = save[t].sent \cup chunk
      BY <1>4, <1>6 DEF Saves
    <3>2. /\ save'[t].at = save[t].at /\ save'[t].tx = save[t].tx
          /\ save'[t].ends = save[t].ends /\ save'[t].asked = save[t].asked
          /\ save'[t].copy = save[t].copy
      BY <1>4, <1>6 DEF Saves
    <3>3. \A r \in save'[t].sent : work'[r] = 1
      BY <1>4, <1>7, <1>8, <1>9, <3>1 DEF IInv, SaveInvariant, Saves
    <3>4. \A v \in Tables : InActive(v)' => v = t
      BY <1>7, <2>1 DEF IInv, SaveInvariant
    <3>5. QED BY <1>u, <1>2, <1>3, <2>1, <2>2, <3>1, <3>2, <3>3, <3>4
              DEF IInv, SaveInvariant, Begun
  <2>3. CASE u # t
    <3>1. save'[u] = save[u] /\ ~InActive(u)
      BY <1>6, <1>7, <2>3 DEF IInv, SaveInvariant
    <3>2. QED BY <1>u, <2>1, <3>1 DEF IInv, SaveInvariant, Begun, Of
  <2>4. QED BY <2>2, <2>3
<1>14. WaitingInvariant'
  <2> SUFFICES ASSUME NEW r \in queue, work'[r] = 1
               PROVE  /\ InActive(TableOf[r])' /\ save'[TableOf[r]].at = "send"
                      /\ r \in save'[TableOf[r]].sent
    BY <1>u DEF WaitingInvariant
  <2>1. InActive(t)' /\ save'[t].at = "send" /\ save'[t].sent = save[t].sent \cup chunk
    BY <1>u, <1>3, <1>4, <1>6 DEF Saves, InActive, Running
  <2>2. r \in Records
    BY DEF IInv, TypeOK
  <2>3. CASE r \in chunk
    BY <1>5, <2>1, <2>3 DEF Of
  <2>4. CASE r \notin chunk
    <3>1. InActive(TableOf[r]) /\ r \in save[TableOf[r]].sent
      BY <1>7, <1>9, <2>2, <2>4 DEF IInv, WaitingInvariant
    <3>2. TableOf[r] = t
      BY <1>7, <2>2, <3>1 DEF IInv, SaveInvariant, ConnectionAssumption
    <3>3. QED BY <2>1, <3>1, <3>2
  <2>5. QED BY <2>3, <2>4
<1>15. UnitInvariant'
  BY <1>u, <1>5, <1>8, <1>9 DEF IInv, UnitInvariant, UnitIsHeldBack, TypeOK
<1>16. QED BY <1>10, <1>11, <1>12, <1>13, <1>14, <1>15 DEF IInv
-----------------------------------------------------------------------------
(***************************************************************************)
(* Steps that close the open transaction.                                  *)
(***************************************************************************)

\* Saves have the shape of Saves, and an idle one has left nothing behind.
LEMMA NoSaveIsASave == NoSave \in Saves /\ NoSave.at = "idle"
BY DEF NoSave, Saves, Places

\* A transaction that is open and was given to the program is not waited for.
LEMMA OpenIsGiven ==
  ASSUME IInv, active # None, active # opening
  PROVE  opening = None
BY DEF IInv, OpenTransactionIsLast, AwaitInvariant

\* A Save that sends or commits has its transaction.
LEMMA SendsInItsOwn ==
  ASSUME IInv, NEW t \in Tables, save[t].at \in {"send", "commit"}
  PROVE  Running(t) /\ save[t].tx \in Begun /\ save[t].tx # None /\ ~Beginning(t)
<1>1. Running(t)
  BY DEF Running
<1>2. save[t].tx \in Begun /\ save[t].tx # None
  BY <1>1, ConnectionAssumption DEF IInv, SaveInvariant, Begun
<1>3. ~Beginning(t)
  BY <1>2 DEF IInv, AwaitInvariant, Beginning
<1>4. QED BY <1>1, <1>2, <1>3

\* So that it may end its transaction: nothing is waited for then.
LEMMA EndsAlone ==
  ASSUME IInv, NEW t \in Tables, save[t].at \in {"send", "commit"}, active = save[t].tx
  PROVE  opening = None
BY SendsInItsOwn, OpenIsGiven DEF Beginning

\* Nothing that waits is in the transaction that a Save or the caller may commit.
LEMMA MayCommit ==
  ASSUME IInv,
         \/ \E t \in Tables : InActive(t) /\ save[t].at = "commit"
         \/ Quiet /\ unit = active /\ ~failed
  PROVE  \A r \in queue : work[r] = 0
<1> SUFFICES ASSUME NEW r \in queue, work[r] # 0 PROVE FALSE
  OBVIOUS
<1>1. r \in Records /\ TableOf[r] \in Tables
  BY ConnectionAssumption DEF IInv, TypeOK
<1>2. work[r] = 1
  BY <1>1 DEF IInv, TypeOK, RowsInvariant
<1>3. CASE \E t \in Tables : InActive(t) /\ save[t].at = "commit"
  <2>1. PICK t \in Tables : InActive(t) /\ save[t].at = "commit"
    BY <1>3
  <2>2. InActive(TableOf[r]) /\ save[TableOf[r]].at = "send"
    BY <1>2, <2>1 DEF IInv, WaitingInvariant
  <2>3. TableOf[r] = t
    BY <1>1, <2>1, <2>2 DEF IInv, SaveInvariant
  <2>4. QED BY <2>1, <2>2, <2>3
<1>4. CASE Quiet /\ unit = active /\ ~failed
  BY <1>1, <1>2, <1>4 DEF IInv, WaitingInvariant, Quiet, InActive
<1>5. QED BY <1>3, <1>4

\* A step that commits or abandons the open transaction, and ends some Saves and perhaps
\* the unit.
LEMMA ClosingKeeps ==
  ASSUME IInv,
         active' = None, connected' \in BOOLEAN, last' \in {last, None},
         ended' \subseteq Begun, opening' = opening,
         opening # None => UNCHANGED <<save, unit>> /\ ~connected',
         UNCHANGED <<nextTx, faults, added, queue>>,
         work' = rows',
         rows' = rows \/ (rows' = work /\ \A r \in queue : work[r] = 0),
         save' \in [Tables -> Saves],
         \A t \in Tables : save'[t] = save[t] \/ save'[t] = NoSave,
         unit' \in {unit, None}, promised' \subseteq promised, failed' \in BOOLEAN,
         unit' = None \/ failed' \/ ~connected',
         unit' # unit => \A t \in Tables : save'[t] = save[t] /\ Running(t) => save[t].ends
  PROVE  IInv'
<1> USE NoSaveIsASave
<1>1. TypeOK'
  BY DEF IInv, TypeOK, Begun
<1>2. OpenTransactionIsLast' /\ AwaitInvariant'
  <2>1. None \notin ended'
    <3>1. Begun \subseteq Nat
      BY DEF IInv, TypeOK, Begun
    <3>2. QED BY <3>1, ConnectionAssumption
  <2>2. QED BY <2>1 DEF IInv, OpenTransactionIsLast, AwaitInvariant, Beginning, Running
<1>3. RowsInvariant'
  BY DEF IInv, RowsInvariant, TypeOK
<1>4. SaveInvariant'
  <2> SUFFICES ASSUME NEW t \in Tables PROVE SaveInvariant!(t)'
    BY DEF SaveInvariant
  <2>1. CASE save'[t] = save[t]
    <3>1. ~InActive(t)'
      BY <2>1, ConnectionAssumption DEF InActive, IInv, SaveInvariant, Running, TypeOK, Begun
    <3>2. QED BY <2>1, <3>1 DEF IInv, SaveInvariant, Running, Begun, Of
  <2>2. CASE save'[t] = NoSave
    BY <2>2 DEF Running, InActive
  <2>3. QED BY <2>1, <2>2
<1>5. WaitingInvariant'
  BY DEF IInv, RowsInvariant, WaitingInvariant, TypeOK
<1>6. UnitInvariant'
  BY DEF IInv, UnitInvariant, UnitIsHeldBack
<1>7. QED BY <1>1, <1>2, <1>3, <1>4, <1>5, <1>6 DEF IInv

\* The connection is closed or lost.
LEMMA LosingKeeps ==
  ASSUME IInv, Lose(rows), UNCHANGED <<queued, save, caller>>
  PROVE  IInv'
<1>1. /\ active' = None /\ connected' = FALSE /\ UNCHANGED <<last, opening, ended, nextTx>>
      /\ rows' = rows /\ work' = rows
  BY DEF Lose, awaited
<1>2. UNCHANGED <<faults, added, queue, save, unit, promised, failed>>
  BY DEF queued, caller
<1>3. save \in [Tables -> Saves] /\ failed \in BOOLEAN /\ ended \subseteq Begun
  BY DEF IInv, TypeOK
<1>4. QED BY <1>1, <1>2, <1>3, ClosingKeeps

\* A Save commits, its own transaction or that of the unit.
LEMMA CommitSaveKeeps ==
  ASSUME IInv, NEW t \in Tables, CommitSave(t)
  PROVE  IInv'
<1>1. /\ save[t].at = "commit" /\ active = save[t].tx /\ InActive(t)
      /\ save' = [save EXCEPT ![t] = NoSave]
  BY DEF CommitSave, CommitTransaction, CommitOpen, InActive, Running
<1>2. /\ active' = None /\ rows' = work /\ UNCHANGED <<connected, nextTx, work>>
      /\ last' \in {last, None} /\ opening' = opening /\ ended' \subseteq ended \cup {active}
      /\ UNCHANGED <<faults, added, queue>>
  BY <1>1 DEF CommitSave, CommitTransaction, CommitOpen, Forget, AwaitEnd, awaited, queued
<1>0. opening = None /\ ended' \subseteq Begun
  BY <1>1, <1>2, EndsAlone, SendsInItsOwn DEF IInv, TypeOK
<1>3. \A r \in queue : work[r] = 0
  BY <1>1, MayCommit
<1>4. save \in [Tables -> Saves] /\ connected \in BOOLEAN /\ failed \in BOOLEAN
  BY DEF IInv, TypeOK
<1>5. /\ save' \in [Tables -> Saves]
      /\ \A u \in Tables : save'[u] = save[u] \/ save'[u] = NoSave
  BY <1>1, <1>4, NoSaveIsASave
<1>6. CASE save[t].tx = unit
  <2>1. unit' = None /\ promised' = {} /\ failed' = FALSE
    BY <1>6 DEF CommitSave
  <2>2. ASSUME NEW u \in Tables, save'[u] = save[u], Running(u), ~save[u].ends
        PROVE  FALSE
    <3>1. InActive(u)
      BY <1>1, <1>6, <2>2 DEF IInv, SaveInvariant, InActive
    <3>2. u = t
      BY <1>1, <3>1 DEF IInv, SaveInvariant
    <3>3. QED BY <1>1, <1>4, <2>2, <3>2, NoSaveIsASave DEF Running
  <2>3. QED BY <1>0, <1>2, <1>3, <1>4, <1>5, <2>1, <2>2, ClosingKeeps
<1>7. CASE save[t].tx # unit
  <2>1. UNCHANGED <<unit, promised, failed>>
    BY <1>7 DEF CommitSave, caller
  <2>2. unit = None \/ failed \/ ~connected
    BY <1>1, <1>7 DEF IInv, UnitInvariant, UnitIsHeldBack
  <2>3. QED BY <1>0, <1>2, <1>3, <1>4, <1>5, <2>1, <2>2, ClosingKeeps
<1>8. QED BY <1>6, <1>7

\* The connection is lost while a Save commits.
LEMMA LoseCommitKeeps ==
  ASSUME IInv, NEW t \in Tables, LoseCommit(t)
  PROVE  IInv'
<1>1. /\ save[t].at = "commit" /\ active = save[t].tx /\ InActive(t)
      /\ save' = [save EXCEPT ![t] = NoSave]
      /\ UNCHANGED <<faults, added, queue, unit, promised>>
      /\ failed' = (failed \/ save[t].tx = unit)
  BY DEF LoseCommit, LeaveSave, InActive, Running, queued
<1>2. PICK committed \in {rows, work} : Lose(committed)
  BY DEF LoseCommit
<1>3. \A r \in queue : work[r] = 0
  BY <1>1, MayCommit
<1>4. save \in [Tables -> Saves] /\ failed \in BOOLEAN
  BY DEF IInv, TypeOK
<1>5. /\ save' \in [Tables -> Saves] /\ failed' \in BOOLEAN
      /\ \A u \in Tables : save'[u] = save[u] \/ save'[u] = NoSave
  BY <1>1, <1>4, NoSaveIsASave
<1>6. /\ active' = None /\ connected' = FALSE /\ UNCHANGED <<last, opening, ended, nextTx>>
      /\ rows' = committed /\ work' = committed
  BY <1>2 DEF Lose, awaited
<1>7. opening = None /\ ended \subseteq Begun
  BY <1>1, EndsAlone DEF IInv, TypeOK
<1>8. QED BY <1>1, <1>3, <1>5, <1>6, <1>7, ClosingKeeps

\* A Save leaves: its transaction stays, or was gone before.
LEMMA LeavingKeeps ==
  ASSUME IInv, NEW t \in Tables, LeaveSave(t),
         UNCHANGED <<queued, connected, active, ended, nextTx, rows, work>>,
         last' \in {last, opening}, active # None => active \in {last', opening'},
         opening' \in {opening, None}, opening' # None => ~Beginning(t)
  PROVE  IInv'
<1> USE NoSaveIsASave
<1>1. /\ save' = [save EXCEPT ![t] = NoSave]
      /\ failed' = (failed \/ save[t].tx = unit)
      /\ UNCHANGED <<unit, promised, faults, added, queue>>
      /\ UNCHANGED <<connected, active, ended, nextTx, rows, work>>
  BY DEF LeaveSave, queued
<1>2. save \in [Tables -> Saves] /\ failed \in BOOLEAN
  BY DEF IInv, TypeOK
<1>3. /\ save' \in [Tables -> Saves] /\ save'[t] = NoSave /\ failed' \in BOOLEAN
      /\ \A u \in Tables \ {t} : save'[u] = save[u]
  BY <1>1, <1>2
<1>4. ~InActive(t)' /\ ~Running(t)'
  BY <1>3 DEF InActive, Running
<1>5. \A u \in Tables \ {t} : /\ InActive(u)' <=> InActive(u)
                              /\ Running(u)' <=> Running(u)
  BY <1>1, <1>3 DEF InActive, Running
<1>6. TypeOK' /\ OpenTransactionIsLast' /\ AwaitInvariant' /\ RowsInvariant'
  <2>1. TypeOK' /\ RowsInvariant'
    BY <1>1, <1>3 DEF IInv, TypeOK, Begun, RowsInvariant
  <2>2. OpenTransactionIsLast'
    BY <1>1 DEF IInv, OpenTransactionIsLast
  <2>3. opening' # None => \A u \in Tables : Beginning(u)' <=> Beginning(u)
    BY <1>3, <1>4, <1>5 DEF Beginning
  <2>4. AwaitInvariant'
    <3>1. active' \notin ended'
      BY <1>1 DEF IInv, AwaitInvariant
    <3>2. ASSUME opening' # None
          PROVE  /\ connected' => active' = opening'
                 /\ opening' = unit' \/ \E u \in Tables : Beginning(u)'
                 /\ \A u \in Tables : Beginning(u)' => save'[u].at = "copy" /\ unit' # opening'
      <4>1. opening' = opening /\ ~Beginning(t)
        BY <3>2
      <4>2. \A u \in Tables : Beginning(u)' => Beginning(u) /\ save'[u] = save[u]
        BY <1>3, <2>3, <3>2, <4>1
      <4>3. QED BY <1>1, <2>3, <3>2, <4>1, <4>2 DEF IInv, AwaitInvariant
    <3>3. QED BY <3>1, <3>2 DEF AwaitInvariant
  <2>5. QED BY <2>1, <2>2, <2>4
<1>7. SaveInvariant'
  <2> SUFFICES ASSUME NEW u \in Tables PROVE SaveInvariant!(u)'
    BY DEF SaveInvariant
  <2>1. CASE u = t
    BY <1>3, <1>4, <2>1
  <2>2. CASE u # t
    BY <1>1, <1>3, <1>4, <1>5, <2>2 DEF IInv, SaveInvariant, Begun, Of
  <2>3. QED BY <2>1, <2>2
<1>8. WaitingInvariant'
  <2> SUFFICES ASSUME NEW r \in queue, work[r] = 1
               PROVE  \/ /\ InActive(TableOf[r])' /\ save'[TableOf[r]].at = "send"
                         /\ r \in save'[TableOf[r]].sent
                      \/ /\ \A u \in Tables : ~InActive(u)'
                         /\ unit = active => failed'
    BY <1>1 DEF WaitingInvariant
  <2>1. r \in Records /\ TableOf[r] \in Tables
    BY ConnectionAssumption DEF IInv, TypeOK
  <2>2. CASE InActive(t)
    <3>1. \A u \in Tables : ~InActive(u)'
      BY <1>4, <1>5, <2>2 DEF IInv, SaveInvariant
    <3>2. unit = active => failed'
      BY <1>1, <2>2 DEF InActive
    <3>3. QED BY <3>1, <3>2
  <2>3. CASE ~InActive(t)
    BY <1>1, <1>3, <1>4, <1>5, <2>1, <2>3 DEF IInv, WaitingInvariant
  <2>4. QED BY <2>2, <2>3
<1>9. UnitInvariant'
  <2>1. ~failed' => ~failed
    BY <1>1
  <2>2. QED BY <1>1, <2>1 DEF IInv, UnitInvariant, UnitIsHeldBack
<1>10. QED BY <1>6, <1>7, <1>8, <1>9 DEF IInv

\* A command or the commit of a Save throws.
LEMMA FailSaveKeeps ==
  ASSUME IInv, NEW t \in Tables, FailSave(t)
  PROVE  IInv'
<1>0. save[t].at \in {"send", "commit"}
  BY DEF FailSave, Doomed
<1>1. CASE save[t].ends /\ active = save[t].tx
  <2>1. /\ save' = [save EXCEPT ![t] = NoSave]
        /\ UNCHANGED <<faults, added, queue, unit, promised>>
        /\ failed' = (failed \/ save[t].tx = unit)
    BY DEF FailSave, LeaveSave, queued
  <2>2. /\ active' = None /\ rows' = rows /\ work' = rows
        /\ UNCHANGED <<connected, nextTx>> /\ last' \in {last, None}
        /\ opening' = opening /\ ended' \subseteq ended \cup {active}
    BY <1>1 DEF FailSave, RollbackTransaction, RollbackOpen, Forget, AwaitEnd, awaited
  <2>0. opening = None /\ ended' \subseteq Begun
    BY <1>0, <1>1, <2>2, EndsAlone, SendsInItsOwn DEF IInv, TypeOK
  <2>3. save \in [Tables -> Saves] /\ failed \in BOOLEAN /\ connected \in BOOLEAN
    BY DEF IInv, TypeOK
  <2>4. /\ save' \in [Tables -> Saves] /\ failed' \in BOOLEAN
        /\ \A u \in Tables : save'[u] = save[u] \/ save'[u] = NoSave
    BY <2>1, <2>3, NoSaveIsASave
  <2>5. unit = None \/ failed' \/ ~connected
    BY <1>1, <2>1 DEF IInv, UnitInvariant, UnitIsHeldBack
  <2>6. QED BY <2>0, <2>1, <2>2, <2>3, <2>4, <2>5, ClosingKeeps
<1>2. CASE ~(save[t].ends /\ active = save[t].tx)
  <2>1. UNCHANGED <<connected, active, last, opening, ended, nextTx, rows, work, queued>>
    BY <1>2 DEF FailSave, provider, awaited
  <2>2. ~Beginning(t) /\ LeaveSave(t)
    BY <1>0, SendsInItsOwn DEF FailSave
  <2>3. active # None => active \in {last, opening}
    BY DEF IInv, OpenTransactionIsLast
  <2>4. QED BY <2>1, <2>2, <2>3, LeavingKeeps
<1>3. QED BY <1>1, <1>2

-----------------------------------------------------------------------------
(***************************************************************************)
(* The caller: its records and its unit.                                   *)
(***************************************************************************)

\* A record is queued, perhaps while SaveAsync of its table is in progress.
LEMMA AddKeeps ==
  ASSUME IInv, NEW r \in Records, Add(r)
  PROVE  IInv'
<1>1. /\ r \notin added /\ added' = added \cup {r} /\ queue' = queue \cup {r}
      /\ UNCHANGED <<faults, connected, active, last, nextTx, rows, work, save>>
      /\ UNCHANGED <<opening, ended, unit, promised, failed>>
  BY DEF Add, provider, awaited, caller
<1>2. work[r] = 0 /\ rows[r] = 0
  BY <1>1 DEF IInv, RowsInvariant, TypeOK
<1>3. TypeOK' /\ OpenTransactionIsLast' /\ AwaitInvariant' /\ RowsInvariant'
  BY <1>1, <1>2 DEF IInv, TypeOK, Begun, OpenTransactionIsLast, AwaitInvariant, Beginning,
                    Running, RowsInvariant
<1>4. SaveInvariant'
  BY <1>1 DEF IInv, SaveInvariant, Running, InActive, Begun, Of
<1>5. WaitingInvariant'
  BY <1>1, <1>2 DEF IInv, WaitingInvariant, Running, InActive
<1>6. UnitInvariant'
  BY <1>1 DEF IInv, UnitInvariant, UnitIsHeldBack, TypeOK
<1>7. QED BY <1>3, <1>4, <1>5, <1>6 DEF IInv

\* A transaction begins: that of a Save of table t, of a Save that gives up at once, or
\* of a unit.
LEMMA BeginKeeps ==
  ASSUME IInv, BeginTransaction \/ BeginTransactionAsync, UNCHANGED queued,
         \/ \E t \in Tables : ~Running(t) /\ Enter(t, nextTx, TRUE) /\ UNCHANGED caller
         \/ BeginTransaction /\ UNCHANGED <<save, caller>>
         \/ /\ unit = None /\ unit' = nextTx /\ promised' = {} /\ failed' = FALSE
            /\ UNCHANGED save
  PROVE  IInv'
<1> USE NoSaveIsASave
<1>0. opening = None
  BY DEF BeginTransaction, BeginTransactionAsync, BeginOpen, IInv, AwaitInvariant
<1>1. /\ connected /\ active = None /\ active' = nextTx
      /\ nextTx' = nextTx + 1 /\ nextTx \in Nat \ {0}
      /\ UNCHANGED <<connected, rows, work, faults, added, queue, ended>>
      /\ \/ last' = nextTx /\ opening' = None
         \/ last' = last /\ opening' = nextTx /\ ~BeginTransaction
  BY <1>0 DEF BeginTransaction, BeginTransactionAsync, BeginOpen, awaited, queued, IInv, TypeOK
<1>2. work = rows
  BY <1>1 DEF IInv, RowsInvariant
<1>3. nextTx \in Begun' /\ Begun \subseteq Begun' /\ nextTx \notin Begun \cup {None}
  BY <1>1, ConnectionAssumption DEF Begun
<1>4. \A t \in Tables : Running(t) => save[t].tx \in Begun
  BY DEF IInv, SaveInvariant
<1>5. OpenTransactionIsLast' /\ RowsInvariant'
  BY <1>1, <1>3 DEF IInv, OpenTransactionIsLast, RowsInvariant
<1>6. WaitingInvariant'
  BY <1>1, <1>2 DEF IInv, WaitingInvariant, RowsInvariant, TypeOK
<1>a. active' \notin ended' /\ ended' \subseteq Begun'
  BY <1>1, <1>3 DEF IInv, TypeOK
<1>7. CASE \E t \in Tables : ~Running(t) /\ Enter(t, nextTx, TRUE) /\ UNCHANGED caller
  <2>1. PICK t \in Tables : ~Running(t) /\ Enter(t, nextTx, TRUE) /\ UNCHANGED caller
    BY <1>7
  <2>2. UNCHANGED <<unit, promised, failed>>
    BY <2>1 DEF caller
  <2>3. /\ save'[t] \in Saves
        /\ save'[t].at = "copy" /\ save'[t].tx = nextTx /\ save'[t].ends
        /\ save'[t].asked = queue \cap Of(t) /\ save'[t].sent = {}
        /\ save' \in [Tables -> Saves]
        /\ \A u \in Tables \ {t} : save'[u] = save[u]
    BY <1>1, <2>1 DEF Enter, IInv, TypeOK, Saves, NoSave, Places
  <2>4. TypeOK'
    BY <1>1, <1>3, <1>a, <2>2, <2>3 DEF IInv, TypeOK
  <2>5. \A u \in Tables : InActive(u)' <=> u = t
    BY <1>1, <1>3, <1>4, <2>3 DEF InActive, Running
  <2>6. SaveInvariant'
    <3> SUFFICES ASSUME NEW u \in Tables PROVE SaveInvariant!(u)'
      BY DEF SaveInvariant
    <3>1. CASE u = t
      BY <1>1, <1>3, <2>2, <2>3, <2>5, <3>1 DEF IInv, TypeOK, Of
    <3>2. CASE u # t
      <4>1. save'[u] = save[u] /\ ~InActive(u)' /\ (Running(u)' <=> Running(u))
        BY <2>3, <2>5, <3>2 DEF Running
      <4>2. SaveInvariant!(u)
        BY DEF IInv, SaveInvariant
      <4>3. /\ Of(u)' = Of(u) /\ unit' = unit /\ queue' = queue /\ added' = added
            /\ \A x \in Begun : x \in Begun'
        BY <1>1, <1>3, <2>2 DEF Of
      <4>4. QED BY <4>1, <4>2, <4>3
    <3>3. QED BY <3>1, <3>2
  <2>7. UnitInvariant'
    BY <1>1, <2>2 DEF IInv, UnitInvariant, UnitIsHeldBack
  <2>8. AwaitInvariant'
    <3>1. unit' # nextTx
      BY <1>3, <2>2 DEF IInv, TypeOK
    <3>2. opening' = None \/ \A u \in Tables : Beginning(u)' <=> u = t
      BY <1>1, <2>5 DEF Beginning, InActive
    <3>3. QED BY <1>1, <1>3, <1>a, <2>1, <2>3, <3>1, <3>2 DEF AwaitInvariant
  <2>9. QED BY <1>5, <1>6, <2>4, <2>6, <2>7, <2>8 DEF IInv
<1>8. CASE UNCHANGED save
  <2>1. \A u \in Tables : /\ ~InActive(u)'
                          /\ Running(u)' <=> Running(u)
    BY <1>1, <1>3, <1>4, <1>8 DEF InActive, Running
  <2>2. \/ opening' = None /\ UNCHANGED <<unit, promised, failed>>
        \/ unit = None /\ unit' = nextTx /\ promised' = {} /\ failed' = FALSE
    <3>1. CASE \E t \in Tables : ~Running(t) /\ Enter(t, nextTx, TRUE) /\ UNCHANGED caller
      <4>1. PICK t \in Tables : ~Running(t) /\ Enter(t, nextTx, TRUE)
        BY <3>1
      <4>2. save'[t].at = "copy"
        BY <1>1, <4>1 DEF Enter, NoSave, IInv, TypeOK
      <4>3. QED BY <1>8, <4>1, <4>2 DEF Running
    <3>2. QED BY <1>1, <3>1 DEF caller
  <2>3. TypeOK'
    <3>1. /\ unit' \in Begun' \cup {None} /\ promised' \subseteq Records
          /\ failed' \in BOOLEAN
      BY <1>3, <2>2 DEF IInv, TypeOK
    <3>2. /\ active' \in Begun' \cup {None} /\ last' \in Begun' \cup {None}
          /\ nextTx' \in Nat \ {0}
          /\ opening' \in Begun' \cup {None} /\ ended' \subseteq Begun'
      BY <1>1, <1>3, <1>a DEF IInv, TypeOK
    <3>3. QED BY <1>1, <1>8, <3>1, <3>2 DEF IInv, TypeOK
  <2>4. SaveInvariant'
    <3>1. \A u \in Tables : ~(Running(u) /\ ~save[u].ends) \/ unit' = unit
      BY <1>4, <2>2, ConnectionAssumption DEF IInv, SaveInvariant, Begun
    <3>2. QED BY <1>1, <1>3, <1>8, <2>1, <3>1 DEF IInv, SaveInvariant, Of
  <2>5. UnitInvariant'
    BY <1>1, <2>2 DEF IInv, UnitInvariant, UnitIsHeldBack
  <2>6. AwaitInvariant'
    <3>1. opening' # None => \A u \in Tables : ~Beginning(u)'
      BY <1>1, <2>1 DEF Beginning, InActive
    <3>2. QED BY <1>1, <1>3, <1>a, <2>2, <3>1 DEF AwaitInvariant
  <2>7. QED BY <1>5, <1>6, <2>3, <2>4, <2>5, <2>6 DEF IInv
<1>9. QED BY <1>7, <1>8

\* A Save in the unit begins, or its OnBeforeSave throws.
LEMMA StartSaveInKeeps ==
  ASSUME IInv, NEW t \in Tables, NEW ends \in BOOLEAN, StartSaveIn(t, ends)
  PROVE  IInv'
<1>1. /\ unit # None /\ unit # opening /\ ~failed /\ Quiet
      /\ UNCHANGED <<connected, active, last, opening, ended, nextTx, rows, work>>
      /\ UNCHANGED <<faults, added, queue, unit, promised>>
  BY DEF StartSaveIn, provider, awaited, queued
<1>a. opening = None
  BY <1>1 DEF IInv, AwaitInvariant, Beginning, Quiet
<1>2. RowsInvariant' /\ OpenTransactionIsLast' /\ AwaitInvariant'
  BY <1>1, <1>a DEF IInv, RowsInvariant, OpenTransactionIsLast, AwaitInvariant
<1>3. \A u \in Tables : ~Running(u) /\ ~InActive(u)
  BY <1>1 DEF Quiet, InActive
<1>4. CASE Enter(t, unit, ends) /\ UNCHANGED failed
  <2>0. unit \in Nat /\ queue \subseteq Records /\ save \in [Tables -> Saves]
    BY <1>1 DEF IInv, TypeOK, Begun
  <2>1. /\ save'[t] \in Saves
        /\ save'[t].at = "copy" /\ save'[t].tx = unit /\ save'[t].ends = ends
        /\ save'[t].asked = queue \cap Of(t) /\ save'[t].sent = {}
        /\ save' \in [Tables -> Saves]
        /\ \A u \in Tables \ {t} : save'[u] = save[u]
    BY <1>4, <2>0 DEF Enter, Saves, NoSave, Places
  <2>2. TypeOK'
    BY <1>1, <1>4, <2>1 DEF IInv, TypeOK, Begun
  <2>3. \A u \in Tables \ {t} : ~Running(u)' /\ ~InActive(u)'
    BY <1>1, <1>3, <2>1 DEF Running, InActive
  <2>4. SaveInvariant'
    <3> SUFFICES ASSUME NEW u \in Tables PROVE SaveInvariant!(u)'
      BY DEF SaveInvariant
    <3>1. CASE u = t
      BY <1>1, <2>1, <2>3, <3>1 DEF IInv, TypeOK, Of, Begun
    <3>2. CASE u # t
      BY <2>3, <3>2 DEF Running, InActive
    <3>3. QED BY <3>1, <3>2
  <2>5. WaitingInvariant'
    <3> SUFFICES ASSUME NEW r \in queue, work[r] = 1 PROVE FALSE
      BY <1>1 DEF WaitingInvariant
    <3>1. unit # active
      BY <1>1, <1>3, ConnectionAssumption DEF IInv, WaitingInvariant, TypeOK
    <3>2. ~connected
      BY <1>1, <3>1 DEF IInv, UnitInvariant, UnitIsHeldBack
    <3>3. work = rows
      BY <3>2 DEF IInv, OpenTransactionIsLast, RowsInvariant
    <3>4. QED BY <3>3 DEF IInv, RowsInvariant, TypeOK
  <2>6. UnitInvariant'
    BY <1>1, <1>4 DEF IInv, UnitInvariant, UnitIsHeldBack
  <2>7. QED BY <1>2, <2>2, <2>4, <2>5, <2>6 DEF IInv
<1>5. CASE failed' = TRUE /\ UNCHANGED save
  <2>1. TypeOK' /\ UnitInvariant'
    BY <1>1, <1>5 DEF IInv, TypeOK, Begun, UnitInvariant, UnitIsHeldBack
  <2>2. SaveInvariant' /\ WaitingInvariant'
    BY <1>1, <1>5 DEF IInv, SaveInvariant, WaitingInvariant, InActive, Running, Begun, Of
  <2>3. QED BY <1>2, <2>1, <2>2 DEF IInv
<1>6. QED BY <1>4, <1>5 DEF StartSaveIn

\* A Save takes the copy of its queue.
LEMMA CopyQueueKeeps ==
  ASSUME IInv, NEW t \in Tables, CopyQueue(t)
  PROVE  IInv'
<1>1. /\ save[t].at = "copy" /\ ~Beginning(t)
      /\ UNCHANGED <<connected, active, last, opening, ended, nextTx, rows, work>>
      /\ UNCHANGED <<faults, added, queue, unit, promised, failed>>
  BY DEF CopyQueue, provider, awaited, queued, caller
<1>2. save \in [Tables -> Saves] /\ queue \subseteq Records
  BY DEF IInv, TypeOK
<1>3. /\ save' \in [Tables -> Saves]
      /\ save'[t].at = "send" /\ save'[t].copy = queue \cap Of(t)
      /\ save'[t].tx = save[t].tx /\ save'[t].ends = save[t].ends
      /\ save'[t].asked = save[t].asked /\ save'[t].sent = save[t].sent
      /\ \A u \in Tables \ {t} : save'[u] = save[u]
  BY <1>2 DEF CopyQueue, Saves, Places
<1>4. \A u \in Tables : /\ Running(u)' <=> Running(u)
                        /\ InActive(u)' <=> InActive(u)
  BY <1>1, <1>3 DEF Running, InActive
<1>5. TypeOK' /\ OpenTransactionIsLast' /\ RowsInvariant' /\ UnitInvariant'
  BY <1>1, <1>3 DEF IInv, TypeOK, Begun, OpenTransactionIsLast, RowsInvariant,
                    UnitInvariant, UnitIsHeldBack
<1>a. AwaitInvariant'
  <2>1. \A u \in Tables : Beginning(u)' => Beginning(u) /\ save'[u] = save[u]
    BY <1>1, <1>3, <1>4 DEF Beginning
  <2>2. \A u \in Tables : Beginning(u) => Beginning(u)'
    BY <1>1, <1>3, <1>4 DEF Beginning
  <2>3. QED BY <1>1, <2>1, <2>2 DEF IInv, AwaitInvariant
<1>6. SaveInvariant'
  <2> SUFFICES ASSUME NEW u \in Tables PROVE SaveInvariant!(u)'
    BY DEF SaveInvariant
  <2>1. SaveInvariant!(u)
    BY DEF IInv, SaveInvariant
  <2>2. Of(u)' = Of(u) /\ Begun' = Begun
    BY <1>1 DEF Of, Begun
  <2>3. CASE u = t
    BY <1>1, <1>3, <1>4, <2>1, <2>2, <2>3 DEF Running
  <2>4. CASE u # t
    BY <1>1, <1>3, <1>4, <2>1, <2>2, <2>4
  <2>5. QED BY <2>3, <2>4
<1>7. WaitingInvariant'
  BY <1>1, <1>3, <1>4, ConnectionAssumption DEF IInv, WaitingInvariant, TypeOK
<1>8. QED BY <1>5, <1>6, <1>7, <1>a DEF IInv

\* A Save has sent its copy and clears its queue.
LEMMA EndSendKeeps ==
  ASSUME IInv, NEW t \in Tables, EndSend(t)
  PROVE  IInv'
<1> USE NoSaveIsASave
<1>1. /\ save[t].at = "send" /\ save[t].sent = save[t].copy
      /\ queue' = queue \ Of(t)
      /\ UNCHANGED <<connected, active, last, opening, ended, nextTx, rows, work>>
      /\ UNCHANGED <<faults, added, unit, failed>>
  BY DEF EndSend, provider, awaited
<1>2. save \in [Tables -> Saves] /\ queue \subseteq Records
  BY DEF IInv, TypeOK
<1>3. \A u \in Tables \ {t} : Of(u) \cap Of(t) = {}
  BY DEF Of
<1>4. RowsInvariant' /\ OpenTransactionIsLast'
  BY <1>1 DEF IInv, RowsInvariant, OpenTransactionIsLast
<1>5. /\ save' \in [Tables -> Saves]
      /\ \A u \in Tables \ {t} : save'[u] = save[u]
      /\ \/ /\ save'[t].at = "commit" /\ save[t].ends /\ promised' = promised
            /\ save'[t].tx = save[t].tx /\ save'[t].ends = save[t].ends
            /\ save'[t].asked = save[t].asked /\ save'[t].sent = save[t].sent
            /\ save'[t].copy = save[t].copy
         \/ /\ save'[t] = NoSave /\ ~save[t].ends
            /\ promised' = promised \cup save[t].asked
  BY <1>2 DEF EndSend, Saves, Places
<1>6. \A u \in Tables : InActive(u)' => InActive(u)
  BY <1>1, <1>5 DEF InActive, Running
<1>7. TypeOK'
  BY <1>1, <1>2, <1>5 DEF IInv, TypeOK, Begun, Saves
<1>a. AwaitInvariant'
  <2>1. ~Beginning(t) /\ save[t].tx # opening
    BY <1>1, SendsInItsOwn DEF Beginning
  <2>2. \A u \in Tables : Beginning(u)' => Beginning(u) /\ save'[u] = save[u]
    BY <1>1, <1>5, <2>1 DEF Beginning, Running
  <2>3. \A u \in Tables : Beginning(u) => Beginning(u)'
    BY <1>1, <1>5, <2>1 DEF Beginning, Running
  <2>4. QED BY <1>1, <2>2, <2>3 DEF IInv, AwaitInvariant
<1>8. SaveInvariant'
  <2> SUFFICES ASSUME NEW u \in Tables PROVE SaveInvariant!(u)'
    BY DEF SaveInvariant
  <2>1. SaveInvariant!(u)
    BY DEF IInv, SaveInvariant
  <2>2. Of(u)' = Of(u) /\ Begun' = Begun
    BY <1>1 DEF Of, Begun
  <2>3. CASE u = t
    <3>1. Running(t)
      BY <1>1 DEF Running
    <3>2. CASE save'[t] = NoSave
      BY <2>3, <3>2 DEF Running, InActive
    <3>3. CASE save'[t].at = "commit" /\ save'[t] # NoSave
      BY <1>1, <1>5, <1>6, <2>1, <2>2, <2>3, <3>1, <3>3
    <3>4. QED BY <1>5, <3>2, <3>3
  <2>4. CASE u # t
    BY <1>1, <1>3, <1>5, <1>6, <2>1, <2>2, <2>4 DEF Running
  <2>5. QED BY <2>3, <2>4
<1>9. WaitingInvariant'
  <2> SUFFICES ASSUME NEW r \in queue', work[r] = 1
               PROVE  \/ /\ InActive(TableOf[r])' /\ save'[TableOf[r]].at = "send"
                         /\ r \in save'[TableOf[r]].sent
                      \/ /\ \A u \in Tables : ~InActive(u)'
                         /\ unit = active => failed
    BY <1>1 DEF WaitingInvariant
  <2>1. r \in queue /\ TableOf[r] \in Tables \ {t}
    BY <1>1, <1>2, ConnectionAssumption DEF Of
  <2>2. save'[TableOf[r]] = save[TableOf[r]]
    BY <1>5, <2>1
  <2>3. QED BY <1>1, <1>6, <2>1, <2>2 DEF IInv, WaitingInvariant, InActive, Running
<1>10. UnitInvariant'
  <2>1. SaveInvariant!(t)
    BY DEF IInv, SaveInvariant
  <2>2. promised' \subseteq added' \ queue'
    BY <1>1, <1>5, <2>1 DEF IInv, UnitInvariant, Running
  <2>3. ASSUME unit # None, connected, ~failed
        PROVE  active = unit /\ \A r \in promised' : rows[r] = 0 /\ work[r] = 1
    <3>1. active = unit /\ \A r \in promised : rows[r] = 0 /\ work[r] = 1
      BY <2>3 DEF IInv, UnitInvariant, UnitIsHeldBack
    <3>2. ASSUME ~save[t].ends, NEW r \in save[t].asked
          PROVE  rows[r] = 0 /\ work[r] = 1
      <4>1. InActive(t)
        BY <1>1, <2>1, <3>1, <3>2 DEF InActive, Running
      <4>2. r \in save[t].sent /\ r \in queue /\ r \in Records
        BY <1>1, <1>2, <2>1, <3>2
      <4>3. QED BY <2>1, <4>1, <4>2 DEF IInv, RowsInvariant
    <3>3. QED BY <1>5, <3>1, <3>2
  <2>4. QED BY <1>1, <2>2, <2>3 DEF UnitInvariant, UnitIsHeldBack
<1>11. QED BY <1>4, <1>7, <1>8, <1>9, <1>10, <1>a DEF IInv

\* A unit ends, or its commit throws.
LEMMA CommitUnitKeeps ==
  ASSUME IInv, CommitUnit
  PROVE  IInv'
<1>1. /\ unit # None /\ unit # opening /\ ~failed /\ Quiet /\ active = unit
      /\ opening' = opening /\ ended' \subseteq ended \cup {active}
      /\ active' = None /\ rows' = work /\ UNCHANGED <<connected, nextTx, work>>
      /\ last' \in {last, None}
      /\ UNCHANGED <<faults, added, queue, save>>
      /\ unit' = None /\ promised' = {} /\ failed' = FALSE
  BY DEF CommitUnit, CommitTransaction, CommitOpen, Forget, AwaitEnd, awaited, EndUnit, queued
<1>2. \A r \in queue : work[r] = 0
  BY <1>1, MayCommit
<1>3. /\ save \in [Tables -> Saves] /\ connected \in BOOLEAN
      /\ opening = None /\ ended' \subseteq Begun
  BY <1>1, OpenIsGiven DEF IInv, TypeOK
<1>4. \A t \in Tables : ~Running(t)
  BY <1>1 DEF Quiet
<1>5. QED BY <1>1, <1>2, <1>3, <1>4, ClosingKeeps

\* A command of the caller fails in its unit.
LEMMA FailUnitKeeps ==
  ASSUME IInv, FailUnit
  PROVE  IInv'
<1>1. /\ unit # None /\ unit # opening /\ ~failed /\ Quiet /\ failed' = TRUE
      /\ UNCHANGED <<faults, added, queue, save, unit, promised>>
  BY DEF FailUnit, queued
<1>2. CASE active # unit /\ UNCHANGED provider
  <2>1. UNCHANGED <<connected, active, last, opening, ended, nextTx, rows, work>>
    BY <1>2 DEF provider, awaited
  <2>0. opening = None
    BY <1>1 DEF IInv, AwaitInvariant, Beginning, Quiet
  <2>2. /\ TypeOK' /\ OpenTransactionIsLast' /\ AwaitInvariant' /\ RowsInvariant'
        /\ UnitInvariant'
    BY <1>1, <2>0, <2>1 DEF IInv, TypeOK, Begun, OpenTransactionIsLast, AwaitInvariant,
                            RowsInvariant, UnitInvariant, UnitIsHeldBack
  <2>3. SaveInvariant' /\ WaitingInvariant'
    BY <1>1, <2>1 DEF IInv, SaveInvariant, WaitingInvariant, InActive, Running, Begun, Of
  <2>4. QED BY <2>2, <2>3 DEF IInv
<1>3. CASE active = unit /\ \E committed \in {rows, work} : Lose(committed)
  <2>1. PICK committed \in {rows, work} : Lose(committed)
    BY <1>3
  <2>2. /\ active' = None /\ connected' = FALSE
        /\ UNCHANGED <<last, opening, ended, nextTx>>
        /\ rows' = committed /\ work' = committed
    BY <2>1 DEF Lose, awaited
  <2>3. \A r \in queue : work[r] = 0
    BY <1>1, <1>3, MayCommit
  <2>4. save \in [Tables -> Saves] /\ opening = None /\ ended \subseteq Begun
    BY <1>1, <1>3, OpenIsGiven DEF IInv, TypeOK
  <2>5. QED BY <1>1, <2>2, <2>3, <2>4, ClosingKeeps
<1>4. QED BY <1>2, <1>3 DEF FailUnit

\* The caller rolls its unit back.
LEMMA RollbackUnitKeeps ==
  ASSUME IInv, RollbackUnit
  PROVE  IInv'
<1>1. /\ unit # None /\ unit # opening /\ Quiet
      /\ UNCHANGED <<faults, added, queue, save>>
      /\ unit' = None /\ promised' = {} /\ failed' = FALSE
  BY DEF RollbackUnit, EndUnit, queued
<1>2. \A t \in Tables : ~Running(t)
  BY <1>1 DEF Quiet
<1>3. save \in [Tables -> Saves] /\ connected \in BOOLEAN
  BY DEF IInv, TypeOK
<1>4. CASE /\ RollbackOpen(unit) /\ last' \in {last, None}
           /\ opening' = opening /\ ended' \subseteq ended \cup {unit}
  <2>1. /\ active' = None /\ work' = rows /\ UNCHANGED <<connected, nextTx, rows>>
    BY <1>4 DEF RollbackOpen
  <2>2. active = unit
    BY <1>4 DEF RollbackOpen
  <2>3. opening = None /\ ended' \subseteq Begun
    BY <1>1, <1>4, <2>2, OpenIsGiven DEF IInv, TypeOK
  <2>4. QED BY <1>1, <1>2, <1>3, <1>4, <2>1, <2>3, ClosingKeeps
<1>5. CASE active # unit /\ UNCHANGED provider
  <2>1. UNCHANGED <<connected, active, last, opening, ended, nextTx, rows, work>>
    BY <1>5 DEF provider, awaited
  <2>0. opening = None
    BY <1>1 DEF IInv, AwaitInvariant, Beginning, Quiet
  <2>2. /\ TypeOK' /\ OpenTransactionIsLast' /\ AwaitInvariant' /\ RowsInvariant'
        /\ UnitInvariant'
    BY <1>1, <2>0, <2>1 DEF IInv, TypeOK, Begun, OpenTransactionIsLast, AwaitInvariant,
                            RowsInvariant, UnitInvariant, UnitIsHeldBack
  <2>3. SaveInvariant'
    BY <1>1, <1>2, <2>1 DEF IInv, SaveInvariant, InActive, Running, Begun, Of
  <2>4. WaitingInvariant'
    <3> SUFFICES ASSUME NEW r \in queue, work[r] = 1, active = None PROVE FALSE
      BY <1>1, <1>2, <2>1 DEF IInv, WaitingInvariant, InActive, Running
    <3>1. QED BY DEF IInv, RowsInvariant, TypeOK
  <2>5. QED BY <2>2, <2>3, <2>4 DEF IInv
<1>6. QED BY <1>4, <1>5 DEF RollbackUnit, RollbackTransaction, Forget, AwaitEnd, awaited

\* The connection is opened again, when no unit is left of the old one.
LEMMA ConnectKeeps ==
  ASSUME IInv, Connect
  PROVE  IInv'
<1>1. /\ ~connected /\ Quiet /\ unit = None /\ connected' = TRUE
      /\ UNCHANGED <<active, last, opening, ended, nextTx, rows, work, faults, added>>
      /\ UNCHANGED <<queue, save, unit, promised, failed>>
  BY DEF Connect, awaited, queued, caller
<1>a. opening = None
  BY <1>1 DEF IInv, AwaitInvariant, Beginning, Quiet
<1>2. /\ TypeOK' /\ OpenTransactionIsLast' /\ AwaitInvariant' /\ RowsInvariant'
      /\ UnitInvariant'
  BY <1>1, <1>a DEF IInv, TypeOK, Begun, OpenTransactionIsLast, AwaitInvariant,
                    RowsInvariant, UnitInvariant, UnitIsHeldBack
<1>3. SaveInvariant' /\ WaitingInvariant'
  BY <1>1 DEF IInv, SaveInvariant, WaitingInvariant, InActive, Running, Begun, Of
<1>4. QED BY <1>2, <1>3 DEF IInv

-----------------------------------------------------------------------------
(***************************************************************************)
(* Control comes back from the calls that were waited for.                 *)
(***************************************************************************)

\* The begin is given back control, and nothing but LastActiveTransaction is assigned.
LEMMA ResumingKeeps ==
  ASSUME IInv, ResumeBegin, UNCHANGED <<queued, save, caller>>
  PROVE  IInv'
<1>1. /\ opening # None /\ last' = opening /\ opening' = None
      /\ UNCHANGED <<connected, active, ended, nextTx, rows, work>>
      /\ UNCHANGED <<faults, added, queue, save, unit, promised, failed>>
  BY DEF ResumeBegin, queued, caller
<1>2. TypeOK' /\ RowsInvariant' /\ UnitInvariant'
  BY <1>1 DEF IInv, TypeOK, Begun, RowsInvariant, UnitInvariant, UnitIsHeldBack
<1>3. OpenTransactionIsLast' /\ AwaitInvariant'
  BY <1>1 DEF IInv, OpenTransactionIsLast, AwaitInvariant
<1>4. SaveInvariant' /\ WaitingInvariant'
  BY <1>1 DEF IInv, SaveInvariant, WaitingInvariant, InActive, Running, Begun, Of
<1>5. QED BY <1>2, <1>3, <1>4 DEF IInv

\* SaveAsync has its transaction, or gives up in the handler.
LEMMA ResumeSaveKeeps ==
  ASSUME IInv, NEW t \in Tables, ResumeSave(t)
  PROVE  IInv'
<1>1. ResumeBegin /\ UNCHANGED queued
  BY DEF ResumeSave
<1>2. CASE UNCHANGED <<save, caller>>
  BY <1>1, <1>2, ResumingKeeps
<1>3. CASE LeaveSave(t)
  <2>1. /\ last' = opening /\ opening' = None
        /\ UNCHANGED <<connected, active, ended, nextTx, rows, work>>
    BY <1>1 DEF ResumeBegin
  <2>2. active # None => active = opening
    BY <1>1 DEF ResumeBegin, IInv, OpenTransactionIsLast, AwaitInvariant
  <2>3. QED BY <1>1, <1>3, <2>1, <2>2, LeavingKeeps
<1>4. QED BY <1>2, <1>3 DEF ResumeSave

\* SaveAsync never gets its transaction.
LEMMA AbandonSaveKeeps ==
  ASSUME IInv, NEW t \in Tables, AbandonSave(t)
  PROVE  IInv'
<1>1. /\ opening # None /\ active # opening /\ opening' = None
      /\ UNCHANGED <<connected, active, last, ended, nextTx, rows, work>>
      /\ UNCHANGED queued /\ LeaveSave(t)
  BY DEF AbandonSave, FailBegin
<1>2. active = None
  BY <1>1 DEF IInv, OpenTransactionIsLast, AwaitInvariant
<1>3. QED BY <1>1, <1>2, LeavingKeeps

\* The caller never gets the transaction of its unit.
LEMMA AbandonUnitKeeps ==
  ASSUME IInv, AbandonUnit
  PROVE  IInv'
<1>1. /\ opening # None /\ active # opening /\ unit = opening /\ opening' = None
      /\ UNCHANGED <<connected, active, last, ended, nextTx, rows, work>>
      /\ UNCHANGED <<faults, added, queue, save>>
      /\ unit' = None /\ promised' = {} /\ failed' = FALSE
  BY DEF AbandonUnit, FailBegin, EndUnit, queued
<1>2. active = None
  BY <1>1 DEF IInv, OpenTransactionIsLast, AwaitInvariant
<1>3. \A t \in Tables : ~Beginning(t)
  BY <1>1 DEF IInv, AwaitInvariant
<1>4. TypeOK' /\ OpenTransactionIsLast' /\ AwaitInvariant' /\ RowsInvariant' /\ UnitInvariant'
  BY <1>1, <1>2 DEF IInv, TypeOK, Begun, OpenTransactionIsLast, AwaitInvariant,
                    RowsInvariant, UnitInvariant, UnitIsHeldBack
<1>5. SaveInvariant'
  <2>1. \A t \in Tables : Running(t) => save[t].ends
    BY <1>1, <1>3 DEF IInv, SaveInvariant, Beginning
  <2>2. QED BY <1>1, <2>1 DEF IInv, SaveInvariant, InActive, Running, Begun, Of
<1>6. WaitingInvariant'
  <2>1. \A r \in queue : work[r] # 1
    BY <1>2 DEF IInv, RowsInvariant, TypeOK
  <2>2. QED BY <1>1, <2>1 DEF WaitingInvariant
<1>7. QED BY <1>4, <1>5, <1>6 DEF IInv

\* A commit or a rollback is given back control.
LEMMA ResumeEndKeeps ==
  ASSUME IInv, NEW x \in ended, ResumeEnd(x)
  PROVE  IInv'
<1>1. /\ last' = (IF last = x THEN None ELSE last) /\ ended' = ended \ {x}
      /\ UNCHANGED <<connected, active, opening, nextTx, rows, work>>
      /\ UNCHANGED <<faults, added, queue, save, unit, promised, failed>>
  BY DEF ResumeEnd, Forget, queued, caller
<1>2. active # x
  BY DEF IInv, AwaitInvariant
<1>3. TypeOK' /\ RowsInvariant' /\ UnitInvariant'
  BY <1>1 DEF IInv, TypeOK, Begun, RowsInvariant, UnitInvariant, UnitIsHeldBack
<1>4. OpenTransactionIsLast' /\ AwaitInvariant'
  BY <1>1, <1>2 DEF IInv, OpenTransactionIsLast, AwaitInvariant, Beginning, Running
<1>5. SaveInvariant' /\ WaitingInvariant'
  BY <1>1 DEF IInv, SaveInvariant, WaitingInvariant, InActive, Running, Begun, Of
<1>6. QED BY <1>3, <1>4, <1>5 DEF IInv

-----------------------------------------------------------------------------
(***************************************************************************)
(* The theorems.                                                           *)
(***************************************************************************)

\* Every step keeps the invariant.
LEMMA NextKeeps == IInv /\ [Next]_vars => IInv'
<1> SUFFICES ASSUME IInv, [Next]_vars PROVE IInv'
  OBVIOUS
<1>1. CASE UNCHANGED vars
  <2>1. /\ UNCHANGED <<connected, active, last, opening, ended, nextTx, rows, work>>
        /\ UNCHANGED <<faults, added, queue, save, unit, promised, failed>>
    BY <1>1 DEF vars, provider, awaited, queued, caller
  <2>2. TypeOK' /\ OpenTransactionIsLast' /\ AwaitInvariant'
    BY <2>1 DEF IInv, TypeOK, Begun, OpenTransactionIsLast, AwaitInvariant, Beginning, Running
  <2>3. QED BY <2>1, <2>2 DEF IInv, Begun, RowsInvariant, SaveInvariant, WaitingInvariant,
                              UnitInvariant, UnitIsHeldBack, InActive, Running, Of
<1>2. CASE Connect
  BY <1>2, ConnectKeeps
<1>3. CASE Disconnect \/ Break
  BY <1>3, LosingKeeps DEF Disconnect, Break
<1>4. ASSUME NEW r \in Records, Add(r) PROVE IInv'
  BY <1>4, AddKeeps
<1>5. ASSUME NEW t \in Tables, StartSave(t) PROVE IInv'
  BY <1>5, BeginKeeps DEF StartSave, queued, caller
<1>6. ASSUME NEW t \in Tables, NEW ends \in BOOLEAN, StartSaveIn(t, ends) PROVE IInv'
  BY <1>6, StartSaveInKeeps
<1>7. ASSUME NEW t \in Tables, SaveStep(t) PROVE IInv'
  BY <1>7, ResumeSaveKeeps, AbandonSaveKeeps, CopyQueueKeeps, SendKeeps, EndSendKeeps,
     CommitSaveKeeps, FailSaveKeeps
  DEF SaveStep
<1>8. ASSUME NEW t \in Tables, LoseCommit(t) \/ FailSave(t) PROVE IInv'
  BY <1>8, LoseCommitKeeps, FailSaveKeeps
<1>9. ASSUME NEW t \in Tables, CancelSave(t) PROVE IInv'
  <2>1. UNCHANGED <<connected, active, last, opening, ended, nextTx, rows, work, queued>>
    BY <1>9 DEF CancelSave, provider, awaited
  <2>2. active # None => active \in {last, opening}
    BY DEF IInv, OpenTransactionIsLast
  <2>3. QED BY <1>9, <2>1, <2>2, LeavingKeeps DEF CancelSave
<1>10. CASE BeginUnit
  BY <1>10, BeginKeeps DEF BeginUnit, queued
<1>11. CASE CommitUnit \/ FailUnit \/ RollbackUnit
  BY <1>11, CommitUnitKeeps, FailUnitKeeps, RollbackUnitKeeps
<1>12. CASE ResumeUnit \/ AbandonUnit
  BY <1>12, ResumingKeeps, AbandonUnitKeeps DEF ResumeUnit
<1>13. ASSUME NEW x \in ended, ResumeEnd(x) PROVE IInv'
  BY <1>13, ResumeEndKeeps
<1>14. QED BY <1>1, <1>2, <1>3, <1>4, <1>5, <1>6, <1>7, <1>8, <1>9, <1>10, <1>11, <1>12,
             <1>13 DEF Next

\* The inductive invariant holds in every reachable state.
LEMMA ConnectionInvariant == Spec => []IInv
BY InitInvariant, NextKeeps, PTL DEF Spec

\* The fields of OrpheusDatabase and the Saves in progress have their shapes.
THEOREM ConnectionTypeCorrect == Spec => []TypeOK
BY ConnectionInvariant, PTL DEF IInv

\* While a transaction is open, LastActiveTransaction is that one, unless
\* BeginTransactionAsync still waits for it (Begin-, Commit-, RollbackTransaction and their
\* Async forms).
THEOREM LastTransactionIsTheOpenOne == Spec => []OpenTransactionIsLast
BY ConnectionInvariant, PTL DEF IInv

\* LastActiveTransaction is left stale by nothing but a loss of the connection, or a Commit
\* or Rollback of the transaction itself (CommitTransaction and RollbackTransaction compare
\* it when the provider has answered).
THEOREM OnlyLossLeavesItStale == Spec => GoesStaleOnlyByLoss
<1>1. IInv /\ [Next]_vars => [StaysCurrent]_vars
  <2> SUFFICES ASSUME IInv, Next, ~Stale, Stale', connected'
               PROVE  "direct" \in Calls /\ last = unit /\ unit' = None
    BY DEF StaysCurrent
  <2> DEFINE Goal == "direct" \in Calls /\ last = unit /\ unit' = None
             Kept == UNCHANGED <<active, last>> /\ ended \subseteq ended'
  <2>0. last' \notin {None, active'} /\ last' \notin ended'
    BY DEF Stale
  <2>1. ~Kept
    BY <2>0 DEF Stale
  <2>2. ASSUME NEW x, CommitTransaction(x) \/ RollbackTransaction(x) PROVE FALSE
    <3>1. /\ active = x
          /\ \/ last' = (IF last = x THEN None ELSE last) /\ ended' = ended
             \/ last' = last /\ ended' = ended \cup {x}
      BY <2>2 DEF CommitTransaction, RollbackTransaction, CommitOpen, RollbackOpen, Forget,
                  AwaitEnd, awaited
    <3>2. QED BY <2>0, <3>1 DEF Stale
  <2>3. ASSUME BeginTransaction \/ BeginTransactionAsync PROVE FALSE
    <3>1. active' = nextTx /\ active = None /\ ended' = ended /\ last' \in {last, nextTx}
      BY <2>3 DEF BeginTransaction, BeginTransactionAsync, BeginOpen, awaited
    <3>2. QED BY <2>0, <3>1 DEF Stale
  <2>4. ASSUME ResumeBegin PROVE FALSE
    <3>1. last' = opening /\ opening # None /\ active' = active /\ connected
      BY <2>4 DEF ResumeBegin
    <3>2. QED BY <2>0, <3>1 DEF IInv, AwaitInvariant
  <2>5. ASSUME NEW committed, Lose(committed) PROVE FALSE
    BY <2>5 DEF Lose
  <2>6. ASSUME UNCHANGED provider PROVE FALSE
    BY <2>1, <2>6 DEF provider, awaited
  <2>7. ASSUME FailBegin PROVE FALSE
    BY <2>1, <2>7 DEF FailBegin
  <2>8. ASSUME NEW x \in ended, ResumeEnd(x) PROVE FALSE
    <3>1. active' = active /\ last' = (IF last = x THEN None ELSE last) /\ ended' = ended \ {x}
      BY <2>8 DEF ResumeEnd, Forget
    <3>2. QED BY <2>0, <3>1 DEF Stale
  <2>9. ASSUME NEW t \in Tables, SaveStep(t) \/ FailSave(t) PROVE FALSE
    <3>1. ~ResumeSave(t) /\ ~AbandonSave(t) /\ ~CopyQueue(t) /\ ~EndSend(t)
      BY <2>4, <2>6, <2>7 DEF ResumeSave, AbandonSave, CopyQueue, EndSend
    <3>2. ~Send(t)
      BY <2>1 DEF Send, awaited
    <3>3. ~CommitSave(t)
      BY <2>2 DEF CommitSave
    <3>4. ~FailSave(t)
      BY <2>2, <2>6 DEF FailSave
    <3>5. QED BY <2>9, <3>1, <3>2, <3>3, <3>4 DEF SaveStep
  <2>10. ASSUME NEW t \in Tables,
                \/ StartSave(t) \/ \E ends \in BOOLEAN : StartSaveIn(t, ends)
                \/ LoseCommit(t) \/ CancelSave(t)
         PROVE  FALSE
    BY <2>3, <2>5, <2>6, <2>10 DEF StartSave, StartSaveIn, LoseCommit, CancelSave
  <2>11. ASSUME NEW r \in Records, Add(r) PROVE FALSE
    BY <2>6, <2>11 DEF Add
  <2>12. ASSUME Connect \/ Disconnect \/ Break PROVE FALSE
    BY <2>1, <2>5, <2>12 DEF Connect, Disconnect, Break, awaited
  <2>13. ASSUME BeginUnit \/ ResumeUnit \/ AbandonUnit PROVE FALSE
    BY <2>3, <2>4, <2>7, <2>13 DEF BeginUnit, ResumeUnit, AbandonUnit
  <2>14. ASSUME CommitUnit \/ FailUnit \/ RollbackUnit PROVE Goal
    <3>1. ~FailUnit
      BY <2>5, <2>6 DEF FailUnit
    <3>2. ASSUME "direct" \in Calls, CommitOpen(unit) \/ RollbackOpen(unit),
                 UNCHANGED <<last, awaited>>, EndUnit
          PROVE  Goal
      <4>1. active = unit /\ last' = last /\ ended' = ended /\ unit' = None
        BY <3>2 DEF CommitOpen, RollbackOpen, awaited, EndUnit
      <4>2. last = unit
        BY <2>0, <4>1 DEF Stale
      <4>3. QED BY <3>2, <4>1, <4>2
    <3>3. CASE CommitUnit
      BY <2>2, <3>2, <3>3 DEF CommitUnit
    <3>4. CASE RollbackUnit
      BY <2>2, <2>6, <3>2, <3>4 DEF RollbackUnit
    <3>5. QED BY <2>14, <3>1, <3>3, <3>4
  <2>15. QED BY <2>8, <2>9, <2>10, <2>11, <2>12, <2>13, <2>14 DEF Next
<1>2. QED BY <1>1, ConnectionInvariant, PTL DEF Spec, GoesStaleOnlyByLoss

\* No record is committed twice, whatever is lost and tried again (executeInsert).
THEOREM NothingIsCommittedTwice == Spec => []CommittedOnce
<1>1. IInv => CommittedOnce
  <2> SUFFICES ASSUME IInv, NEW r \in Records
               PROVE  rows[r] <= 1 /\ (r \in queue => rows[r] = 0)
    BY DEF CommittedOnce
  <2>1. QED BY DEF IInv, TypeOK, RowsInvariant
<1>2. QED BY <1>1, ConnectionInvariant, PTL

\* What the Saves of a unit have saved stays in its transaction until the caller ends it
\* (Save with commitTransaction = false).
THEOREM UnitsAreHeldBack == Spec => []UnitIsHeldBack
BY ConnectionInvariant, PTL DEF IInv, UnitInvariant

\* A call that returns has committed what it was asked to save.
THEOREM SuccessIsCommitted == Spec => SuccessMeansSaved
<1>1. IInv /\ [Next]_vars => [CommitsWhatWasAsked]_vars
  <2>1. ASSUME IInv, NEW t \in Tables, CommitSave(t), NEW r \in save[t].asked
        PROVE  rows'[r] = 1
    <3>1. save[t].at = "commit" /\ InActive(t) /\ rows' = work
      BY <2>1 DEF CommitSave, CommitTransaction, CommitOpen, InActive, Running
    <3>2. r \in save[t].sent
      BY <2>1, <3>1 DEF IInv, SaveInvariant
    <3>3. QED BY <2>1, <3>1, <3>2 DEF IInv, SaveInvariant
  <2>2. ASSUME IInv, CommitUnit, NEW r \in promised
        PROVE  rows'[r] = 1
    <3>1. unit # None /\ ~failed /\ active = unit /\ rows' = work
      BY <2>2 DEF CommitUnit, CommitTransaction, CommitOpen
    <3>2. connected
      BY <2>2, <3>1 DEF IInv, OpenTransactionIsLast
    <3>3. QED BY <2>2, <3>1, <3>2 DEF IInv, UnitInvariant, UnitIsHeldBack
  <2>3. QED BY <2>1, <2>2 DEF CommitsWhatWasAsked
<1>2. QED BY <1>1, ConnectionInvariant, PTL DEF Spec, SuccessMeansSaved
=============================================================================
