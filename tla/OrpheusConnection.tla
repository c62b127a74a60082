--------------------------- MODULE OrpheusConnection ---------------------------
(***************************************************************************)
(* One OrpheusDatabase (OrpheusCore/Core/OrpheusDatabase.cs) shared by     *)
(* several tables: the connection, the transaction that is open on it, the *)
(* LastActiveTransaction that the program remembers, and the calls that    *)
(* begin and end transactions.  A table saves in a transaction of its own  *)
(* (Save, SaveAsync), or in one that the caller began and ends after any   *)
(* number of Saves: a unit.  SaveAsync gives the caller back control while *)
(* it waits, so that records are added, and the connection lost, meanwhile.*)
(* It also waits for its transaction to begin, to commit and to be rolled  *)
(* back, and LastActiveTransaction is assigned after each of these waits:  *)
(* what the provider does, and what the program does when it is given back *)
(* control, are two steps.  A Save, whose calls do not wait, does both in  *)
(* one: it passes through no state that a SaveAsync does not.              *)
(*                                                                         *)
(* Of a table only its queue of inserts is kept, and the keys are those of *)
(* the database: nothing rejects a record that is inserted twice.  The     *)
(* caller keeps the discipline of the repository's tests: a unit in which  *)
(* a call has thrown is rolled back, and a unit is given up when it ends.  *)
(***************************************************************************)
EXTENDS Integers, FiniteSets

CONSTANTS
  Tables,        (* the tables on this connection                          *)
  Records,       (* the model instances                                    *)
  TableOf,       (* record -> its table                                    *)
  None,          (* no transaction                                         *)
  MaxTx,         (* bound: transactions                                    *)
  BatchSize,     (* rows per round trip                                    *)
  Calls,         (* the optional steps of the caller, see below            *)
  FaultModels    (* what can go wrong, see below: one of these sets        *)

AllCalls == { "async",        (* transactions begin and end asynchronously  *)
              "overlap",      (* records are added during a SaveAsync       *)
              "direct",       (* a unit ends by a call of its transaction   *)
              "disconnect" }  (* Disconnect                                 *)

AllFaults == { "roundTrip",   (* the provider throws on a command           *)
               "break",       (* the connection breaks                      *)
               "beforeSave",  (* a handler of OnBeforeSave throws           *)
               "cancel" }     (* the token of SaveAsync is cancelled        *)

ASSUME ConnectionAssumption ==
  /\ TableOf \in [Records -> Tables]
  /\ MaxTx \in Nat /\ None \notin Nat /\ BatchSize \in Nat \ {0}
  /\ Calls \subseteq AllCalls /\ FaultModels \subseteq SUBSET AllFaults

VARIABLES
  faults,     (* what can go wrong in this behaviour                       *)
  connected,  (* the connection is open                                    *)
  active,     (* the transaction that is open on it                        *)
  last,       (* LastActiveTransaction                                     *)
  opening,    (* the transaction that BeginTransactionAsync waits for      *)
  ended,      (* those that ended, while Commit- or RollbackTransactionAsync*)
              (* has not been given back control yet                       *)
  nextTx,     (* the next transaction                                      *)
  rows,       (* record -> its committed rows                              *)
  work,       (* record -> its rows as the connection sees them            *)
  added,      (* the records that were added so far                        *)
  queue,      (* the records that wait to be inserted                      *)
  save,       (* table -> its Save                                         *)
  unit,       (* the transaction of the caller                             *)
  promised,   (* what the Saves of the unit were asked to save             *)
  failed      (* a call in the unit has thrown                             *)

awaited  == <<opening, ended>>
provider == <<connected, active, last, awaited, nextTx, rows, work>>
queued   == <<faults, added, queue>>
caller   == <<unit, promised, failed>>
vars     == <<provider, queued, save, caller>>

Of(t) == {r \in Records : TableOf[r] = t}

(* A Save: where it is, its transaction, whether it ends that transaction, *)
(* what was queued when it was called, the copy of the queue that it       *)
(* sends, and what was sent of it.                                         *)
Places == {"idle", "copy", "send", "commit"}
Saves == [at : Places, tx : Nat \cup {None}, ends : BOOLEAN,
          asked : SUBSET Records, copy : SUBSET Records, sent : SUBSET Records]

NoSave == [at |-> "idle", tx |-> None, ends |-> FALSE,
           asked |-> {}, copy |-> {}, sent |-> {}]

Running(t) == save[t].at # "idle"
Quiet == \A t \in Tables : ~Running(t)

Init ==
  /\ faults \in FaultModels
  /\ connected = TRUE /\ active = None /\ last = None /\ nextTx = 1
  /\ opening = None /\ ended = {}
  /\ rows = [r \in Records |-> 0] /\ work = rows
  /\ added = {} /\ queue = {}
  /\ save = [t \in Tables |-> NoSave]
  /\ unit = None /\ promised = {} /\ failed = FALSE

-----------------------------------------------------------------------------
(***************************************************************************)
(* OrpheusDatabase.                                                        *)
(***************************************************************************)

\* The provider's part of a begin: no engine opens a second transaction on one
\* connection.
BeginOpen ==
  /\ connected /\ active = None /\ nextTx <= MaxTx
  /\ active' = nextTx /\ nextTx' = nextTx + 1
  /\ UNCHANGED <<connected, rows, work>>

BeginTransaction == BeginOpen /\ last' = nextTx /\ UNCHANGED awaited

\* The transaction is open, and LastActiveTransaction not assigned yet.
BeginTransactionAsync ==
  /\ "async" \in Calls
  /\ BeginOpen
  /\ opening' = nextTx
  /\ UNCHANGED <<last, ended>>

\* BeginTransactionAsync is given back control; its transaction may be lost by then.
ResumeBegin ==
  /\ opening # None
  /\ last' = opening /\ opening' = None
  /\ UNCHANGED <<connected, active, ended, nextTx, rows, work>>

\* Or it throws: the connection was lost while it waited.
FailBegin ==
  /\ opening # None /\ active # opening
  /\ opening' = None
  /\ UNCHANGED <<connected, active, last, ended, nextTx, rows, work>>

\* LastActiveTransaction is given up with the transaction that it is.
Forget(x) == last' = IF last = x THEN None ELSE last

\* The provider's part of a commit and a rollback; they throw when the transaction is
\* not the one that is open.
CommitOpen(x) ==
  /\ active = x
  /\ rows' = work /\ active' = None
  /\ UNCHANGED <<connected, nextTx, work>>

RollbackOpen(x) ==
  /\ active = x
  /\ work' = rows /\ active' = None
  /\ UNCHANGED <<connected, nextTx, rows>>

\* CommitTransactionAsync and RollbackTransactionAsync, until they are given back control.
AwaitEnd(x) ==
  /\ "async" \in Calls
  /\ ended' = ended \cup {x}
  /\ UNCHANGED <<last, opening>>

CommitTransaction(x) ==
  /\ CommitOpen(x)
  /\ \/ Forget(x) /\ UNCHANGED awaited
     \/ AwaitEnd(x)

\* Mutant: LastActiveTransaction is not given up.
RollbackTransactionKeepsLast(x) == RollbackOpen(x) /\ UNCHANGED <<last, awaited>>

RollbackTransaction(x) ==
  /\ RollbackOpen(x)
  /\ \/ Forget(x) /\ UNCHANGED awaited
     \/ AwaitEnd(x)

\* Mutant: control comes back, and LastActiveTransaction is given up whatever it is by
\* now.
ResumeEndForgetsAll(x) ==
  /\ x \in ended
  /\ last' = None /\ ended' = ended \ {x}
  /\ UNCHANGED <<connected, active, opening, nextTx, rows, work, queued, save, caller>>

\* Control comes back after the commit or the rollback.  Another transaction may have
\* been begun by then: LastActiveTransaction is compared now.
ResumeEnd(x) ==
  /\ x \in ended
  /\ Forget(x) /\ ended' = ended \ {x}
  /\ UNCHANGED <<connected, active, opening, nextTx, rows, work, queued, save, caller>>

\* The connection is closed or lost, and its transaction with it, which the program
\* does not learn; at a commit the engine may have made it before.
Lose(committed) ==
  /\ connected
  /\ connected' = FALSE /\ active' = None
  /\ rows' = committed /\ work' = committed
  /\ UNCHANGED <<last, awaited, nextTx>>

Connect ==
  /\ ~connected /\ Quiet /\ unit = None
  /\ connected' = TRUE
  /\ UNCHANGED <<active, last, awaited, nextTx, rows, work, queued, save, caller>>

Disconnect ==
  /\ "disconnect" \in Calls
  /\ Quiet
  /\ Lose(rows)
  /\ UNCHANGED <<queued, save, caller>>

Break ==
  /\ "break" \in faults
  /\ Lose(rows)
  /\ UNCHANGED <<queued, save, caller>>

-----------------------------------------------------------------------------
(***************************************************************************)
(* A table: Add, Save and SaveAsync.                                       *)
(***************************************************************************)
\* Mutant: the record is queued and not kept in the list.
AddToQueueOnly(r) ==
  /\ r \notin added /\ r \notin queue
  /\ Running(TableOf[r]) => "overlap" \in Calls /\ save[TableOf[r]].tx # unit
  /\ queue' = queue \cup {r}
  /\ UNCHANGED <<faults, provider, added, save, caller>>

Add(r) ==
  /\ r \notin added
  /\ Running(TableOf[r]) => "overlap" \in Calls /\ save[TableOf[r]].tx # unit
  /\ added' = added \cup {r} /\ queue' = queue \cup {r}
  /\ UNCHANGED <<faults, provider, save, caller>>

Enter(t, x, ends) ==
  save' = [save EXCEPT ![t] = [NoSave EXCEPT !.at = "copy", !.tx = x,
                                 !.ends = ends, !.asked = queue \cap Of(t)]]

\* Save() and SaveAsync(): the transaction is begun and OnBeforeSave invoked before the
\* try block.
StartSave(t) ==
  /\ ~Running(t)
  /\ \/ BeginTransaction /\ Enter(t, nextTx, TRUE)
     \/ BeginTransactionAsync /\ Enter(t, nextTx, TRUE)
     \/ "beforeSave" \in faults /\ BeginTransaction /\ UNCHANGED save
  /\ UNCHANGED <<queued, caller>>

\* The Save of table t waits for its transaction.
Beginning(t) == Running(t) /\ save[t].tx = opening

\* Save(transaction, commitTransaction), with the transaction of the unit.
StartSaveIn(t, ends) ==
  /\ unit \notin {None, opening} /\ ~failed /\ Quiet
  /\ \/ Enter(t, unit, ends) /\ UNCHANGED failed
     \/ "beforeSave" \in faults /\ failed' = TRUE /\ UNCHANGED save
  /\ UNCHANGED <<provider, queued, unit, promised>>

\* executeInsert: insertCommandValues.ToList().
CopyQueue(t) ==
  /\ save[t].at = "copy" /\ ~Beginning(t)
  /\ save' = [save EXCEPT ![t].at = "send", ![t].copy = queue \cap Of(t)]
  /\ UNCHANGED <<provider, queued, caller>>

\* What one round trip may carry: the next BatchSize records of the copy, or its rest.
Chunks(rest) ==
  {chunk \in SUBSET rest :
     /\ chunk # {} /\ Cardinality(chunk) <= BatchSize
     /\ chunk = rest \/ Cardinality(chunk) = BatchSize}

Send(t) ==
  /\ save[t].at = "send" /\ active = save[t].tx
  /\ \E chunk \in Chunks(save[t].copy \ save[t].sent) :
        /\ work' = [r \in Records |-> IF r \in chunk THEN work[r] + 1 ELSE work[r]]
        /\ save' = [save EXCEPT ![t].sent = @ \cup chunk]
  /\ UNCHANGED <<connected, active, last, awaited, nextTx, rows, queued, caller>>

\* Mutant: a Save ends the transaction also when it was told not to.
EndSendAndCommit(t) ==
  /\ save[t].at = "send" /\ save[t].sent = save[t].copy
  /\ queue' = queue \ Of(t)
  /\ CommitTransaction(save[t].tx)
  /\ save' = [save EXCEPT ![t] = NoSave]
  /\ promised' = promised \cup save[t].asked
  /\ UNCHANGED <<faults, added, unit, failed>>

\* Mutant: the last chunk is taken for sent when it is not.
EndSendEarly(t) ==
  /\ save[t].at = "send"
  /\ Cardinality(save[t].copy \ save[t].sent) <= 1
  /\ queue' = queue \ Of(t)
  /\ IF save[t].ends
     THEN save' = [save EXCEPT ![t].at = "commit"] /\ UNCHANGED promised
     ELSE /\ save' = [save EXCEPT ![t] = NoSave]
          /\ promised' = promised \cup save[t].asked
  /\ UNCHANGED <<faults, provider, added, unit, failed>>

\* insertCommandValues.Clear() also drops what was added after the copy was made.  A
\* Save that does not end the transaction returns here.
EndSend(t) ==
  /\ save[t].at = "send" /\ save[t].sent = save[t].copy
  /\ queue' = queue \ Of(t)
  /\ IF save[t].ends
     THEN save' = [save EXCEPT ![t].at = "commit"] /\ UNCHANGED promised
     ELSE /\ save' = [save EXCEPT ![t] = NoSave]
          /\ promised' = promised \cup save[t].asked
  /\ UNCHANGED <<faults, provider, added, unit, failed>>

\* The Save that commits the unit ends it.
CommitSave(t) ==
  /\ save[t].at = "commit"
  /\ CommitTransaction(save[t].tx)
  /\ save' = [save EXCEPT ![t] = NoSave]
  /\ IF save[t].tx = unit
     THEN unit' = None /\ promised' = {} /\ failed' = FALSE
     ELSE UNCHANGED caller
  /\ UNCHANGED queued

\* A Save that throws: the caller of the unit learns of it.
LeaveSave(t) ==
  /\ save' = [save EXCEPT ![t] = NoSave]
  /\ failed' = (failed \/ save[t].tx = unit)
  /\ UNCHANGED <<unit, promised>>

\* Mutant: what a failed commit has sent is queued again.
LoseCommitAndQueueAgain(t) ==
  /\ "break" \in faults
  /\ save[t].at = "commit" /\ active = save[t].tx
  /\ \E committed \in {rows, work} : Lose(committed)
  /\ LeaveSave(t)
  /\ queue' = queue \cup save[t].copy
  /\ UNCHANGED <<faults, added>>

\* The connection breaks while it commits; the rollback of the catch block throws.
LoseCommit(t) ==
  /\ "break" \in faults
  /\ save[t].at = "commit" /\ active = save[t].tx
  /\ \E committed \in {rows, work} : Lose(committed)
  /\ LeaveSave(t)
  /\ UNCHANGED queued

\* The transaction of this Save is gone, so the next round trip throws.
Doomed(t) == save[t].at \in {"send", "commit"} /\ active # save[t].tx

\* Mutant: the catch block rolls back the transactions of the caller only.
FailSaveWithoutRollback(t) ==
  /\ \/ Doomed(t)
     \/ "roundTrip" \in faults /\ save[t].at \in {"send", "commit"}
  /\ IF save[t].ends /\ active = save[t].tx /\ save[t].tx = unit
     THEN RollbackTransaction(save[t].tx)
     ELSE UNCHANGED provider
  /\ LeaveSave(t)
  /\ UNCHANGED queued

\* A command or the commit throws.  The catch block rolls back, which throws in its turn
\* when the transaction is gone; a Save that does not end the transaction leaves it.
FailSave(t) ==
  /\ \/ Doomed(t)
     \/ "roundTrip" \in faults /\ save[t].at \in {"send", "commit"}
  /\ IF save[t].ends /\ active = save[t].tx THEN RollbackTransaction(save[t].tx)
                                            ELSE UNCHANGED provider
  /\ LeaveSave(t)
  /\ UNCHANGED queued

\* SaveAsync hands its cancelled token to RollbackTransactionAsync too, which gives up.
CancelSave(t) ==
  /\ "cancel" \in faults
  /\ Running(t) /\ save[t].tx # unit /\ ~Beginning(t)
  /\ LeaveSave(t)
  /\ UNCHANGED <<provider, queued>>

\* SaveAsync has its transaction, and OnBeforeSave is invoked.
ResumeSave(t) ==
  /\ Beginning(t)
  /\ ResumeBegin
  /\ \/ UNCHANGED <<save, caller>>
     \/ "beforeSave" \in faults /\ LeaveSave(t)
  /\ UNCHANGED queued

\* Or it never gets it.
AbandonSave(t) ==
  /\ Beginning(t)
  /\ FailBegin
  /\ LeaveSave(t)
  /\ UNCHANGED queued

-----------------------------------------------------------------------------
(***************************************************************************)
(* A unit of the caller.                                                   *)
(***************************************************************************)
BeginUnit ==
  /\ unit = None
  /\ BeginTransaction \/ BeginTransactionAsync
  /\ unit' = nextTx /\ promised' = {} /\ failed' = FALSE
  /\ UNCHANGED <<queued, save>>

EndUnit == unit' = None /\ promised' = {} /\ failed' = FALSE

\* The caller has its transaction, or never gets it.
ResumeUnit == unit = opening /\ ResumeBegin /\ UNCHANGED <<queued, save, caller>>
AbandonUnit == unit = opening /\ FailBegin /\ EndUnit /\ UNCHANGED <<queued, save>>

\* OrpheusDatabase.CommitTransaction, or the Commit of the transaction itself.
CommitUnit ==
  /\ unit \notin {None, opening} /\ ~failed /\ Quiet
  /\ \/ CommitTransaction(unit)
     \/ "direct" \in Calls /\ CommitOpen(unit) /\ UNCHANGED <<last, awaited>>
  /\ EndUnit
  /\ UNCHANGED <<queued, save>>

\* The commit of the unit throws: its answer is lost, or the transaction was.
FailUnit ==
  /\ unit \notin {None, opening} /\ ~failed /\ Quiet
  /\ \/ active # unit /\ UNCHANGED provider
     \/ /\ "break" \in faults /\ active = unit
        /\ \E committed \in {rows, work} : Lose(committed)
  /\ failed' = TRUE
  /\ UNCHANGED <<queued, save, unit, promised>>

\* The caller's catch block, or the end of its using block without a commit.  The call
\* throws when the transaction is gone.
RollbackUnit ==
  /\ unit \notin {None, opening} /\ Quiet
  /\ \/ RollbackTransaction(unit)
     \/ "direct" \in Calls /\ RollbackOpen(unit) /\ UNCHANGED <<last, awaited>>
     \/ active # unit /\ UNCHANGED provider
  /\ EndUnit
  /\ UNCHANGED <<queued, save>>

-----------------------------------------------------------------------------
\* The steps that the Save of a table takes by itself.
SaveStep(t) ==
  \/ ResumeSave(t) \/ AbandonSave(t)
  \/ CopyQueue(t) \/ Send(t) \/ EndSend(t) \/ CommitSave(t)
  \/ Doomed(t) /\ FailSave(t)

Next ==
  \/ Connect \/ Disconnect \/ Break
  \/ \E r \in Records : Add(r)
  \/ \E t \in Tables :
        \/ StartSave(t) \/ \E ends \in BOOLEAN : StartSaveIn(t, ends)
        \/ SaveStep(t) \/ LoseCommit(t) \/ FailSave(t) \/ CancelSave(t)
  \/ BeginUnit \/ ResumeUnit \/ AbandonUnit \/ CommitUnit \/ FailUnit \/ RollbackUnit
  \/ \E x \in ended : ResumeEnd(x)

\* The thread that is inside Save, or the task of SaveAsync, keeps running.
Fairness == \A t \in Tables : WF_vars(SaveStep(t))

Spec == Init /\ [][Next]_vars /\ Fairness

-----------------------------------------------------------------------------
(***************************************************************************)
(* Properties.                                                             *)
(***************************************************************************)

\* The transactions that were begun so far.
Begun == 1..(nextTx - 1)

\* The shape of the fields of OrpheusDatabase and of the Saves in progress.
TypeOK ==
  /\ faults \in FaultModels
  /\ connected \in BOOLEAN
  /\ active \in Begun \cup {None} /\ last \in Begun \cup {None}
  /\ opening \in Begun \cup {None} /\ ended \subseteq Begun
  /\ unit \in Begun \cup {None}
  /\ nextTx \in Nat \ {0}
  /\ rows \in [Records -> Nat] /\ work \in [Records -> Nat]
  /\ queue \subseteq added /\ added \subseteq Records
  /\ save \in [Tables -> Saves]
  /\ promised \subseteq Records /\ failed \in BOOLEAN

\* While a transaction is open, LastActiveTransaction is that one, which Schema reads
\* to put its query into it: whatever broke, was ended behind its back, or came back late
\* from a commit, before.  Only while BeginTransactionAsync still waits for it, it is not.
OpenTransactionIsLast == active # None => connected /\ active \in {last, opening}

\* LastActiveTransaction is a transaction that is not open, nor just about to be given up.
Stale == last \notin {None, active} /\ last \notin ended

\* LastActiveTransaction is left pointing at a transaction that is gone only if that one
\* went with its connection, or was ended by a call of its own: never by a commit or a
\* rollback of the database, sync or async, in whatever order their answers come back.
StaysCurrent ==
  ~Stale /\ Stale' => \/ ~connected'
                      \/ "direct" \in Calls /\ last = unit /\ unit' = None

GoesStaleOnlyByLoss == [][StaysCurrent]_vars

\* Whatever failed, was lost or was tried again, no record is committed twice: a record
\* that still waits in a queue is not in the database (executeInsert clears the queue
\* before the commit, whose answer may be lost).
CommittedOnce == \A r \in Records : rows[r] <= 1 /\ (r \in queue => rows[r] = 0)

\* Until the caller ends its unit, what the Saves in it have saved is in its transaction
\* and not in the database, unless the connection is lost or a call has thrown
\* (Save with commitTransaction = false).
UnitIsHeldBack ==
  unit # None /\ connected /\ ~failed =>
     active = unit /\ \A r \in promised : rows[r] = 0 /\ work[r] = 1

\* A Save, or the commit of a unit, that returns has committed everything that was
\* queued when it, or the Saves of the unit, were called, whatever was added since.
CommitsWhatWasAsked ==
  /\ \A t \in Tables : CommitSave(t) => \A r \in save[t].asked : rows'[r] = 1
  /\ CommitUnit => \A r \in promised : rows'[r] = 1

SuccessMeansSaved == [][CommitsWhatWasAsked]_vars

\* A transaction that a Save has begun comes to an end, by itself: BeginTransaction
\* works again (the catch block of Save), unless a handler throws before that block or
\* the token of SaveAsync is cancelled.
OwnTransactionsEnd ==
  faults \cap {"beforeSave", "cancel"} = {} =>
     \A x \in 1..MaxTx : (active = x /\ unit # x) ~> (active # x)

-----------------------------------------------------------------------------
(***************************************************************************)
(* The inductive invariant.                                                *)
(***************************************************************************)

\* The Save of table t works in the transaction that is open.
InActive(t) == Running(t) /\ save[t].tx = active

\* The transaction that BeginTransactionAsync waits for is the open one, unless it is
\* lost, and nothing is done in it yet; those that ended are not open.
AwaitInvariant ==
  /\ active \notin ended
  /\ opening # None =>
       /\ connected => active = opening
       /\ opening = unit \/ \E t \in Tables : Beginning(t)
       /\ \A t \in Tables : Beginning(t) => save[t].at = "copy" /\ unit # opening

\* What the rows and the queue say of each other.
RowsInvariant ==
  /\ active = None => work = rows
  /\ \A r \in Records : /\ rows[r] <= work[r] /\ work[r] <= 1
                        /\ r \notin added => work[r] = 0
                        /\ r \in queue => rows[r] = 0

\* Where each Save is: one at most works in the open transaction, and what it has sent
\* is there.
SaveInvariant ==
  \A t \in Tables :
     /\ Running(t) => save[t].tx \in Begun /\ save[t].asked \subseteq Of(t) \cap added
     /\ Running(t) /\ ~save[t].ends => save[t].tx = unit
     /\ save[t].at = "copy" => save[t].asked \subseteq queue /\ save[t].sent = {}
     /\ save[t].at = "send" => save[t].copy \subseteq queue \cap Of(t)
     /\ save[t].at \in {"send", "commit"} => /\ save[t].asked \subseteq save[t].copy
                                             /\ save[t].sent \subseteq save[t].copy
     /\ save[t].at = "commit" => save[t].sent = save[t].copy /\ save[t].ends
     /\ InActive(t) => /\ \A r \in save[t].sent : work[r] = 1
                       /\ \A u \in Tables : InActive(u) => u = t

\* A record that waits, although a row of it is in the open transaction, was sent by the
\* Save in progress; or nothing will be sent or committed in this transaction any more.
WaitingInvariant ==
  \A r \in queue :
     work[r] = 1 => \/ /\ InActive(TableOf[r]) /\ save[TableOf[r]].at = "send"
                      /\ r \in save[TableOf[r]].sent
                   \/ /\ \A t \in Tables : ~InActive(t)
                      /\ unit = active => failed

\* What the Saves of the unit have saved waits no longer.
UnitInvariant == UnitIsHeldBack /\ promised \subseteq added \ queue

IInv ==
  TypeOK /\ OpenTransactionIsLast /\ AwaitInvariant /\ RowsInvariant /\ SaveInvariant
  /\ WaitingInvariant /\ UnitInvariant

(***************************************************************************)
(* What the documentation says and the code does not do.                   *)
(***************************************************************************)

\* A transaction that is open belongs to a Save in progress or to the caller: after an
\* error, the transaction of a Save has been rolled back.
NoOrphanTransaction ==
  active # None =>
     active = unit \/ \E t \in Tables : Running(t) /\ save[t].tx = active
=============================================================================
