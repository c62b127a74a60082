------------------------ MODULE OrpheusSchemaCallProofs ------------------------
(***************************************************************************)
(* Theorems about what the calls of OrpheusSchema achieve, on top of the   *)
(* inductive invariant of OrpheusSchemaProofs: what a first Drop leaves,   *)
(* what the register says, what Execute makes, and which commands of a     *)
(* first call the database accepts.                                        *)
(***************************************************************************)
EXTENDS OrpheusSchemaProofs

-----------------------------------------------------------------------------
(***************************************************************************)
(* What still waits in the call, and what a step makes of it.              *)
(***************************************************************************)
Holds(s, o) == \E i \in DOMAIN s : s[i].obj = o

LEMMA HoldsPushed ==
  ASSUME NEW s \in Frames, NEW t, NEW f, Pushed(FrameSet, t, f, s), NEW o
  PROVE  Holds(t, o) <=> f.obj = o \/ Holds(s, o)
<1>1. /\ DOMAIN s = 1..Len(s) /\ Len(s) \in Nat
      /\ DOMAIN t = 1..(Len(s) + 1) /\ t[1] = f
      /\ \A i \in 1..Len(s) : t[i + 1] = s[i]
      /\ \A i \in 2..(Len(s) + 1) : t[i] = s[i - 1]
  BY DEF Pushed, Frames
<1>2. ASSUME f.obj = o
      PROVE  Holds(t, o)
  <2>1. 1 \in DOMAIN t /\ t[1].obj = o
    BY <1>1, <1>2
  <2>2. QED BY <2>1 DEF Holds
<1>3. ASSUME Holds(s, o)
      PROVE  Holds(t, o)
  <2>1. PICK i \in 1..Len(s) : s[i].obj = o
    BY <1>1, <1>3 DEF Holds
  <2>2. i + 1 \in DOMAIN t /\ t[i + 1].obj = o
    BY <1>1, <2>1
  <2>3. QED BY <2>2 DEF Holds
<1>4. ASSUME Holds(t, o)
      PROVE  f.obj = o \/ Holds(s, o)
  <2>1. PICK i \in 1..(Len(s) + 1) : t[i].obj = o
    BY <1>1, <1>4 DEF Holds
  <2>2. CASE i = 1
    BY <1>1, <2>1, <2>2
  <2>3. CASE i \in 2..(Len(s) + 1)
    <3>1. i - 1 \in DOMAIN s /\ s[i - 1].obj = o
      BY <1>1, <2>1, <2>3
    <3>2. QED BY <3>1 DEF Holds
  <2>4. i = 1 \/ i \in 2..(Len(s) + 1)
    BY <1>1, <2>1
  <2>5. QED BY <2>2, <2>3, <2>4
<1>5. QED BY <1>2, <1>3, <1>4

LEMMA HoldsReplaced ==
  ASSUME NEW s \in Frames, s # <<>>, NEW t, NEW f, f.obj = s[1].obj,
         Replaced(FrameSet, t, f, s), NEW o
  PROVE  Holds(t, o) <=> Holds(s, o)
<1>1. /\ DOMAIN s = 1..Len(s) /\ Len(s) \in Nat /\ DOMAIN t = 1..Len(s) /\ t[1] = f
      /\ \A i \in 2..Len(s) : t[i] = s[i]
  BY DEF Replaced, Frames
<1>2. \A i \in 1..Len(s) : t[i].obj = s[i].obj
  <2>1. SUFFICES ASSUME NEW i \in 1..Len(s)
                 PROVE  t[i].obj = s[i].obj
    OBVIOUS
  <2>2. i = 1 \/ i \in 2..Len(s)
    BY <1>1
  <2>3. QED BY <1>1, <2>2
<1>3. QED BY <1>1, <1>2 DEF Holds

LEMMA HoldsPopped ==
  ASSUME NEW s \in Frames, s # <<>>, NEW t, Popped(FrameSet, t, s), NEW o
  PROVE  /\ Holds(s, o) => o = s[1].obj \/ Holds(t, o)
         /\ Holds(t, o) => Holds(s, o)
<1>1. /\ DOMAIN s = 1..Len(s) /\ Len(s) \in Nat \ {0} /\ DOMAIN t = 1..(Len(s) - 1)
      /\ \A i \in 1..(Len(s) - 1) : t[i] = s[i + 1]
  BY DEF Popped, Frames
<1>2. ASSUME Holds(s, o), o # s[1].obj
      PROVE  Holds(t, o)
  <2>1. PICK i \in 1..Len(s) : s[i].obj = o
    BY <1>1, <1>2 DEF Holds
  <2>2. i # 1
    BY <1>2, <2>1
  <2>3. i - 1 \in DOMAIN t /\ t[i - 1] = s[i]
    <3>1. i - 1 \in 1..(Len(s) - 1) /\ (i - 1) + 1 = i
      BY <1>1, <2>2
    <3>2. QED BY <1>1, <3>1
  <2>4. QED BY <2>1, <2>3 DEF Holds
<1>3. ASSUME Holds(t, o)
      PROVE  Holds(s, o)
  <2>1. PICK i \in 1..(Len(s) - 1) : t[i].obj = o
    BY <1>1, <1>3 DEF Holds
  <2>2. i + 1 \in DOMAIN s /\ s[i + 1].obj = o
    BY <1>1, <2>1
  <2>3. QED BY <2>2 DEF Holds
<1>4. QED BY <1>2, <1>3

LEMMA ExecutingHolds ==
  ASSUME NEW o
  PROVE  (Executing(o) <=> Holds(stack, o)) /\ (Executing(o)' <=> Holds(stack', o))
BY DEF Executing, Holds

\* The tasks that are left when the first one is done.
LEMMA QueuedPopped ==
  ASSUME agenda \in Seq(TaskSet), agenda # <<>>, Popped(TaskSet, agenda', agenda), NEW task
  PROVE  Queued(task) => task = agenda[1] \/ Queued(task)'
<1>1. /\ DOMAIN agenda = 1..Len(agenda) /\ Len(agenda) \in Nat \ {0}
      /\ DOMAIN agenda' = 1..(Len(agenda) - 1)
      /\ \A i \in 1..(Len(agenda) - 1) : agenda'[i] = agenda[i + 1]
  BY DEF Popped
<1>2. SUFFICES ASSUME Queued(task), task # agenda[1]
               PROVE  Queued(task)'
  OBVIOUS
<1>3. PICK i \in 1..Len(agenda) : agenda[i] = task
  BY <1>1, <1>2 DEF Queued
<1>4. i - 1 \in 1..(Len(agenda) - 1) /\ (i - 1) + 1 = i
  BY <1>1, <1>2, <1>3
<1>5. i - 1 \in DOMAIN agenda' /\ agenda'[i - 1] = task
  BY <1>1, <1>3, <1>4
<1>6. QED BY <1>5 DEF Queued

\* An object that waits in the call still does after the step.
Kept(do, o) == Waits(do, o) => Waits(do, o)'

LEMMA SameWaits ==
  ASSUME UNCHANGED <<stack, agenda>>, NEW do, NEW o
  PROVE  Kept(do, o)
BY DEF Kept, Waits, Queued, Executing

\* The next object of the list has its turn: it executes, or is not let in.
LEMMA NextWaits ==
  ASSUME StackInvariant, NextEffect, NEW do, NEW o
  PROVE  \/ Kept(do, o)
         \/ /\ agenda[1] = Task(do, o) /\ o = agenda[1].obj /\ do = agenda[1].do
            /\ \E seen \in BOOLEAN :
                  Answer(o, seen) /\ (o \in isCreated \/ (do = "drop" /\ ~seen))
<1>1. /\ stack = <<>> /\ agenda \in Seq(TaskSet) /\ agenda # <<>>
      /\ Popped(TaskSet, agenda', agenda)
      /\ Entering(agenda[1].obj, agenda[1].do = "drop", <<>>)
  BY DEF NextEffect, StackInvariant
<1>2. ~Executing(o)
  BY <1>1 DEF Executing
<1>3. Queued(Task(do, o)) => agenda[1] = Task(do, o) \/ Queued(Task(do, o))'
  BY <1>1, QueuedPopped
<1>4. SUFFICES ASSUME agenda[1] = Task(do, o), ~Kept(do, o)
               PROVE  \E seen \in BOOLEAN :
                        Answer(o, seen) /\ (o \in isCreated \/ (do = "drop" /\ ~seen))
  <2>1. agenda[1] = Task(do, o) => o = agenda[1].obj /\ do = agenda[1].do
    BY DEF Task
  <2>2. agenda[1] = Task(do, o) \/ Kept(do, o)
    BY <1>2, <1>3 DEF Kept, Waits
  <2>3. QED BY <2>1, <2>2
<1>5. o = agenda[1].obj /\ do = agenda[1].do
  BY <1>4 DEF Task
<1>6. Entering(o, do = "drop", <<>>)
  BY <1>1, <1>5
<1>7. ~Executing(o)'
  BY <1>4 DEF Kept, Waits
<1>8. PICK seen \in BOOLEAN :
        /\ Answer(o, seen)
        /\ \/ stack' = <<>> /\ (o \in isCreated \/ (do = "drop" /\ ~seen))
           \/ \E f \in FrameSet :
                NewFrame(f, o, do = "drop", seen) /\ Pushed(FrameSet, stack', f, <<>>)
  BY <1>6 DEF Entering
<1>9. ASSUME NEW f \in FrameSet, NewFrame(f, o, do = "drop", seen),
             Pushed(FrameSet, stack', f, <<>>)
      PROVE  FALSE
  <2>1. f.obj = o /\ <<>> \in Frames
    BY <1>9 DEF NewFrame, Frames
  <2>2. Holds(stack', o)
    BY <1>9, <2>1, HoldsPushed
  <2>3. QED BY <1>7, <2>2, ExecutingHolds
<1>10. QED BY <1>8, <1>9

\* What executes waits below what it visits.
LEMMA EnteringWaits ==
  ASSUME NEW p, NEW drop, NEW below \in Frames, Entering(p, drop, below), NEW o
  PROVE  Holds(below, o) => Holds(stack', o)
BY HoldsPushed DEF Entering

LEMMA VisitExecutes ==
  ASSUME StackInvariant, NEW p, NEW f, NEW below, VisitEffect(p, f, below), NEW o
  PROVE  Executing(o) => Executing(o)'
<1>1. /\ stack # <<>> /\ f = [Top EXCEPT !.visit = @ \ {p}] /\ below \in Frames
      /\ Replaced(FrameSet, below, f, stack) /\ Entering(p, Top.action = "drop", below)
  BY DEF VisitEffect
<1>2. stack \in Frames /\ Top = stack[1] /\ Top \in FrameSet
  BY <1>1, TopFrame
<1>3. f.obj = stack[1].obj
  BY <1>1, <1>2 DEF FrameSet
<1>4. Holds(stack, o) => Holds(below, o)
  BY <1>1, <1>2, <1>3, HoldsReplaced
<1>5. Holds(below, o) => Holds(stack', o)
  BY <1>1, EnteringWaits
<1>6. QED BY <1>4, <1>5, ExecutingHolds

LEMMA VisitWaits ==
  ASSUME StackInvariant, NEW p, NEW f, NEW below, VisitEffect(p, f, below), NEW do, NEW o
  PROVE  Kept(do, o)
BY VisitExecutes DEF Kept, Waits, Queued, VisitEffect

\* The innermost object goes on.
LEMMA ReplacedWaits ==
  ASSUME StackInvariant, stack # <<>>, NEW f, f.obj = Top.obj,
         Replaced(FrameSet, stack', f, stack), UNCHANGED agenda, NEW do, NEW o
  PROVE  Kept(do, o)
<1>1. stack \in Frames /\ Top = stack[1]
  BY TopFrame
<1>2. Holds(stack, o) => Holds(stack', o)
  BY <1>1, HoldsReplaced
<1>3. QED BY <1>2, ExecutingHolds DEF Kept, Waits, Queued

LEMMA StageWaits ==
  ASSUME StackInvariant, NEW f, NEW stage, NEW ddl, StageEffect(f, stage, ddl),
         UNCHANGED agenda, NEW do, NEW o
  PROVE  Kept(do, o)
BY ReplacedWaits DEF StageEffect

\* The innermost object is done.
LEMMA PoppedWaits ==
  ASSUME StackInvariant, stack # <<>>, Popped(FrameSet, stack', stack), UNCHANGED agenda,
         NEW do, NEW o, o # Top.obj
  PROVE  Kept(do, o)
<1>1. stack \in Frames /\ Top = stack[1]
  BY TopFrame
<1>2. Holds(stack, o) => Holds(stack', o)
  BY <1>1, HoldsPopped
<1>3. QED BY <1>2, ExecutingHolds DEF Kept, Waits, Queued

LEMMA LeaveWaits ==
  ASSUME StackInvariant, NEW action, LeaveEffect(action), UNCHANGED agenda,
         NEW do, NEW o, o # Top.obj
  PROVE  Kept(do, o)
BY PoppedWaits DEF LeaveEffect

\* A task of another kind is done.
LEMMA TaskWaits ==
  ASSUME StackInvariant, agenda # <<>>, agenda' = Tail(agenda), UNCHANGED stack,
         NEW do, agenda[1].do # do, NEW o
  PROVE  Kept(do, o)
<1>1. agenda \in Seq(TaskSet) /\ Popped(TaskSet, agenda', agenda)
  BY HeadTask DEF StackInvariant
<1>2. agenda[1] # Task(do, o)
  BY DEF Task
<1>3. Queued(Task(do, o)) => Queued(Task(do, o))'
  BY <1>1, <1>2, QueuedPopped
<1>4. QED BY <1>3 DEF Kept, Waits, Executing

-----------------------------------------------------------------------------
(***************************************************************************)
(* A first Drop.                                                           *)
(***************************************************************************)
LEMMA OtherCall ==
  ASSUME call' # "drop"
  PROVE  DropInvariant'
BY DEF DropInvariant

\* The call goes on, and every table that is left still waits.
LEMMA DropGoesOn ==
  ASSUME DropInvariant, UNCHANGED <<call, calls, order>>,
         ~unseen' => ~unseen, isCreated' \subseteq isCreated,
         \A o : call = "drop" /\ ~unseen' /\ isCreated = {} /\ o \in DOMAIN tables' =>
                  o \in DOMAIN tables /\ Kept("drop", o)
  PROVE  DropInvariant'
BY DEF DropInvariant, Kept

\* In a Drop what executes is being dropped.
LEMMA DropsOnly ==
  ASSUME StackInvariant, stack # <<>>
  PROVE  /\ call \in {"none", "execute", "drop"} => call \in {"execute", "drop"}
         /\ call = "drop" => Top.action = "drop" /\ Top.obj \in Objects /\ agenda # <<>>
         /\ call = "execute" => Top.action # "drop"
<1>1. Top = stack[1] /\ 1 \in DOMAIN stack
  BY TopFrame
<1>2. OfCall(Top)
  BY <1>1 DEF StackInvariant, FrameInvariant
<1>3. QED BY <1>2 DEF OfCall, StackInvariant, AgendaInvariant

LEMMA AnswerSeen ==
  ASSUME InstanceInvariant, NEW o, NEW seen, Answer(o, seen)
  PROVE  ~unseen' => ~unseen /\ seen = Exists(o)
BY DEF Answer, InstanceInvariant

LEMMA EnteringSeen ==
  ASSUME InstanceInvariant, NEW o, NEW drop, NEW below, Entering(o, drop, below)
  PROVE  ~unseen' => ~unseen
BY AnswerSeen DEF Entering

LEMMA NextObjectDrops ==
  ASSUME IInv, DropInvariant, NextObject
  PROVE  DropInvariant'
<1> USE DEF IInv
<1>1. NextEffect
  BY NextObjectEffect
<1>2. /\ UNCHANGED <<call, calls, order, isCreated, tables>>
      /\ Entering(agenda[1].obj, agenda[1].do = "drop", <<>>)
  BY <1>1 DEF NextEffect, database, instance, application
<1>3. ~unseen' => ~unseen
  BY <1>2, EnteringSeen
<1>4. ASSUME NEW o, call = "drop", ~unseen', isCreated = {}, o \in DOMAIN tables'
      PROVE  o \in DOMAIN tables /\ Kept("drop", o)
  <2>1. o \in DOMAIN tables
    BY <1>2, <1>4
  <2>2. CASE \E seen \in BOOLEAN :
               Answer(o, seen) /\ (o \in isCreated \/ ("drop" = "drop" /\ ~seen))
    <3>1. PICK seen \in BOOLEAN : Answer(o, seen) /\ ~seen
      BY <1>4, <2>2
    <3>2. seen = Exists(o)
      BY <1>4, <3>1, AnswerSeen
    <3>3. QED BY <2>1, <3>1, <3>2 DEF Exists
  <2>3. QED BY <1>1, <2>1, <2>2, NextWaits
<1>5. QED BY <1>2, <1>3, <1>4, DropGoesOn

LEMMA VisitDependencyDrops ==
  ASSUME IInv, DropInvariant, VisitDependency
  PROVE  DropInvariant'
<1> USE DEF IInv
<1>1. PICK p \in All, f \in FrameSet, below \in Frames : VisitEffect(p, f, below)
  BY VisitDependencyEffect
<1>2. UNCHANGED <<call, calls, order, isCreated, tables>> /\ (~unseen' => ~unseen)
  BY <1>1, EnteringSeen DEF VisitEffect, database, instance, application
<1>3. \A o : Kept("drop", o)
  BY <1>1, VisitWaits
<1>4. QED BY <1>2, <1>3, DropGoesOn

LEMMA BeginDrops ==
  ASSUME IInv, DropInvariant, Begin
  PROVE  DropInvariant'
<1> USE DEF IInv
<1>1. PICK f : BeginEffect(f)
  BY BeginsOrLeaves
<1>2. UNCHANGED <<call, calls, order, isCreated, tables, unseen, agenda>> /\ stack # <<>>
  BY <1>1 DEF BeginEffect, database, instance, application
<1>3. ASSUME NEW o, call = "drop"
      PROVE  Kept("drop", o)
  <2>1. Top.action = "drop"
    BY <1>2, <1>3, DropsOnly
  <2>2. f.obj = Top.obj /\ Replaced(FrameSet, stack', f, stack)
    BY <1>1, <2>1 DEF BeginEffect
  <2>3. QED BY <1>2, <2>2, ReplacedWaits
<1>4. QED BY <1>2, <1>3, DropGoesOn

LEMMA RunCommandDrops ==
  ASSUME IInv, DropInvariant, RunCommand
  PROVE  DropInvariant'
<1> USE DEF IInv
<1>1. PICK f : StageEffect(f, "run", Tail(Top.ddl))
  BY RunCommandEffect
<1>2. /\ UNCHANGED <<call, calls, order, tables, unseen, agenda>>
      /\ Top.action = "drop" => isCreated' \subseteq isCreated
  BY DEF RunCommand, database, application
<1>3. \A o : Kept("drop", o)
  BY <1>1, <1>2, StageWaits
<1>4. CASE call = "drop"
  <2>1. Top.action = "drop"
    BY <1>1, <1>4, DropsOnly DEF StageEffect
  <2>2. QED BY <1>2, <1>3, <2>1, DropGoesOn
<1>5. CASE call # "drop"
  BY <1>2, <1>5, OtherCall
<1>6. QED BY <1>4, <1>5

LEMMA CommitDrops ==
  ASSUME IInv, DropInvariant, Commit
  PROVE  DropInvariant'
<1> USE DEF IInv
<1>1. PICK f : StageEffect(f, "committed", <<>>)
  BY CommitEffect
<1>2. /\ UNCHANGED <<call, calls, order, isCreated, unseen, agenda>>
      /\ tables' = work /\ Stage("run") /\ Top.ddl = <<>>
  BY DEF Commit, instance, application
<1>3. \A o : Kept("drop", o)
  BY <1>1, <1>2, StageWaits
<1>4. ASSUME NEW o, call = "drop", o \in DOMAIN tables'
      PROVE  o \in DOMAIN tables
  <2>1. Top.action = "drop"
    BY <1>1, <1>4, DropsOnly DEF StageEffect
  <2>2. TransactionInvariant /\ DOMAIN work \subseteq All
    BY <1>2 DEF WorkInvariant, Database
  <2>3. o # Top.obj
    BY <1>2, <1>4, <2>1, <2>2 DEF TransactionInvariant
  <2>4. QED BY <1>2, <1>4, <2>2, <2>3 DEF TransactionInvariant, OthersUntouched
<1>5. QED BY <1>2, <1>3, <1>4, DropGoesOn

\* A CREATE or an ALTER that leaves is none of a Drop.
LEMMA LeavingDrops ==
  ASSUME IInv, NEW action, action # "drop", LeaveEffect(action), UNCHANGED call
  PROVE  DropInvariant'
<1>1. call # "drop"
  BY DropsOnly DEF IInv, LeaveEffect
<1>2. QED BY <1>1, OtherCall

LEMMA UnregisterObjectDrops ==
  ASSUME IInv, DropInvariant, UnregisterObject
  PROVE  DropInvariant'
<1> USE DEF IInv
<1>1. LeaveEffect("drop") /\ Stage("committed") /\ Top.action = "drop"
  BY LeavingEffect DEF UnregisterObject
<1>2. /\ UNCHANGED <<call, calls, order, isCreated, tables, agenda>>
      /\ ~unseen' => ~unseen
  BY DEF UnregisterObject, application
<1>3. ~Exists(Top.obj)
  BY <1>1 DEF WorkInvariant
<1>4. ASSUME NEW o, o \in DOMAIN tables'
      PROVE  o \in DOMAIN tables /\ Kept("drop", o)
  <2>1. o # Top.obj
    BY <1>2, <1>3, <1>4 DEF Exists
  <2>2. QED BY <1>1, <1>2, <1>4, <2>1, LeaveWaits
<1>5. QED BY <1>2, <1>4, DropGoesOn

\* The tasks that are no objects.
LEMMA TaskDrops ==
  ASSUME IInv, DropInvariant, RegisterSchema \/ ClearCache
  PROVE  DropInvariant'
<1> USE DEF IInv
<1>1. /\ UNCHANGED <<call, calls, order, isCreated, tables, unseen, stack>>
      /\ agenda # <<>> /\ agenda' = Tail(agenda) /\ agenda[1].do # "drop"
  BY DEF RegisterSchema, ClearCache, Turn, database, instance, application
<1>2. \A o : Kept("drop", o)
  BY <1>1, TaskWaits
<1>3. QED BY <1>1, <1>2, DropGoesOn

LEMMA DropStarts ==
  ASSUME IInv, Drop
  PROVE  DropInvariant'
<1> USE DEF IInv
<1> DEFINE tasks == Each("drop") \o << Task("clearCache", "Info") >>
<1>1. /\ call = "none" /\ calls' = calls + 1 /\ agenda' = tasks
      /\ UNCHANGED <<order, isCreated, tables>>
  BY DEF Drop, Call, database, instance, application
<1>2. calls' = 1 => isCreated' = {}
  BY <1>1 DEF InstanceInvariant
<1>3. /\ tasks \in Seq(TaskSet) /\ Len(tasks) = Len(order) + 1 /\ Len(order) \in Nat
      /\ \A i \in 1..Len(order) : tasks[i] = Task("drop", order[i])
  BY DropAgenda
<1> HIDE DEF tasks
<1>4. ASSUME NEW o \in ToSet(order)
      PROVE  Waits("drop", o)'
  <2>1. DOMAIN order = 1..Len(order)
    BY DEF InstanceInvariant
  <2>2. PICK i \in 1..Len(order) : order[i] = o
    BY <2>1 DEF ToSet
  <2>3. i \in DOMAIN tasks /\ tasks[i] = Task("drop", o)
    BY <1>3, <2>2
  <2>4. QED BY <1>1, <2>3 DEF Waits, Queued
<1>5. QED BY <1>1, <1>2, <1>4 DEF DropInvariant

LEMMA StepDrops ==
  ASSUME IInv, DropInvariant, [Next]_vars
  PROVE  DropInvariant'
<1>1. CASE UNCHANGED vars
  BY <1>1, SameWaits, DropGoesOn DEF vars, database, instance, application, progress
<1>2. CASE Restart \/ Execute \/ Return \/ Throw
  <2>1. call' # "drop"
    BY <1>2 DEF Restart, Execute, Call, Return, Throw
  <2>2. QED BY <2>1, OtherCall
<1>3. CASE Drop
  BY <1>3, DropStarts
<1>4. CASE NextObject \/ VisitDependency \/ Begin \/ RunCommand \/ Commit
  BY <1>4, NextObjectDrops, VisitDependencyDrops, BeginDrops, RunCommandDrops, CommitDrops
<1>5. CASE RegisterObject
  <2>1. LeaveEffect("create") /\ UNCHANGED call
    BY <1>5, LeavingEffect DEF RegisterObject, IInv
  <2>2. QED BY <2>1, LeavingDrops
<1>6. CASE LeaveAltered
  <2>1. LeaveEffect("alter") /\ UNCHANGED call
    BY <1>6, LeavingEffect DEF LeaveAltered, IInv
  <2>2. QED BY <2>1, LeavingDrops
<1>7. CASE UnregisterObject
  BY <1>7, UnregisterObjectDrops
<1>8. CASE RegisterSchema \/ ClearCache
  BY <1>8, TaskDrops
<1>9. QED BY <1>1, <1>2, <1>3, <1>4, <1>5, <1>6, <1>7, <1>8 DEF Next, Progress

\* A Drop that is the first call of an instance comes to every object of the schema that is
\* a table, unless the database could not be asked: no flag of IsCreated is in its way.
THEOREM FirstDrop == Spec => []DropInvariant
<1>1. Init => DropInvariant
  BY DEF Init, DropInvariant
<1>2. IInv /\ DropInvariant /\ [Next]_vars => DropInvariant'
  BY StepDrops
<1>3. QED BY <1>1, <1>2, SchemaInvariant, PTL DEF Spec

\* When it returns, no object of the schema is a table any more (Schema.Drop).
THEOREM FreshDrop == Spec => []FreshDropLeavesNothing
<1>1. DropInvariant => FreshDropLeavesNothing
  <2>1. SUFFICES ASSUME DropInvariant, Done("drop"), calls = 1, ~unseen
                 PROVE  ToSet(order) \cap DOMAIN tables = {}
    BY DEF FreshDropLeavesNothing
  <2>2. \A o : ~Waits("drop", o)
    BY <2>1 DEF Done, Waits, Queued, Executing
  <2>3. QED BY <2>1, <2>2 DEF DropInvariant, Done
<1>2. QED BY <1>1, FirstDrop, PTL

-----------------------------------------------------------------------------
(***************************************************************************)
(* The register and the schema's row.                                      *)
(***************************************************************************)

\* As long as the schema is not registered, only Orpheus's own tables have their turn.
OwnTasks ==
  \A i \in DOMAIN agenda :
     agenda[i].do = "execute" /\ agenda[i].obj \in Objects =>
       \E j \in 1..(i - 1) : agenda[j].do = "registerSchema"

OwnFrames == \A i \in DOMAIN stack : stack[i].obj \in Internal

LEMMA RegisteredAnyway ==
  ASSUME RegisteredInvariant, ~registered' => ~registered /\ rows' \cap Objects \subseteq rows,
         call' = "execute" => call = "execute",
         ~registered /\ call = "execute" /\ OwnTasks /\ OwnFrames => OwnTasks' /\ OwnFrames'
  PROVE  RegisteredInvariant'
BY DEF RegisteredInvariant, OwnTasks, OwnFrames

LEMMA OwnFramesStay ==
  ASSUME OwnFrames, \A o : Holds(stack', o) => Holds(stack, o) \/ o \in Internal
  PROVE  OwnFrames'
BY DEF OwnFrames, Holds

LEMMA OwnTasksStay ==
  ASSUME agenda \in Seq(TaskSet), agenda # <<>>, Popped(TaskSet, agenda', agenda),
         agenda[1].do # "registerSchema", OwnTasks
  PROVE  OwnTasks'
<1>1. /\ DOMAIN agenda = 1..Len(agenda) /\ Len(agenda) \in Nat \ {0}
      /\ DOMAIN agenda' = 1..(Len(agenda) - 1)
      /\ \A i \in 1..(Len(agenda) - 1) : agenda'[i] = agenda[i + 1]
  BY DEF Popped
<1>2. SUFFICES ASSUME NEW i \in 1..(Len(agenda) - 1), agenda'[i].do = "execute",
                      agenda'[i].obj \in Objects
               PROVE  \E j \in 1..(i - 1) : agenda'[j].do = "registerSchema"
  BY <1>1 DEF OwnTasks
<1>3. i + 1 \in DOMAIN agenda /\ agenda'[i] = agenda[i + 1] /\ (i + 1) - 1 = i
  BY <1>1
<1>4. PICK j \in 1..((i + 1) - 1) : agenda[j].do = "registerSchema"
  BY <1>2, <1>3 DEF OwnTasks
<1>5. j # 1
  BY <1>4
<1>6. j - 1 \in 1..(i - 1) /\ j - 1 \in 1..(Len(agenda) - 1) /\ (j - 1) + 1 = j
  BY <1>1, <1>3, <1>4, <1>5
<1>7. agenda'[j - 1].do = "registerSchema"
  BY <1>1, <1>4, <1>6
<1>8. QED BY <1>6, <1>7

LEMMA NextObjectRegisters ==
  ASSUME IInv, RegisteredInvariant, NextObject
  PROVE  RegisteredInvariant'
<1> USE DEF IInv
<1>1. NextEffect
  BY NextObjectEffect
<1>2. /\ UNCHANGED <<call, registered, rows>>
      /\ agenda # <<>> /\ Popped(TaskSet, agenda', agenda) /\ agenda \in Seq(TaskSet)
      /\ agenda[1].do \in {"execute", "drop"} /\ agenda[1].obj \in All
      /\ Entering(agenda[1].obj, agenda[1].do = "drop", <<>>)
  BY <1>1 DEF NextEffect, StackInvariant, database, instance, application
<1>3. ASSUME call = "execute", OwnTasks
      PROVE  OwnTasks' /\ OwnFrames'
  <2>1. 1 \in DOMAIN agenda /\ agenda[1].do = "execute"
    BY <1>2, <1>3, HeadTask DEF StackInvariant, AgendaInvariant
  <2>2. \A j \in 1..(1 - 1) : FALSE
    OBVIOUS
  <2>3. agenda[1].obj \notin Objects
    BY <1>3, <2>1, <2>2 DEF OwnTasks
  <2>4. agenda[1].obj \in Internal
    BY <1>2, <2>3 DEF All
  <2>5. OwnTasks'
    BY <1>2, <1>3, <2>1, OwnTasksStay
  <2>6. OwnFrames'
    <3>1. CASE stack' = <<>>
      BY <3>1 DEF OwnFrames
    <3>2. CASE \E f \in FrameSet : f.obj = agenda[1].obj /\ Pushed(FrameSet, stack', f, <<>>)
      <4>1. PICK f \in FrameSet : f.obj = agenda[1].obj /\ Pushed(FrameSet, stack', f, <<>>)
        BY <3>2
      <4>2. DOMAIN stack' = 1..1 /\ stack'[1] = f
        BY <4>1 DEF Pushed
      <4>3. QED BY <2>4, <4>1, <4>2 DEF OwnFrames
    <3>3. QED BY <1>2, <3>1, <3>2 DEF Entering, NewFrame
  <2>7. QED BY <2>5, <2>6
<1>4. QED BY <1>2, <1>3, RegisteredAnyway

\* Orpheus's own tables visit nothing.
LEMMA VisitDependencyRegisters ==
  ASSUME IInv, RegisteredInvariant, VisitDependency
  PROVE  RegisteredInvariant'
<1> USE DEF IInv
<1>1. /\ UNCHANGED <<call, registered, rows>> /\ stack # <<>> /\ Top.visit # {}
  BY DEF VisitDependency, Stage, database, instance, application
<1>2. ~OwnFrames
  <2>1. Top = stack[1] /\ 1 \in DOMAIN stack
    BY <1>1, TopFrame
  <2>2. Active(Top)
    BY <2>1 DEF StackInvariant, FrameInvariant
  <2>3. QED BY <1>1, <2>1, <2>2 DEF OwnFrames, Active
<1>3. QED BY <1>1, <1>2, RegisteredAnyway

LEMMA StackRegisters ==
  ASSUME StackInvariant, RegisteredInvariant, stack # <<>>, NEW f,
         UNCHANGED <<call, agenda, registered>>,
         \/ Popped(FrameSet, stack', stack)
         \/ f.obj = Top.obj /\ Replaced(FrameSet, stack', f, stack),
         ~registered /\ OwnFrames /\ call = "execute" => rows' \cap Objects \subseteq rows,
         call # "execute" => rows' \subseteq rows
  PROVE  RegisteredInvariant'
<1>1. Top = stack[1] /\ stack \in Frames
  BY TopFrame
<1>2. \A o : Holds(stack', o) => Holds(stack, o)
  BY <1>1, HoldsPopped, HoldsReplaced
<1>3. OwnFrames => OwnFrames'
  BY <1>2, OwnFramesStay
<1>4. OwnTasks => OwnTasks'
  BY DEF OwnTasks
<1>5. ~registered /\ call = "execute" => OwnFrames
  BY DEF RegisteredInvariant, OwnFrames
<1>6. ~registered => rows' \cap Objects \subseteq rows
  BY <1>5
<1>7. QED BY <1>3, <1>4, <1>6, RegisteredAnyway

LEMMA ObjectRegisters ==
  ASSUME IInv, RegisteredInvariant,
         Begin \/ RunCommand \/ Commit \/ RegisterObject \/ UnregisterObject \/ LeaveAltered
  PROVE  RegisteredInvariant'
<1> USE DEF IInv
<1>1. CASE Begin
  <2>1. PICK f : BeginEffect(f)
    BY <1>1, BeginsOrLeaves
  <2>2. /\ stack # <<>> /\ UNCHANGED <<call, agenda, registered, rows>>
        /\ \/ Popped(FrameSet, stack', stack)
           \/ f.obj = Top.obj /\ Replaced(FrameSet, stack', f, stack)
    BY <2>1 DEF BeginEffect, database
  <2>3. QED BY <2>2, StackRegisters
<1>2. CASE RunCommand
  <2>1. PICK f : StageEffect(f, "run", Tail(Top.ddl))
    BY <1>2, RunCommandEffect
  <2>2. /\ stack # <<>> /\ f.obj = Top.obj /\ Replaced(FrameSet, stack', f, stack)
    BY <2>1 DEF StageEffect
  <2>3. UNCHANGED <<call, agenda, registered, rows>>
    BY <1>2 DEF RunCommand, database
  <2>4. QED BY <2>2, <2>3, StackRegisters
<1>3. CASE Commit
  <2>1. PICK f : StageEffect(f, "committed", <<>>)
    BY <1>3, CommitEffect
  <2>2. /\ stack # <<>> /\ f.obj = Top.obj /\ Replaced(FrameSet, stack', f, stack)
    BY <2>1 DEF StageEffect
  <2>3. UNCHANGED <<call, agenda, registered, rows>>
    BY <1>3 DEF Commit
  <2>4. QED BY <2>2, <2>3, StackRegisters
<1>4. CASE RegisterObject
  <2>1. LeaveEffect("create")
    BY <1>4, LeavingEffect DEF RegisterObject
  <2>2. /\ stack # <<>> /\ Popped(FrameSet, stack', stack) /\ Top.action = "create"
    BY <2>1 DEF LeaveEffect
  <2>3. UNCHANGED <<call, agenda, registered>> /\ rows' \subseteq rows \cup {Top.obj}
    BY <1>4 DEF RegisterObject
  <2>4. call = "execute"
    BY <2>2, DropsOnly DEF InstanceInvariant
  <2>5. OwnFrames => Top.obj \notin Objects
    BY <2>2, TopFrame, Apart DEF OwnFrames, ObjectsApart
  <2>6. OwnFrames => rows' \cap Objects \subseteq rows
    BY <2>3, <2>5
  <2>7. QED BY <2>2, <2>3, <2>4, <2>6, StackRegisters
<1>5. CASE UnregisterObject
  <2>1. LeaveEffect("drop")
    BY <1>5, LeavingEffect DEF UnregisterObject
  <2>2. /\ stack # <<>> /\ Popped(FrameSet, stack', stack)
    BY <2>1 DEF LeaveEffect
  <2>3. UNCHANGED <<call, agenda, registered>> /\ rows' \subseteq rows
    BY <1>5 DEF UnregisterObject
  <2>4. QED BY <2>2, <2>3, StackRegisters
<1>6. CASE LeaveAltered
  <2>1. LeaveEffect("alter")
    BY <1>6, LeavingEffect DEF LeaveAltered
  <2>2. /\ stack # <<>> /\ Popped(FrameSet, stack', stack)
    BY <2>1 DEF LeaveEffect
  <2>3. UNCHANGED <<call, agenda, registered, rows>>
    BY <1>6 DEF LeaveAltered, database
  <2>4. QED BY <2>2, <2>3, StackRegisters
<1>7. QED BY <1>1, <1>2, <1>3, <1>4, <1>5, <1>6

\* A call of Execute comes to the schema before it comes to the objects.
LEMMA ExecuteRegisters ==
  ASSUME IInv, RegisteredInvariant, Execute
  PROVE  RegisteredInvariant'
<1> USE DEF IInv
<1>1. PICK seen \in BOOLEAN :
        Call("execute", OwnTables(seen) \o << Task("registerSchema", "Info") >> \o Each("execute"))
  BY DEF Execute
<1> DEFINE own == OwnTables(seen)
           tasks == own \o << Task("registerSchema", "Info") >> \o Each("execute")
<1>2. agenda' = tasks /\ UNCHANGED <<registered, rows>> /\ stack' = <<>>
  BY <1>1 DEF Call, database, StackInvariant, AgendaInvariant
<1>3. /\ tasks \in Seq(TaskSet) /\ Len(own) \in Nat /\ Len(order) \in Nat
      /\ own = <<>> \/ own = << Task("execute", "Info"), Task("execute", "Object"),
                                       Task("execute", "Module") >>
      /\ Len(tasks) = Len(own) + 1 + Len(order)
      /\ \A i \in 1..Len(own) : tasks[i] = own[i]
      /\ tasks[Len(own) + 1] = Task("registerSchema", "Info")
  BY ExecuteAgenda, EachTask
<1>4. \A i \in 1..Len(own) : own[i].obj \in Internal
  BY <1>3 DEF Task, Internal
<1> HIDE DEF own, tasks
<1>5. OwnTasks'
  <2>1. SUFFICES ASSUME NEW i \in DOMAIN tasks, tasks[i].obj \in Objects
                 PROVE  \E j \in 1..(i - 1) : tasks[j].do = "registerSchema"
    BY <1>2 DEF OwnTasks
  <2>2. i \in 1..(Len(own) + 1 + Len(order))
    BY <1>3
  <2>3. ~(i \in 1..Len(own))
    BY <1>3, <1>4, <2>1, Apart DEF ObjectsApart
  <2>4. i # Len(own) + 1
    BY <1>3, <2>1, Apart DEF Task, ObjectsApart, Internal
  <2>5. Len(own) + 1 \in 1..(i - 1)
    BY <1>3, <2>2, <2>3, <2>4
  <2>6. tasks[Len(own) + 1].do = "registerSchema"
    BY <1>3 DEF Task
  <2>7. QED BY <2>5, <2>6
<1>6. OwnFrames'
  BY <1>2 DEF OwnFrames
<1>7. QED BY <1>2, <1>5, <1>6 DEF RegisteredInvariant, OwnTasks, OwnFrames

LEMMA StepRegisters ==
  ASSUME IInv, RegisteredInvariant, [Next]_vars
  PROVE  RegisteredInvariant'
<1>1. CASE UNCHANGED vars
  BY <1>1 DEF RegisteredInvariant, vars, database, instance, application, progress
<1>2. CASE Restart \/ Drop \/ Return \/ Throw
  <2>1. call' # "execute" /\ UNCHANGED <<registered, rows>>
    BY <1>2 DEF Restart, Drop, Call, Return, Throw, database
  <2>2. QED BY <2>1 DEF RegisteredInvariant
<1>3. CASE Execute
  BY <1>3, ExecuteRegisters
<1>4. CASE NextObject \/ VisitDependency
  BY <1>4, NextObjectRegisters, VisitDependencyRegisters
<1>5. CASE Begin \/ RunCommand \/ Commit \/ RegisterObject \/ UnregisterObject \/ LeaveAltered
  BY <1>5, ObjectRegisters
<1>6. CASE RegisterSchema
  BY <1>6 DEF RegisterSchema, RegisteredInvariant
<1>7. CASE ClearCache
  <2>1. 1 \in DOMAIN agenda /\ agenda[1].do = "clearCache"
    BY <1>7, HeadTask DEF ClearCache, Turn, IInv
  <2>2. call # "execute" /\ UNCHANGED <<call, registered, rows>>
    BY <1>7, <2>1 DEF ClearCache, database, IInv, StackInvariant, AgendaInvariant
  <2>3. QED BY <2>2, RegisteredAnyway
<1>8. QED BY <1>1, <1>2, <1>3, <1>4, <1>5, <1>6, <1>7 DEF Next, Progress

\* What a step leaves of the register when nothing fails: the object that is pending
\* afterwards, and what is in the cache.
RowsAt(T, R, pending, dropped, names) ==
  /\ \A o \in Objects \ pending : o \in R <=> o \in T
  /\ \A o \in Objects \cap pending : o \in R <=> dropped
  /\ (call = "none" => calls < MaxCalls) /\ (call = "drop" => agenda = <<>>) =>
        names \cap Objects = {}
  /\ call = "drop" => names \cap Objects \cap (T \cup pending) = {}

LEMMA FaultsStay ==
  ASSUME InstanceInvariant, NEW kind, Strike(kind)
  PROVE  faults' # 0
BY SchemaAssumption DEF InstanceInvariant, Strike

\* Nothing is pending before or after, and neither tables nor register change.
LEMMA RowsStay ==
  ASSUME RowsInvariant, Pending = {}, Pending' = {}, UNCHANGED rows,
         DOMAIN tables' = DOMAIN tables, faults' = 0 => faults = 0,
         cache' = cache \/ cache' = {},
         call' = call \/ call' # "drop",
         (call' = "none" => calls' < MaxCalls) /\ (call' = "drop" => agenda' = <<>>) =>
            (call = "none" => calls < MaxCalls) /\ (call = "drop" => agenda = <<>>)
  PROVE  RowsInvariant'
BY DEF RowsInvariant, Exists

\* A call starts with nothing in the cache.
LEMMA RowsAtStart ==
  ASSUME RowsInvariant, Pending = {}, Pending' = {},
         UNCHANGED <<rows, tables, cache>>, faults' = 0 => faults = 0,
         call = "none", calls < MaxCalls
  PROVE  RowsInvariant'
BY DEF RowsInvariant, Exists

LEMMA EnteringFaults ==
  ASSUME InstanceInvariant, NEW o, NEW drop, NEW below, Entering(o, drop, below), faults' = 0
  PROVE  faults = 0
BY FaultsStay DEF Entering, Answer

LEMMA NextObjectRows ==
  ASSUME IInv, RowsInvariant, NextObject
  PROVE  RowsInvariant'
<1> USE DEF IInv
<1>1. NextEffect
  BY NextObjectEffect
<1>2. /\ UNCHANGED <<call, calls, rows, tables, cache>> /\ stack = <<>>
      /\ agenda # <<>> /\ Popped(TaskSet, agenda', agenda) /\ agenda \in Seq(TaskSet)
      /\ agenda[1].do \in {"execute", "drop"}
      /\ Entering(agenda[1].obj, agenda[1].do = "drop", <<>>)
  BY <1>1 DEF NextEffect, StackInvariant, database, instance, application
<1>3. Pending = {} /\ Pending' = {}
  <2>1. ~Stage("committed")
    BY <1>2 DEF Stage
  <2>2. stack' = <<>> \/ stack'[1].stage = "visit"
    BY <1>2, EnteringStack
  <2>3. ~Stage("committed")'
    BY <2>2, QuietStack
  <2>4. QED BY <2>1, <2>3 DEF Pending
<1>4. faults' = 0 => faults = 0
  BY <1>2, EnteringFaults
<1>5. call = "drop" => agenda' # <<>>
  <2>1. SUFFICES ASSUME call = "drop"
                 PROVE  agenda' # <<>>
    OBVIOUS
  <2>2. 1 \in DOMAIN agenda /\ Len(agenda) \in Nat \ {0}
    BY <1>2, HeadTask
  <2>3. Len(agenda) # 1
    BY <1>2, <2>1, <2>2 DEF StackInvariant, AgendaInvariant
  <2>4. Len(agenda') # 0
    BY <1>2, <2>2, <2>3 DEF Popped
  <2>5. QED BY <2>4
<1>6. QED BY <1>2, <1>3, <1>4, <1>5, RowsStay

LEMMA VisitDependencyRows ==
  ASSUME IInv, RowsInvariant, VisitDependency
  PROVE  RowsInvariant'
<1> USE DEF IInv
<1>1. PICK o \in All, f \in FrameSet, below \in Frames : VisitEffect(o, f, below)
  BY VisitDependencyEffect
<1>2. /\ UNCHANGED <<call, calls, agenda, rows, tables, cache>>
      /\ stack # <<>> /\ Top.stage = "visit" /\ Top \in FrameSet
      /\ Entering(o, Top.action = "drop", below)
      /\ f = [Top EXCEPT !.visit = @ \ {o}] /\ Replaced(FrameSet, below, f, stack)
  BY <1>1, TopFrame DEF VisitEffect, database, instance, application
<1>3. below[1].stage = "visit"
  BY <1>2 DEF Replaced, FrameSet
<1>4. stack' = <<>> \/ stack'[1].stage = "visit"
  BY <1>2, <1>3, EnteringStack
<1>5. ~Stage("committed") /\ ~Stage("committed")'
  BY <1>2, <1>4, QuietStack DEF Stage
<1>6. Pending = {} /\ Pending' = {}
  BY <1>5 DEF Pending
<1>7. faults' = 0 => faults = 0
  BY <1>2, EnteringFaults
<1>8. QED BY <1>2, <1>6, <1>7, RowsStay

LEMMA BeginRows ==
  ASSUME IInv, RowsInvariant, Begin
  PROVE  RowsInvariant'
<1> USE DEF IInv
<1>1. PICK f : BeginEffect(f)
  BY BeginsOrLeaves
<1>2. /\ UNCHANGED <<call, calls, agenda, rows, tables, cache, faults>>
      /\ stack # <<>> /\ Top.stage = "visit" /\ stack \in Frames
      /\ \/ Popped(FrameSet, stack', stack)
         \/ f.stage = "run" /\ Replaced(FrameSet, stack', f, stack)
  BY <1>1, TopFrame DEF BeginEffect, database, instance
<1>3. ~Stage("committed")'
  <2>1. CASE Popped(FrameSet, stack', stack)
    <3>1. stack' = <<>> \/ stack'[1].stage = "visit"
      BY <1>2, <2>1, PoppedStack DEF StackInvariant
    <3>2. QED BY <3>1, QuietStack
  <2>2. CASE f.stage = "run" /\ Replaced(FrameSet, stack', f, stack)
    BY <1>2, <2>2, ReplacedTop DEF Stage
  <2>3. QED BY <1>2, <2>1, <2>2
<1>4. ~Stage("committed")
  BY <1>2 DEF Stage
<1>5. Pending = {} /\ Pending' = {}
  BY <1>3, <1>4 DEF Pending
<1>6. QED BY <1>2, <1>5, RowsStay

LEMMA RunCommandRows ==
  ASSUME IInv, RowsInvariant, RunCommand
  PROVE  RowsInvariant'
<1> USE DEF IInv
<1>1. PICK f : StageEffect(f, "run", Tail(Top.ddl))
  BY RunCommandEffect
<1>2. /\ stack # <<>> /\ Top.stage = "run" /\ f.stage = "run" /\ stack \in Frames
      /\ Replaced(FrameSet, stack', f, stack)
  BY <1>1, TopFrame DEF StageEffect
<1>3. ~Stage("committed") /\ ~Stage("committed")'
  BY <1>2, ReplacedTop DEF Stage
<1>4. Pending = {} /\ Pending' = {}
  BY <1>3 DEF Pending
<1>5. UNCHANGED <<call, calls, agenda, rows, tables, cache, faults>>
  BY DEF RunCommand, database
<1>6. QED BY <1>4, <1>5, RowsStay

\* The object of a CREATE or a DROP is pending from its commit on.
LEMMA CommitRows ==
  ASSUME IInv, RowsInvariant, Commit
  PROVE  RowsInvariant'
<1> USE DEF IInv
<1>1. PICK f : StageEffect(f, "committed", <<>>)
  BY CommitEffect
<1>a. PICK o : o = Top.obj
  OBVIOUS
<1>2. /\ stack # <<>> /\ Top.stage = "run" /\ f.stage = "committed" /\ stack \in Frames
      /\ f.obj = o /\ f.action = Top.action /\ Replaced(FrameSet, stack', f, stack)
  BY <1>1, <1>a, TopFrame DEF StageEffect
<1>3. Top' = f /\ stack' # <<>>
  BY <1>2, ReplacedTop
<1>4. Pending = {} /\ Pending' = IF Top.action # "alter" THEN {o} ELSE {}
  <2>1. ~Stage("committed") /\ Stage("committed")'
    BY <1>2, <1>3 DEF Stage
  <2>2. QED BY <1>2, <1>3, <2>1 DEF Pending
<1>5. /\ UNCHANGED <<call, calls, agenda, rows, cache, faults>> /\ tables' = work
      /\ Stage("run") /\ Top.ddl = <<>>
  BY DEF Commit, instance
<1>6. /\ \A p \in Objects \ {o} : p \in DOMAIN work <=> p \in DOMAIN tables
      /\ Top.action = "alter" => o \in DOMAIN work
      /\ Top.action # "alter" =>
           /\ o \in DOMAIN tables <=> Top.action = "drop"
           /\ o \in DOMAIN work <=> Top.action = "create"
  BY <1>5, <1>a DEF WorkInvariant, TransactionInvariant, OthersUntouched, All
<1>7. Top.action = "alter" => o \in DOMAIN tables
  BY <1>2, <1>a, TopFrame DEF StackInvariant, FrameInvariant, Active, Exists
<1>8. call = "drop" => Top.action = "drop"
  BY <1>2, DropsOnly
<1>9. SUFFICES ASSUME faults = 0
               PROVE  RowsAt(DOMAIN work, rows, Pending', Top.action = "drop", cache)
  <2>1. RowsInvariant' <=>
          (faults' = 0 => RowsAt(DOMAIN tables, rows, Pending, Top.action = "drop", cache)')
    BY DEF RowsInvariant, RowsAt, Exists
  <2>2. Top'.action = Top.action
    BY <1>2, <1>3
  <2>3. RowsAt(DOMAIN work, rows, Pending', Top.action = "drop", cache) =>
          RowsAt(DOMAIN tables, rows, Pending, Top.action = "drop", cache)'
    BY <1>5, <2>2 DEF RowsAt
  <2>4. QED BY <1>5, <1>9, <2>1, <2>3
<1>10. /\ \A p \in Objects : p \in rows <=> p \in DOMAIN tables
       /\ (call = "none" => calls < MaxCalls) /\ (call = "drop" => agenda = <<>>) =>
            cache \cap Objects = {}
       /\ call = "drop" => cache \cap Objects \cap DOMAIN tables = {}
  BY <1>4, <1>9 DEF RowsInvariant, Exists
<1>11. \A p \in Objects \ Pending' : p \in rows <=> p \in DOMAIN work
  BY <1>4, <1>6, <1>7, <1>10
<1>12. \A p \in Objects \cap Pending' : p \in rows <=> Top.action = "drop"
  BY <1>4, <1>6, <1>10
<1>13. call = "drop" => cache \cap Objects \cap (DOMAIN work \cup Pending') = {}
  BY <1>4, <1>6, <1>8, <1>10
<1>14. QED BY <1>10, <1>11, <1>12, <1>13 DEF RowsAt

\* A leaving object is pending no longer.
LEMMA LeavingPending ==
  ASSUME StackInvariant, NEW action, LeaveEffect(action)
  PROVE  Pending' = {}
<1>1. stack \in Frames /\ stack # <<>> /\ Popped(FrameSet, stack', stack)
  BY TopFrame DEF LeaveEffect
<1>2. stack' = <<>> \/ stack'[1].stage = "visit"
  BY <1>1, PoppedStack DEF StackInvariant
<1>3. ~Stage("committed")'
  BY <1>2, QuietStack
<1>4. QED BY <1>3 DEF Pending

LEMMA RegisterObjectRows ==
  ASSUME IInv, RowsInvariant, RegisterObject
  PROVE  RowsInvariant'
<1> USE DEF IInv
<1>a. PICK o : o = Top.obj
  OBVIOUS
<1>1. LeaveEffect("create") /\ Stage("committed") /\ Top.action = "create"
  BY LeavingEffect DEF RegisterObject
<1>2. /\ UNCHANGED <<call, calls, agenda, tables, faults>>
      /\ rows' = IF SchemaObjectExists(o) \/ o = "Info" THEN rows ELSE rows \cup {o}
      /\ cache' = IF SchemaObjectExists(o) THEN cache \cup {o} ELSE cache \ {o}
  BY <1>a DEF RegisterObject, Remember
<1>3. Pending' = {} /\ Pending = {o}
  BY <1>1, <1>a, LeavingPending DEF Pending
<1>4. call = "execute"
  BY <1>1, DropsOnly DEF LeaveEffect, InstanceInvariant
<1>5. o \in DOMAIN tables
  BY <1>1, <1>a DEF WorkInvariant, Made
<1>6. SUFFICES ASSUME faults = 0
               PROVE  /\ \A p \in Objects : p \in rows' <=> p \in DOMAIN tables
                      /\ cache' \cap Objects = {}
  BY <1>2, <1>3, <1>4 DEF RowsInvariant, Exists
<1>7. /\ \A p \in Objects \ {o} : p \in rows <=> p \in DOMAIN tables
      /\ o \in Objects => o \notin rows
      /\ cache \cap Objects = {}
  BY <1>1, <1>3, <1>4, <1>6 DEF RowsInvariant, Exists
<1>8. CASE o \in Objects
  <2>1. ~SchemaObjectExists(o)
    BY <1>7, <1>8 DEF SchemaObjectExists
  <2>2. o # "Info"
    BY <1>8, Apart DEF ObjectsApart, Internal
  <2>3. rows' = rows \cup {o} /\ cache' = cache \ {o}
    BY <1>2, <2>1, <2>2
  <2>4. QED BY <1>5, <1>7, <2>3
<1>9. CASE o \notin Objects
  BY <1>2, <1>7, <1>9
<1>10. QED BY <1>8, <1>9

LEMMA UnregisterObjectRows ==
  ASSUME IInv, RowsInvariant, UnregisterObject
  PROVE  RowsInvariant'
<1> USE DEF IInv
<1>a. PICK o : o = Top.obj
  OBVIOUS
<1>1. LeaveEffect("drop") /\ Stage("committed") /\ Top.action = "drop"
  BY LeavingEffect DEF UnregisterObject
<1>2. /\ UNCHANGED <<call, calls, agenda, tables>>
      /\ \/ /\ rows' = IF SchemaObjectExists(o) THEN rows \ {o} ELSE rows
            /\ cache' = IF SchemaObjectExists(o) THEN cache \cup {o} ELSE cache \ {o}
            /\ UNCHANGED faults
         \/ Strike("check")
  BY <1>a DEF UnregisterObject, Remember
<1>3. Pending' = {} /\ Pending = {o}
  BY <1>1, <1>a, LeavingPending DEF Pending
<1>4. call = "drop" /\ o \in Objects /\ agenda # <<>>
  BY <1>1, <1>a, DropsOnly DEF LeaveEffect, InstanceInvariant
<1>5. o \notin DOMAIN tables
  BY <1>1, <1>a DEF WorkInvariant, Exists
<1>6. SUFFICES ASSUME faults' = 0
               PROVE  /\ \A p \in Objects : p \in rows' <=> p \in DOMAIN tables
                      /\ cache' \cap Objects \cap DOMAIN tables = {}
  BY <1>2, <1>3, <1>4 DEF RowsInvariant, Exists
<1>7. /\ rows' = IF SchemaObjectExists(o) THEN rows \ {o} ELSE rows
      /\ cache' = IF SchemaObjectExists(o) THEN cache \cup {o} ELSE cache \ {o}
      /\ faults = 0
  BY <1>2, <1>6, FaultsStay
<1>8. /\ \A p \in Objects \ {o} : p \in rows <=> p \in DOMAIN tables
      /\ o \in rows /\ o \notin cache
      /\ cache \cap Objects \cap DOMAIN tables = {}
  BY <1>1, <1>3, <1>4, <1>7 DEF RowsInvariant, Exists
<1>9. SchemaObjectExists(o)
  BY <1>8 DEF SchemaObjectExists
<1>10. QED BY <1>5, <1>7, <1>8, <1>9

LEMMA LeaveAlteredRows ==
  ASSUME IInv, RowsInvariant, LeaveAltered
  PROVE  RowsInvariant'
<1>1. LeaveEffect("alter") /\ Top.action = "alter"
  BY LeavingEffect DEF LeaveAltered, IInv
<1>2. Pending' = {} /\ Pending = {}
  BY <1>1, LeavingPending DEF Pending, IInv
<1>3. UNCHANGED <<call, calls, agenda, rows, tables, cache, faults>>
  BY DEF LeaveAltered, database, instance
<1>4. QED BY <1>2, <1>3, RowsStay

LEMMA TaskRows ==
  ASSUME IInv, RowsInvariant, RegisterSchema \/ ClearCache
  PROVE  RowsInvariant'
<1>1. /\ stack = <<>> /\ stack' = <<>> /\ agenda # <<>>
      /\ UNCHANGED <<call, calls, rows, tables, faults>>
  BY DEF RegisterSchema, ClearCache, Turn, database
<1>2. Pending' = {} /\ Pending = {}
  BY <1>1 DEF Pending, Stage
<1>3. CASE RegisterSchema
  <2>1. 1 \in DOMAIN agenda /\ agenda[1].do = "registerSchema" /\ UNCHANGED cache
    BY <1>3, HeadTask DEF RegisterSchema, Turn, IInv, instance
  <2>2. call # "drop"
    BY <2>1 DEF IInv, StackInvariant, AgendaInvariant
  <2>3. QED BY <1>1, <1>2, <2>1, <2>2, RowsStay
<1>4. CASE ClearCache
  <2>1. cache' = {}
    BY <1>4 DEF ClearCache
  <2>2. QED BY <1>1, <1>2, <2>1 DEF RowsInvariant, Exists
<1>5. QED BY <1>3, <1>4

\* The calls themselves.
LEMMA CallRows ==
  ASSUME IInv, RowsInvariant, Restart \/ Execute \/ Drop \/ Return
  PROVE  RowsInvariant'
<1> USE DEF IInv
<1>1. UNCHANGED <<tables, rows>>
  BY DEF Restart, Execute, Drop, Call, Return, database
<1>2. stack' = <<>>
  <2>1. CASE Execute \/ Drop
    BY <2>1 DEF Execute, Drop, Call, StackInvariant, AgendaInvariant
  <2>2. CASE Restart \/ Return
    BY <2>2 DEF Restart, Return, Done
  <2>3. QED BY <2>1, <2>2
<1>3. Pending' = {}
  BY <1>2 DEF Pending, Stage
<1>4. faults' = 0 => faults = 0
  BY FaultsStay DEF Restart, Execute, Drop, Return
<1>5. CASE Restart
  <2>1. SUFFICES ASSUME faults' = 0
                 PROVE  RowsInvariant'
    BY DEF RowsInvariant
  <2>2. call = "none" /\ call' = "none" /\ cache' = {} /\ faults = 0
    BY <1>4, <1>5, <2>1, FaultsStay DEF Restart
  <2>3. stack = <<>>
    BY <2>2 DEF StackInvariant, AgendaInvariant
  <2>4. Pending = {}
    BY <2>3 DEF Pending, Stage
  <2>5. QED BY <1>1, <1>3, <2>2, <2>4 DEF RowsInvariant, Exists
<1>6. CASE Execute \/ Drop
  <2>1. call = "none" /\ calls < MaxCalls /\ UNCHANGED cache
    BY <1>6 DEF Execute, Drop, Call, instance
  <2>2. stack = <<>>
    BY <2>1 DEF StackInvariant, AgendaInvariant
  <2>3. Pending = {}
    BY <2>2 DEF Pending, Stage
  <2>4. QED BY <1>1, <1>3, <1>4, <2>1, <2>3, RowsAtStart
<1>7. CASE Return
  <2>1. stack = <<>> /\ agenda = <<>> /\ call # "none" /\ call' = "none" /\ UNCHANGED cache
    BY <1>7 DEF Return, Done, instance
  <2>2. Pending = {}
    BY <2>1 DEF Pending, Stage
  <2>3. QED BY <1>1, <1>3, <1>4, <2>1, <2>2, RowsStay
<1>8. QED BY <1>5, <1>6, <1>7

\* Where nothing fails, only a rejected command throws, and the instance is given up.
LEMMA ThrowRows ==
  ASSUME ~Retries, IInv, RowsInvariant, Throw
  PROVE  RowsInvariant'
<1> USE DEF IInv
<1>1. SUFFICES ASSUME faults' = 0
               PROVE  RowsInvariant'
  BY DEF RowsInvariant
<1>2. Rejected /\ faults = 0
  BY <1>1, FaultsStay DEF Throw
<1>3. call' = "none" /\ calls' = MaxCalls /\ stack' = <<>> /\ UNCHANGED <<tables, rows, cache>>
  BY DEF Throw, database
<1>4. Pending = {} /\ Pending' = {}
  BY <1>2, <1>3 DEF Pending, Stage, Rejected
<1>5. ~(calls' < MaxCalls)
  BY <1>3, SchemaAssumption
<1>6. QED BY <1>2, <1>3, <1>4, <1>5 DEF RowsInvariant, Exists

LEMMA StepRows ==
  ASSUME ~Retries, IInv, RowsInvariant, [Next]_vars
  PROVE  RowsInvariant'
<1>1. CASE UNCHANGED vars
  BY <1>1 DEF RowsInvariant, Pending, Stage, Top, Exists, vars, database, instance,
              application, progress
<1>2. CASE Restart \/ Execute \/ Drop \/ Return
  BY <1>2, CallRows
<1>3. CASE NextObject \/ VisitDependency \/ Begin \/ RunCommand \/ Commit
  BY <1>3, NextObjectRows, VisitDependencyRows, BeginRows, RunCommandRows, CommitRows
<1>4. CASE RegisterObject \/ UnregisterObject \/ LeaveAltered
  BY <1>4, RegisterObjectRows, UnregisterObjectRows, LeaveAlteredRows
<1>5. CASE RegisterSchema \/ ClearCache
  BY <1>5, TaskRows
<1>6. CASE Throw
  BY <1>6, ThrowRows
<1>7. QED BY <1>1, <1>2, <1>3, <1>4, <1>5, <1>6 DEF Next, Progress

\* The schema has its row before any of its objects has one, and no object is executed
\* before, whatever fails or crashes (Schema.Execute, registerSchema).
THEOREM SchemaRowFirst == Spec => []RegisteredInvariant
<1>1. Init => RegisteredInvariant
  BY DEF Init, RegisteredInvariant
<1>2. IInv /\ RegisteredInvariant /\ [Next]_vars => RegisteredInvariant'
  BY StepRegisters
<1>3. QED BY <1>1, <1>2, SchemaInvariant, PTL DEF Spec

\* As long as nothing fails and no instance that has thrown is called again, the register is
\* behind the database by the object that is between its two transactions only.
THEOREM RegisterFollows ==
  ASSUME ~Retries
  PROVE  Spec => []RowsInvariant
<1>1. Init => RowsInvariant
  BY DEF Init, RowsInvariant, Pending, Stage, Exists
<1>2. IInv /\ RowsInvariant /\ [Next]_vars => RowsInvariant'
  BY StepRows
<1>3. QED BY <1>1, <1>2, SchemaInvariant, PTL DEF Spec

\* Between the calls OrpheusSchemaObject lists exactly the tables that exist (registerSchema,
\* unRegisterSchema, SchemaObjectExists).
THEOREM ListedTables ==
  ASSUME ~Retries
  PROVE  Spec => []RowsMatchTables
<1>1. IInv /\ RegisteredInvariant /\ RowsInvariant => RowsMatchTables
  <2>1. SUFFICES ASSUME IInv, RegisteredInvariant, RowsInvariant, call = "none", faults = 0
                 PROVE  /\ rows \cap Objects = DOMAIN tables \cap Objects
                        /\ rows \cap Objects # {} => registered
    BY DEF RowsMatchTables
  <2>2. stack = <<>>
    BY <2>1 DEF IInv, StackInvariant, AgendaInvariant
  <2>3. Pending = {}
    BY <2>2 DEF Pending, Stage
  <2>4. QED BY <2>1, <2>3 DEF RowsInvariant, RegisteredInvariant, Exists
<1>2. QED BY <1>1, SchemaInvariant, SchemaRowFirst, RegisterFollows, PTL

-----------------------------------------------------------------------------
(***************************************************************************)
(* What Execute makes.                                                     *)
(***************************************************************************)

\* What is flagged as created, and what the call has dealt with.
FlaggedArePresent ==
  call # "none" \/ calls < MaxCalls =>
    \A o \in isCreated \cap Objects :
       Present(o) \/ (Stage("run") /\ Top.obj = o /\ Top.action # "drop")

DroppedIsNotFlagged ==
  Stage("run") /\ Top.action = "drop" /\ Top.ddl = <<>> => Top.obj \notin isCreated

ListedArePresent ==
  call = "execute" => \A o \in ToSet(order) : Present(o) \/ Waits("execute", o)

LEMMA ExecuteParts ==
  /\ ExecuteInvariant <=> FlaggedArePresent /\ DroppedIsNotFlagged /\ ListedArePresent
  /\ ExecuteInvariant' <=> FlaggedArePresent' /\ DroppedIsNotFlagged' /\ ListedArePresent'
BY DEF ExecuteInvariant, FlaggedArePresent, DroppedIsNotFlagged, ListedArePresent

\* An object stays present while neither the tables nor the release change.
LEMMA PresentStays ==
  ASSUME UNCHANGED <<tables, release>>, NEW o
  PROVE  Present(o)' <=> Present(o)
BY DEF Present, Exists, Matches, Fits, Wanted

LEMMA MadeIsPresent ==
  ASSUME NEW o, Made(tables, o)
  PROVE  Present(o)
BY DEF Made, Present, Exists

LEMMA ListedObjects ==
  ASSUME InstanceInvariant
  PROVE  ToSet(order) \subseteq Objects
BY DEF InstanceInvariant, ToSet

\* A step outside a transaction that leaves tables, flags and release alone: the flags are
\* right as before, and a listed object that is no longer waiting is present.
LEMMA ExecuteGoesOn ==
  ASSUME ExecuteInvariant, UNCHANGED <<tables, release, isCreated, order>>,
         ~Stage("run"), Stage("run")' => Top'.ddl # <<>>,
         call' # "none" \/ calls' < MaxCalls => call # "none" \/ calls < MaxCalls,
         call' = "execute" =>
           call = "execute" /\ \A o \in ToSet(order) : Present(o) \/ Kept("execute", o)
  PROVE  ExecuteInvariant'
<1>1. \A o : Present(o)' <=> Present(o)
  BY PresentStays
<1>2. FlaggedArePresent'
  BY <1>1 DEF ExecuteInvariant, FlaggedArePresent
<1>3. DroppedIsNotFlagged'
  BY DEF DroppedIsNotFlagged
<1>4. ListedArePresent'
  BY <1>1 DEF ExecuteInvariant, ListedArePresent, Kept
<1>5. QED BY <1>2, <1>3, <1>4, ExecuteParts

LEMMA NextObjectMakes ==
  ASSUME IInv, ExecuteInvariant, NextObject
  PROVE  ExecuteInvariant'
<1> USE DEF IInv
<1>1. NextEffect
  BY NextObjectEffect
<1>2. /\ UNCHANGED <<call, calls, tables, release, isCreated, order>> /\ stack = <<>>
      /\ agenda # <<>> /\ agenda[1].do \in {"execute", "drop"}
      /\ Entering(agenda[1].obj, agenda[1].do = "drop", <<>>)
  BY <1>1 DEF NextEffect, database, instance, application
<1>3. ~Stage("run") /\ ~Stage("run")'
  <2>1. stack' = <<>> \/ stack'[1].stage = "visit"
    BY <1>2, EnteringStack
  <2>2. QED BY <1>2, <2>1, QuietStack DEF Stage
<1>4. ASSUME call = "execute", NEW o \in ToSet(order)
      PROVE  Present(o) \/ Kept("execute", o)
  <2>1. o \in Objects
    BY ListedObjects
  <2>2. o \in isCreated => Present(o)
    BY <1>3, <1>4, <2>1 DEF ExecuteInvariant
  <2>3. o \in isCreated \/ Kept("execute", o)
    BY <1>1, NextWaits
  <2>4. QED BY <2>2, <2>3
<1>5. QED BY <1>2, <1>3, <1>4, ExecuteGoesOn

LEMMA VisitDependencyMakes ==
  ASSUME IInv, ExecuteInvariant, VisitDependency
  PROVE  ExecuteInvariant'
<1> USE DEF IInv
<1>1. PICK o \in All, f \in FrameSet, below \in Frames : VisitEffect(o, f, below)
  BY VisitDependencyEffect
<1>2. /\ UNCHANGED <<call, calls, tables, release, isCreated, order>>
      /\ stack # <<>> /\ Top.stage = "visit" /\ Top \in FrameSet
      /\ Entering(o, Top.action = "drop", below)
      /\ f = [Top EXCEPT !.visit = @ \ {o}] /\ Replaced(FrameSet, below, f, stack)
  BY <1>1, TopFrame DEF VisitEffect, database, instance, application
<1>3. below[1].stage = "visit"
  BY <1>2 DEF Replaced, FrameSet
<1>4. stack' = <<>> \/ stack'[1].stage = "visit"
  BY <1>2, <1>3, EnteringStack
<1>5. ~Stage("run") /\ ~Stage("run")'
  BY <1>2, <1>4, QuietStack DEF Stage
<1>6. \A p : Kept("execute", p)
  BY <1>1, VisitWaits
<1>7. QED BY <1>2, <1>5, <1>6, ExecuteGoesOn

\* A table that no ALTER command is needed for is present: its columns are those of the
\* model, and its unique keys have come with them.
LEMMA NothingToAlter ==
  ASSUME KeysComeWithColumns, IInv, NEW o \in Objects, Exists(o),
         AlterCommands(tables[o].columns, Wanted(o)) = <<>>
  PROVE  Present(o)
<1> USE DEF IInv
<1>1. /\ Wanted(o).columns \in ColumnSets /\ IsFiniteSet(DOMAIN Wanted(o).columns)
      /\ release[o] \in Versions /\ Wanted(o) = Model[release[o]]
  BY WantedColumns DEF InstanceInvariant, All
<1>2. tables[o].columns \in ColumnSets
  BY DEF WorkInvariant, Database, Exists, TableSet
<1>3. Fits(tables[o].columns, Wanted(o))
  BY <1>1, <1>2, AlterLeadsToTheModel
<1>4. PICK v \in Versions : Matches(tables[o], Model[v])
  BY DEF TablesAreWhole, Exists
<1>5. DOMAIN Model[v].columns = DOMAIN Model[release[o]].columns
  BY <1>1, <1>3, <1>4 DEF Matches, Fits
<1>6. Wanted(o).keys \subseteq tables[o].keys
  BY <1>1, <1>4, <1>5 DEF KeysComeWithColumns, Matches
<1>7. QED BY <1>3, <1>6 DEF Present, Matches

LEMMA BeginMakes ==
  ASSUME KeysComeWithColumns, IInv, ExecuteInvariant, Begin
  PROVE  ExecuteInvariant'
<1> USE DEF IInv
<1>1. PICK f : BeginEffect(f)
  BY BeginsOrLeaves
<1>2. /\ UNCHANGED <<call, calls, agenda, tables, release, isCreated, order>>
      /\ stack # <<>> /\ Top.stage = "visit" /\ stack \in Frames
  BY <1>1, TopFrame DEF BeginEffect, database, instance, application
<1>3. ~Stage("run")
  BY <1>2 DEF Stage
<1>4. CASE /\ Top.action = "alter" /\ Popped(FrameSet, stack', stack)
           /\ AlterCommands(tables[Top.obj].columns, Wanted(Top.obj)) = <<>>
  <2>1. ~Stage("run")'
    <3>1. stack' = <<>> \/ stack'[1].stage = "visit"
      BY <1>2, <1>4, PoppedStack DEF StackInvariant
    <3>2. QED BY <3>1, QuietStack
  <2>2. Exists(Top.obj)
    BY <1>2, <1>4, TopFrame DEF StackInvariant, FrameInvariant, Active
  <2>3. ASSUME NEW o \in ToSet(order)
        PROVE  Present(o) \/ Kept("execute", o)
    <3>1. CASE o = Top.obj
      <4>1. o \in Objects
        BY ListedObjects
      <4>2. QED BY <1>4, <2>2, <3>1, <4>1, NothingToAlter
    <3>2. CASE o # Top.obj
      BY <1>2, <1>4, <3>2, PoppedWaits
    <3>3. QED BY <3>1, <3>2
  <2>4. QED BY <1>2, <1>3, <2>1, <2>3, ExecuteGoesOn
<1>5. CASE /\ f.obj = Top.obj /\ f.ddl # <<>> /\ Replaced(FrameSet, stack', f, stack)
  <2>1. Top' = f
    BY <1>2, <1>5, ReplacedTop
  <2>2. \A o : Kept("execute", o)
    BY <1>2, <1>5, ReplacedWaits
  <2>3. QED BY <1>2, <1>3, <1>5, <2>1, <2>2, ExecuteGoesOn
<1>6. QED BY <1>1, <1>4, <1>5 DEF BeginEffect

\* The flag of the object in the transaction goes with the command.
LEMMA RunCommandMakes ==
  ASSUME IInv, ExecuteInvariant, RunCommand
  PROVE  ExecuteInvariant'
<1> USE DEF IInv
<1>1. PICK f : StageEffect(f, "run", Tail(Top.ddl))
  BY RunCommandEffect
<1>a. PICK o : o = Top.obj
  OBVIOUS
<1>2. /\ stack # <<>> /\ f.obj = o /\ f.action = Top.action /\ f.stage = "run"
      /\ Replaced(FrameSet, stack', f, stack) /\ stack \in Frames
  BY <1>1, <1>a, TopFrame DEF StageEffect
<1>3. Top' = f /\ Stage("run")'
  BY <1>2, ReplacedTop DEF Stage
<1>4. /\ UNCHANGED <<call, calls, agenda, tables, release, order>>
      /\ isCreated' = IF Top.action = "drop" THEN isCreated \ {o} ELSE isCreated \cup {o}
  BY <1>a DEF RunCommand, database, application
<1>5. \A p : Present(p)' <=> Present(p)
  BY <1>4, PresentStays
<1>6. FlaggedArePresent'
  <2>1. SUFFICES ASSUME call # "none" \/ calls < MaxCalls, NEW p \in isCreated' \cap Objects
                 PROVE  Present(p)' \/ (Stage("run")' /\ Top'.obj = p /\ Top'.action # "drop")
    BY <1>4 DEF FlaggedArePresent
  <2>2. CASE p = o
    BY <1>2, <1>3, <1>4, <2>1, <2>2
  <2>3. CASE p # o
    <3>1. p \in isCreated \cap Objects
      BY <1>4, <2>1, <2>3
    <3>2. Present(p)
      BY <1>a, <2>1, <2>3, <3>1 DEF ExecuteInvariant
    <3>3. QED BY <1>5, <3>2
  <2>4. QED BY <2>2, <2>3
<1>7. DroppedIsNotFlagged'
  BY <1>2, <1>3, <1>4 DEF DroppedIsNotFlagged
<1>8. ListedArePresent'
  <2>1. \A p : Kept("execute", p)
    BY <1>1, <1>4, StageWaits
  <2>2. QED BY <1>4, <1>5, <2>1 DEF ListedArePresent, ExecuteInvariant, Kept
<1>9. QED BY <1>6, <1>7, <1>8, ExecuteParts

\* The commit makes the object present, or is that of a DROP; the others stay.
LEMMA CommitMakes ==
  ASSUME IInv, ExecuteInvariant, Commit
  PROVE  ExecuteInvariant'
<1> USE DEF IInv
<1>1. PICK f : StageEffect(f, "committed", <<>>)
  BY CommitEffect
<1>a. PICK o : o = Top.obj
  OBVIOUS
<1>2. /\ stack # <<>> /\ f.stage = "committed" /\ stack \in Frames
      /\ Replaced(FrameSet, stack', f, stack)
  BY <1>1, TopFrame DEF StageEffect
<1>3. Top' = f /\ ~Stage("run")'
  BY <1>2, ReplacedTop DEF Stage
<1>4. /\ UNCHANGED <<call, calls, agenda, release, isCreated, order>> /\ tables' = work
      /\ Stage("run") /\ Top.ddl = <<>>
  BY DEF Commit, instance, application
<1>5. TransactionInvariant /\ OthersUntouched
  BY <1>4 DEF WorkInvariant, TransactionInvariant
<1>6. ASSUME Top.action # "drop"
      PROVE  Present(o)'
  <2>1. Made(work, o)
    BY <1>4, <1>5, <1>6, <1>a DEF TransactionInvariant
  <2>2. Wanted(o)' = Wanted(o)
    BY <1>4 DEF Wanted
  <2>3. QED BY <1>4, <2>1, <2>2 DEF Made, Present, Exists, Matches, Fits
<1>7. ASSUME NEW p \in Objects, p # o, Present(p)
      PROVE  Present(p)'
  <2>1. p \in DOMAIN work /\ Alike(work[p], tables[p])
    BY <1>5, <1>7, <1>a DEF OthersUntouched, Present, Exists, All
  <2>2. Wanted(p)' = Wanted(p)
    BY <1>4 DEF Wanted
  <2>3. Matches(work[p], Wanted(p))
    BY <1>7, <2>1 DEF Present, Matches, Alike
  <2>4. QED BY <1>4, <2>1, <2>2, <2>3 DEF Present, Exists, Matches, Fits
<1>8. FlaggedArePresent'
  <2>1. SUFFICES ASSUME call # "none" \/ calls < MaxCalls, NEW p \in isCreated \cap Objects
                 PROVE  Present(p)'
    BY <1>4 DEF FlaggedArePresent
  <2>2. CASE p = o
    <3>1. Top.action # "drop"
      BY <1>4, <1>a, <2>1, <2>2 DEF ExecuteInvariant
    <3>2. QED BY <1>6, <2>2, <3>1
  <2>3. CASE p # o
    <3>1. Present(p)
      BY <1>a, <2>1, <2>3 DEF ExecuteInvariant
    <3>2. QED BY <1>7, <2>3, <3>1
  <2>4. QED BY <2>2, <2>3
<1>9. DroppedIsNotFlagged'
  BY <1>3 DEF DroppedIsNotFlagged
<1>10. ListedArePresent'
  <2>1. SUFFICES ASSUME call = "execute", NEW p \in ToSet(order)
                 PROVE  Present(p)' \/ Waits("execute", p)'
    BY <1>4 DEF ListedArePresent
  <2>2. Top.action # "drop"
    BY <1>2, <2>1, DropsOnly
  <2>3. Kept("execute", p)
    BY <1>1, <1>4, StageWaits
  <2>4. p \in Objects
    BY ListedObjects
  <2>5. Present(p) \/ Waits("execute", p)
    BY <2>1 DEF ExecuteInvariant
  <2>6. QED BY <1>6, <1>7, <2>2, <2>3, <2>4, <2>5 DEF Kept
<1>11. QED BY <1>8, <1>9, <1>10, ExecuteParts

\* An object leaves the stack when it is present, or in a Drop.
LEMMA LeavingMakes ==
  ASSUME IInv, ExecuteInvariant, NEW action, LeaveEffect(action),
         UNCHANGED <<call, calls, agenda, tables, release, isCreated, order>>
  PROVE  ExecuteInvariant'
<1> USE DEF IInv
<1>1. /\ stack # <<>> /\ stack \in Frames /\ Popped(FrameSet, stack', stack)
      /\ Top.stage = "committed" /\ Top.action = action
  BY TopFrame DEF LeaveEffect
<1>2. ~Stage("run")'
  <2>1. stack' = <<>> \/ stack'[1].stage = "visit"
    BY <1>1, PoppedStack DEF StackInvariant
  <2>2. QED BY <2>1, QuietStack
<1>3. ~Stage("run") /\ Stage("committed")
  BY <1>1 DEF Stage
<1>4. ASSUME call = "execute", NEW o \in ToSet(order)
      PROVE  Present(o) \/ Kept("execute", o)
  <2>1. CASE o = Top.obj
    <3>1. Top.action # "drop"
      BY <1>1, <1>4, DropsOnly
    <3>2. Made(tables, o)
      BY <1>3, <2>1, <3>1 DEF WorkInvariant
    <3>3. QED BY <3>2, MadeIsPresent
  <2>2. CASE o # Top.obj
    BY <2>2, LeaveWaits
  <2>3. QED BY <2>1, <2>2
<1>5. QED BY <1>2, <1>3, <1>4, ExecuteGoesOn

LEMMA LeavingObjectsMake ==
  ASSUME IInv, ExecuteInvariant, RegisterObject \/ UnregisterObject \/ LeaveAltered
  PROVE  ExecuteInvariant'
<1> USE DEF IInv
<1>1. UNCHANGED <<call, calls, agenda, tables, release, isCreated, order>>
  BY DEF RegisterObject, UnregisterObject, LeaveAltered, database, instance, application
<1>2. CASE RegisterObject
  BY <1>1, <1>2, LeavingEffect, LeavingMakes DEF RegisterObject
<1>3. CASE UnregisterObject
  BY <1>1, <1>3, LeavingEffect, LeavingMakes DEF UnregisterObject
<1>4. CASE LeaveAltered
  BY <1>1, <1>4, LeavingEffect, LeavingMakes DEF LeaveAltered
<1>5. QED BY <1>2, <1>3, <1>4

LEMMA TaskMakes ==
  ASSUME IInv, ExecuteInvariant, RegisterSchema \/ ClearCache
  PROVE  ExecuteInvariant'
<1> USE DEF IInv
<1>1. /\ UNCHANGED <<call, calls, tables, release, isCreated, order, stack>> /\ stack = <<>>
      /\ agenda # <<>> /\ agenda' = Tail(agenda) /\ agenda[1].do # "execute"
  BY DEF RegisterSchema, ClearCache, Turn, database, instance, application
<1>2. ~Stage("run") /\ ~Stage("run")'
  BY <1>1 DEF Stage
<1>3. \A o : Kept("execute", o)
  BY <1>1, TaskWaits
<1>4. QED BY <1>1, <1>2, <1>3, ExecuteGoesOn

\* An Execute starts with every object in its agenda.
LEMMA ExecuteStarts ==
  ASSUME IInv, ExecuteInvariant, Execute
  PROVE  ExecuteInvariant'
<1> USE DEF IInv
<1>1. PICK seen \in BOOLEAN :
        Call("execute", OwnTables(seen) \o << Task("registerSchema", "Info") >> \o Each("execute"))
  BY DEF Execute
<1> DEFINE own == OwnTables(seen)
           tasks == own \o << Task("registerSchema", "Info") >> \o Each("execute")
<1>2. /\ call = "none" /\ calls < MaxCalls /\ call' = "execute" /\ agenda' = tasks
      /\ UNCHANGED <<tables, release, isCreated, order, stack>>
  BY <1>1 DEF Call, database, instance, application
<1>3. stack = <<>> /\ stack' = <<>>
  BY <1>2 DEF StackInvariant, AgendaInvariant
<1>4. ~Stage("run") /\ ~Stage("run")'
  BY <1>3 DEF Stage
<1>5. /\ tasks \in Seq(TaskSet) /\ Len(own) \in Nat /\ Len(order) \in Nat
      /\ Len(tasks) = Len(own) + 1 + Len(order)
      /\ \A i \in 1..Len(order) : tasks[Len(own) + 1 + i] = Task("execute", order[i])
  BY ExecuteAgenda, EachTask
<1> HIDE DEF own, tasks
<1>6. ASSUME NEW o \in ToSet(order)
      PROVE  Waits("execute", o)'
  <2>1. DOMAIN order = 1..Len(order)
    BY DEF InstanceInvariant
  <2>2. PICK i \in 1..Len(order) : order[i] = o
    BY <2>1 DEF ToSet
  <2>3. Len(own) + 1 + i \in DOMAIN tasks /\ tasks[Len(own) + 1 + i] = Task("execute", o)
    BY <1>5, <2>2
  <2>4. QED BY <1>2, <2>3 DEF Waits, Queued
<1>7. \A o : Present(o)' <=> Present(o)
  BY <1>2, PresentStays
<1>8. FlaggedArePresent'
  BY <1>2, <1>4, <1>7 DEF FlaggedArePresent, ExecuteInvariant
<1>9. DroppedIsNotFlagged' /\ ListedArePresent'
  BY <1>2, <1>4, <1>6 DEF DroppedIsNotFlagged, ListedArePresent
<1>10. QED BY <1>8, <1>9, ExecuteParts

\* The end of a call, and the start of another kind.
LEMMA OtherCallsMake ==
  ASSUME ~Retries, IInv, ExecuteInvariant, Restart \/ Drop \/ Return \/ Throw
  PROVE  ExecuteInvariant'
<1> USE DEF IInv
<1>1. call' # "execute" /\ stack' = <<>>
  <2>1. CASE Restart \/ Throw
    BY <2>1 DEF Restart, Throw
  <2>2. CASE Return
    BY <2>2 DEF Return, Done
  <2>3. CASE Drop
    BY <2>3 DEF Drop, Call, StackInvariant, AgendaInvariant
  <2>4. QED BY <2>1, <2>2, <2>3
<1>2. ~Stage("run")'
  BY <1>1 DEF Stage
<1>3. DroppedIsNotFlagged' /\ ListedArePresent'
  BY <1>1, <1>2 DEF DroppedIsNotFlagged, ListedArePresent
<1>4. FlaggedArePresent'
  <2>1. CASE Restart
    BY <2>1 DEF Restart, FlaggedArePresent
  <2>2. CASE Throw
    <3>1. call' = "none" /\ ~(calls' < MaxCalls)
      BY <2>2, SchemaAssumption DEF Throw
    <3>2. QED BY <3>1 DEF FlaggedArePresent
  <2>3. CASE Drop \/ Return
    <3>1. /\ UNCHANGED <<tables, release, isCreated>> /\ stack = <<>>
          /\ call # "none" \/ calls < MaxCalls
      BY <2>3 DEF Drop, Return, Done, Call, StackInvariant, AgendaInvariant, database, instance,
                  application
    <3>2. ~Stage("run")
      BY <3>1 DEF Stage
    <3>3. \A o : Present(o)' <=> Present(o)
      BY <3>1, PresentStays
    <3>4. QED BY <3>1, <3>2, <3>3 DEF FlaggedArePresent, ExecuteInvariant
  <2>4. QED BY <2>1, <2>2, <2>3
<1>5. QED BY <1>3, <1>4, ExecuteParts

LEMMA StepMakes ==
  ASSUME ~Retries, KeysComeWithColumns, IInv, ExecuteInvariant, [Next]_vars
  PROVE  ExecuteInvariant'
<1>1. CASE UNCHANGED vars
  <2>1. /\ UNCHANGED <<tables, release, isCreated, call, calls, order>>
        /\ Stage("run")' = Stage("run") /\ Top' = Top
        /\ \A o : Kept("execute", o)
    BY <1>1, SameWaits DEF Stage, Top, vars, database, instance, application, progress
  <2>2. \A o : Present(o)' <=> Present(o)
    BY <2>1, PresentStays
  <2>3. QED BY <2>1, <2>2 DEF ExecuteInvariant, Kept
<1>2. CASE Restart \/ Drop \/ Return \/ Throw
  BY <1>2, OtherCallsMake
<1>3. CASE Execute
  BY <1>3, ExecuteStarts
<1>4. CASE NextObject \/ VisitDependency \/ Begin \/ RunCommand \/ Commit
  BY <1>4, NextObjectMakes, VisitDependencyMakes, BeginMakes, RunCommandMakes, CommitMakes
<1>5. CASE RegisterObject \/ UnregisterObject \/ LeaveAltered
  BY <1>5, LeavingObjectsMake
<1>6. CASE RegisterSchema \/ ClearCache
  BY <1>6, TaskMakes
<1>7. QED BY <1>1, <1>2, <1>3, <1>4, <1>5, <1>6 DEF Next, Progress

\* While a call of Execute goes on, every object of the schema is present or still waits;
\* a set flag of IsCreated means that the object is as the model has it.
THEOREM FlagsTellTheTruth ==
  ASSUME ~Retries, KeysComeWithColumns
  PROVE  Spec => []ExecuteInvariant
<1>1. Init => ExecuteInvariant
  BY DEF Init, ExecuteInvariant, Stage
<1>2. IInv /\ ExecuteInvariant /\ [Next]_vars => ExecuteInvariant'
  BY StepMakes
<1>3. QED BY <1>1, <1>2, SchemaInvariant, PTL DEF Spec

\* When Execute returns, every object of its schema is a table with the columns and the
\* unique keys of this release, whichever release had created it and wherever an earlier
\* call had stopped (Schema.Execute, GetAlterDDLCommands).
THEOREM ExecutedSchema ==
  ASSUME ~Retries, KeysComeWithColumns
  PROVE  Spec => []ExecuteMakesTheSchema
<1>1. ExecuteInvariant => ExecuteMakesTheSchema
  <2>1. SUFFICES ASSUME ExecuteInvariant, Done("execute"), NEW o \in ToSet(order)
                 PROVE  Exists(o) /\ Matches(tables[o], Wanted(o))
    BY DEF ExecuteMakesTheSchema
  <2>2. ~Waits("execute", o)
    BY <2>1 DEF Done, Waits, Queued, Executing
  <2>3. QED BY <2>1, <2>2 DEF ExecuteInvariant, Done, Present
<1>2. QED BY <1>1, FlagsTellTheTruth, PTL

-----------------------------------------------------------------------------
(***************************************************************************)
(* First calls.                                                            *)
(***************************************************************************)
InFirstCall == call # "none" /\ calls = 1 /\ ~unseen

AboveOf(s, i) == IF i > 1 THEN {s[i - 1].obj} ELSE {}

\* What a frame still needs is to be visited, is done, or is in the set above.
Served(f, above) ==
  /\ f.action = "create" =>
       /\ f.stage # "committed" => ~Exists(f.obj)
       /\ f.obj \in Objects =>
            /\ Exists("Object") /\ f.visit \subseteq declared[f.obj] \cup {"Object"}
            /\ \A d \in declared[f.obj] : d \in f.visit \/ Exists(d) \/ d \in above
       /\ f.obj \in {"Object", "Module"} => Exists("Info")
  /\ f.action = "drop" =>
       /\ f.stage # "committed" => Exists(f.obj)
       /\ f.visit \subseteq Dependents(f.obj)
       /\ \A p \in Dependents(f.obj) : p \in f.visit \/ ~Exists(p) \/ p \in above

FrameIsServed(i) == Served(stack[i], AboveOf(stack, i))

DepthOf(rank, s) ==
  \A i, j \in DOMAIN s : i < j => Deeper(rank, s[i].obj, s[j].obj, s[j].action)

FlagsExist == \A o \in isCreated : Exists(o) \/ (Stage("run") /\ Top.obj = o)

OwnBefore ==
  \A i \in DOMAIN agenda : agenda[i].do = "execute" =>
     /\ agenda[i].obj \in {"Object", "Module"} => ComesBefore("Info", i)
     /\ agenda[i].obj \in Objects => ComesBefore("Object", i)

InExecute == call = "execute" => depends = declared /\ FlagsExist /\ OwnBefore

LEMMA ServedFrames ==
  ASSUME NEW i
  PROVE  (VisitInvariant(i) <=> FrameIsServed(i)) /\ (VisitInvariant(i)' <=> FrameIsServed(i)')
BY DEF VisitInvariant, FrameIsServed, Served, AboveOf

LEMMA FirstCallHas ==
  ASSUME NEW rank, FirstCallInvariant(rank), InFirstCall
  PROVE  InExecute /\ DepthOf(rank, stack) /\ \A i \in DOMAIN stack : FrameIsServed(i)
BY ServedFrames DEF FirstCallInvariant, InFirstCall, InExecute, FlagsExist, OwnBefore, DepthOf

\* The parts after a step; s is the new stack.
LEMMA FirstCallGets ==
  ASSUME NEW rank, NEW s, stack' = s,
         InFirstCall' => /\ InExecute' /\ DepthOf(rank, s)
                         /\ \A i \in DOMAIN s : Served(s[i], AboveOf(s, i))'
  PROVE  FirstCallInvariant(rank)'
<1>1. SUFFICES ASSUME InFirstCall'
               PROVE  InExecute' /\ DepthOf(rank, stack') /\ \A i \in DOMAIN stack' : VisitInvariant(i)'
  BY DEF FirstCallInvariant, InFirstCall, InExecute, FlagsExist, OwnBefore, DepthOf
<1>2. \A i \in DOMAIN stack' : FrameIsServed(i)'
  BY <1>1 DEF FrameIsServed, AboveOf
<1>3. QED BY <1>1, <1>2, ServedFrames

\* A frame is served after a step that brings what it waits for, and takes nothing away.
LEMMA ServedStays ==
  ASSUME InstanceInvariant, UNCHANGED declared, NEW f, NEW A, Served(f, A), f.obj \in All,
         NEW g, NEW B, g.obj = f.obj, g.action = f.action, g.visit \subseteq f.visit,
         g.stage # "committed" => f.stage # "committed",
         f.action = "create" =>
           /\ g.stage # "committed" => (~Exists(f.obj) => ~Exists(f.obj)')
           /\ \A d \in All : Exists(d) => Exists(d)'
           /\ \A d \in (f.visit \ g.visit) \cup A : Exists(d)' \/ d \in B,
         f.action = "drop" =>
           /\ g.stage # "committed" => (Exists(f.obj) => Exists(f.obj)')
           /\ \A p \in Objects : ~Exists(p) => ~Exists(p)'
           /\ \A p \in (f.visit \ g.visit) \cup A : ~Exists(p)' \/ p \in B
  PROVE  Served(g, B)'
<1>1. \A o \in Objects : declared[o] \subseteq Objects
  BY DEF InstanceInvariant
<1>2. Dependents(f.obj) \subseteq Objects /\ Dependents(f.obj)' = Dependents(f.obj)
  BY DEF Dependents
<1>3. CASE f.action = "create"
  <2>1. g.stage # "committed" => ~Exists(g.obj)'
    BY <1>3 DEF Served
  <2>2. ASSUME f.obj \in Objects
        PROVE  /\ Exists("Object")' /\ g.visit \subseteq declared[f.obj] \cup {"Object"}
               /\ \A d \in declared[f.obj] : d \in g.visit \/ Exists(d)' \/ d \in B
    <3>1. Exists("Object")'
      BY <1>3, <2>2 DEF Served, All, Internal
    <3>2. g.visit \subseteq declared[f.obj] \cup {"Object"}
      BY <1>3, <2>2 DEF Served
    <3>3. ASSUME NEW d \in declared[f.obj]
          PROVE  d \in g.visit \/ Exists(d)' \/ d \in B
      <4>1. d \in f.visit \/ Exists(d) \/ d \in A
        BY <1>3, <2>2 DEF Served
      <4>2. d \in All
        BY <1>1, <2>2 DEF All
      <4>3. QED BY <1>3, <4>1, <4>2
    <3>4. QED BY <3>1, <3>2, <3>3
  <2>3. f.obj \in {"Object", "Module"} => Exists("Info")'
    BY <1>3 DEF Served, All, Internal
  <2>4. QED BY <1>3, <2>1, <2>2, <2>3 DEF Served
<1>4. CASE f.action = "drop"
  <2>1. g.stage # "committed" => Exists(g.obj)'
    BY <1>4 DEF Served
  <2>2. g.visit \subseteq Dependents(f.obj)
    BY <1>4 DEF Served
  <2>3. ASSUME NEW p \in Dependents(f.obj)
        PROVE  p \in g.visit \/ ~Exists(p)' \/ p \in B
    <3>1. p \in f.visit \/ ~Exists(p) \/ p \in A
      BY <1>4 DEF Served
    <3>2. QED BY <1>2, <1>4, <3>1
  <2>4. (g.stage # "committed" => Exists(g.obj))' /\ g.visit \subseteq Dependents(g.obj)'
        /\ \A p \in Dependents(g.obj)' : p \in g.visit \/ ~Exists(p)' \/ p \in B
    BY <1>2, <2>1, <2>2, <2>3
  <2>5. QED BY <1>4, <2>4 DEF Served
<1>5. CASE f.action # "create" /\ f.action # "drop"
  BY <1>5 DEF Served
<1>6. QED BY <1>3, <1>4, <1>5

\* No object executes twice.
LEMMA DeeperApart ==
  ASSUME NEW rank, Follows(rank), NEW o, NEW p, NEW action, Deeper(rank, o, p, action)
  PROVE  o # p
<1>1. SUFFICES ASSUME o = p
               PROVE  FALSE
  OBVIOUS
<1>2. o \in Objects /\ o \notin Internal
  BY <1>1, Apart DEF Deeper, ObjectsApart
<1>3. rank[o] \in Nat
  BY <1>2 DEF Follows
<1>4. rank[o] < rank[o]
  BY <1>1, <1>2 DEF Deeper
<1>5. QED BY <1>3, <1>4

LEMMA DepthReplaced ==
  ASSUME NEW rank, NEW s \in Frames, s # <<>>, DepthOf(rank, s),
         NEW t, NEW f, Replaced(FrameSet, t, f, s), f.obj = s[1].obj, f.action = s[1].action
  PROVE  DepthOf(rank, t)
<1>1. DOMAIN t = DOMAIN s /\ DOMAIN s = 1..Len(s) /\ Len(s) \in Nat
  BY DEF Replaced, Frames
<1>2. \A i \in DOMAIN s : t[i].obj = s[i].obj /\ t[i].action = s[i].action
  <2>1. SUFFICES ASSUME NEW i \in DOMAIN s
                 PROVE  t[i].obj = s[i].obj /\ t[i].action = s[i].action
    OBVIOUS
  <2>2. i = 1 \/ i \in 2..Len(s)
    BY <1>1
  <2>3. QED BY <2>2 DEF Replaced
<1>3. QED BY <1>1, <1>2 DEF DepthOf

LEMMA DepthPopped ==
  ASSUME NEW rank, NEW s \in Frames, s # <<>>, DepthOf(rank, s), NEW t, Popped(FrameSet, t, s)
  PROVE  DepthOf(rank, t)
<1>1. /\ DOMAIN s = 1..Len(s) /\ Len(s) \in Nat \ {0} /\ DOMAIN t = 1..(Len(s) - 1)
      /\ \A i \in 1..(Len(s) - 1) : t[i] = s[i + 1]
  BY DEF Popped, Frames
<1>2. SUFFICES ASSUME NEW i \in DOMAIN t, NEW j \in DOMAIN t, i < j
               PROVE  Deeper(rank, t[i].obj, t[j].obj, t[j].action)
  BY DEF DepthOf
<1>3. i + 1 \in DOMAIN s /\ j + 1 \in DOMAIN s /\ i + 1 < j + 1
  BY <1>1, <1>2
<1>4. QED BY <1>1, <1>3 DEF DepthOf

LEMMA DepthPushed ==
  ASSUME NEW rank, NEW s \in Frames, DepthOf(rank, s), NEW t, NEW f, Pushed(FrameSet, t, f, s),
         \A j \in DOMAIN s : Deeper(rank, f.obj, s[j].obj, s[j].action)
  PROVE  DepthOf(rank, t)
<1>1. /\ DOMAIN s = 1..Len(s) /\ Len(s) \in Nat /\ DOMAIN t = 1..(Len(s) + 1)
      /\ t[1] = f /\ \A i \in 2..(Len(s) + 1) : t[i] = s[i - 1]
  BY DEF Pushed, Frames
<1>2. SUFFICES ASSUME NEW i \in DOMAIN t, NEW j \in DOMAIN t, i < j
               PROVE  Deeper(rank, t[i].obj, t[j].obj, t[j].action)
  BY DEF DepthOf
<1>3. j \in 2..(Len(s) + 1) /\ j - 1 \in DOMAIN s /\ t[j] = s[j - 1]
  BY <1>1, <1>2
<1>4. CASE i = 1
  BY <1>1, <1>3, <1>4
<1>5. CASE i \in 2..(Len(s) + 1)
  <2>1. i - 1 \in DOMAIN s /\ t[i] = s[i - 1] /\ i - 1 < j - 1
    BY <1>1, <1>2, <1>3, <1>5
  <2>2. QED BY <1>3, <2>1 DEF DepthOf
<1>6. i = 1 \/ i \in 2..(Len(s) + 1)
  BY <1>1
<1>7. QED BY <1>4, <1>5, <1>6

\* Orpheus's own tables stay before the objects in the agenda.
LEMMA OwnBeforeStays ==
  ASSUME OwnBefore, UNCHANGED agenda,
         \A x \in {"Info", "Object"} : Exists(x) \/ Executing(x) => Exists(x)' \/ Executing(x)'
  PROVE  OwnBefore'
BY DEF OwnBefore, ComesBefore

LEMMA OwnBeforePopped ==
  ASSUME OwnBefore, agenda \in Seq(TaskSet), agenda # <<>>, Popped(TaskSet, agenda', agenda),
         \A x \in {"Info", "Object"} :
            Exists(x) \/ Executing(x) \/ agenda[1] = Task("execute", x) =>
              Exists(x)' \/ Executing(x)'
  PROVE  OwnBefore'
<1>1. /\ DOMAIN agenda = 1..Len(agenda) /\ Len(agenda) \in Nat \ {0}
      /\ DOMAIN agenda' = 1..(Len(agenda) - 1)
      /\ \A i \in 1..(Len(agenda) - 1) : agenda'[i] = agenda[i + 1]
  BY DEF Popped
<1>2. ASSUME NEW i \in DOMAIN agenda', NEW x \in {"Info", "Object"}, ComesBefore(x, i + 1)
      PROVE  ComesBefore(x, i)'
  <2>1. SUFFICES ASSUME ~Exists(x)', ~Executing(x)'
                 PROVE  \E j \in 1..(i - 1) : agenda'[j] = Task("execute", x)
    BY DEF ComesBefore, Task
  <2>2. ~Exists(x) /\ ~Executing(x) /\ agenda[1] # Task("execute", x)
    BY <2>1
  <2>3. PICK j \in 1..((i + 1) - 1) : agenda[j] = Task("execute", x)
    BY <1>2, <2>2 DEF ComesBefore
  <2>4. j - 1 \in 1..(i - 1) /\ j - 1 \in 1..(Len(agenda) - 1) /\ (j - 1) + 1 = j
    BY <1>1, <2>2, <2>3
  <2>5. agenda'[j - 1] = Task("execute", x)
    BY <1>1, <2>3, <2>4
  <2>6. QED BY <2>4, <2>5
<1>3. SUFFICES ASSUME NEW i \in DOMAIN agenda', agenda'[i].do = "execute"
               PROVE  /\ agenda'[i].obj \in {"Object", "Module"} => ComesBefore("Info", i)'
                      /\ agenda'[i].obj \in Objects => ComesBefore("Object", i)'
  BY DEF OwnBefore
<1>4. i + 1 \in DOMAIN agenda /\ agenda'[i] = agenda[i + 1]
  BY <1>1
<1>5. /\ agenda[i + 1].obj \in {"Object", "Module"} => ComesBefore("Info", i + 1)
      /\ agenda[i + 1].obj \in Objects => ComesBefore("Object", i + 1)
  BY <1>3, <1>4 DEF OwnBefore
<1>6. QED BY <1>2, <1>4, <1>5

\* The steps that go on with the innermost object: Begin, a command, the commit.
LEMMA FirstReplaced ==
  ASSUME NEW rank, Follows(rank), IInv, FirstCallInvariant(rank), stack # <<>>,
         UNCHANGED <<call, calls, declared, depends, agenda, unseen>>,
         NEW f, Replaced(FrameSet, stack', f, stack),
         f.obj = Top.obj, f.action = Top.action, f.visit = Top.visit,
         f.stage # "committed" => Top.stage # "committed" /\ UNCHANGED tables,
         \A p \in All \ {Top.obj} : Exists(p)' <=> Exists(p),
         Top.action = "drop" => (Top.obj \in DOMAIN tables' => Top.obj \in DOMAIN tables),
         Top.action # "drop" => (Top.obj \in DOMAIN tables => Top.obj \in DOMAIN tables'),
         call = "execute" /\ FlagsExist => FlagsExist'
  PROVE  FirstCallInvariant(rank)'
<1> USE DEF IInv
<1>a. PICK s : s = stack'
  OBVIOUS
<1>b. PICK o : o = Top.obj
  OBVIOUS
<1>c. /\ \A p \in All \ {o} : Exists(p)' <=> Exists(p)
      /\ Top.action = "drop" => (Exists(o)' => Exists(o))
      /\ Top.action # "drop" => (Exists(o) => Exists(o)')
  BY <1>b DEF Exists
<1>1. SUFFICES ASSUME InFirstCall'
               PROVE  /\ InExecute' /\ DepthOf(rank, s)
                      /\ \A i \in DOMAIN s : Served(s[i], AboveOf(s, i))'
  BY <1>a, FirstCallGets
<1>2. InFirstCall
  BY <1>1 DEF InFirstCall
<1>3. InExecute /\ DepthOf(rank, stack) /\ \A i \in DOMAIN stack : FrameIsServed(i)
  BY <1>2, FirstCallHas
<1>4. /\ stack \in Frames /\ Top = stack[1] /\ o \in All /\ 1 \in DOMAIN stack
      /\ Replaced(FrameSet, s, f, stack)
  BY <1>a, <1>b, TopFrame
<1>5. DepthOf(rank, s)
  BY <1>3, <1>4, DepthReplaced
<1>6. call \in {"execute", "drop"}
  BY <1>2 DEF InFirstCall, InstanceInvariant
<1>7. InExecute'
  <2>1. SUFFICES ASSUME call = "execute"
                 PROVE  depends' = declared' /\ FlagsExist' /\ OwnBefore'
    BY DEF InExecute
  <2>2. depends = declared /\ FlagsExist /\ OwnBefore
    BY <1>3, <2>1 DEF InExecute
  <2>3. Top.action # "drop"
    BY <2>1, DropsOnly
  <2>4. \A x \in All : Exists(x) => Exists(x)'
    BY <1>b, <1>c, <2>3
  <2>5. \A x : Executing(x) => Executing(x)'
    BY <1>4, <1>a, HoldsReplaced, ExecutingHolds
  <2>6. OwnBefore'
    BY <2>2, <2>4, <2>5, OwnBeforeStays DEF All, Internal
  <2>7. QED BY <2>1, <2>2, <2>6
<1>8. ASSUME NEW i \in DOMAIN s
      PROVE  Served(s[i], AboveOf(s, i))'
  <2>1. /\ DOMAIN stack = 1..Len(stack) /\ Len(stack) \in Nat /\ DOMAIN s = 1..Len(stack)
        /\ s[1] = f /\ \A j \in 2..Len(stack) : s[j] = stack[j]
    BY <1>4 DEF Replaced, Frames
  <2>2. PICK h : h = stack[i]
    OBVIOUS
  <2>3. PICK A : A = AboveOf(stack, i)
    OBVIOUS
  <2>4. i \in DOMAIN stack /\ Served(h, A) /\ h \in FrameSet /\ h.obj \in All
    <3>1. i \in DOMAIN stack
      BY <2>1
    <3>2. Served(h, A)
      BY <1>3, <2>2, <2>3, <3>1 DEF FrameIsServed
    <3>3. h \in FrameSet
      BY <1>4, <2>2, <3>1 DEF Frames
    <3>4. QED BY <3>1, <3>2, <3>3 DEF FrameSet
  <2>5. AboveOf(s, i) = A
    <3>1. i > 1 => i - 1 \in 1..Len(stack)
      BY <2>1
    <3>2. i > 1 => s[i - 1].obj = stack[i - 1].obj
      <4>1. CASE i - 1 = 1
        BY <1>4, <2>1, <4>1
      <4>2. CASE i - 1 \in 2..Len(stack)
        BY <2>1, <4>2
      <4>3. i > 1 => i - 1 = 1 \/ i - 1 \in 2..Len(stack)
        BY <2>1
      <4>4. QED BY <4>1, <4>2, <4>3
    <3>3. QED BY <2>3, <3>2 DEF AboveOf
  <2>6. OfCall(h)
    BY <2>2, <2>4 DEF StackInvariant, FrameInvariant
  <2>7. h.action = "create" => call = "execute"
    BY <1>6, <2>6 DEF OfCall
  <2>8. h.action = "drop" => call = "drop"
    BY <1>6, <2>6 DEF OfCall
  <2>9. h.action = "create" => \A d \in All : Exists(d) => Exists(d)'
    BY <1>c, <2>7, DropsOnly
  <2>10. h.action = "drop" => \A p \in Objects : ~Exists(p) => ~Exists(p)'
    BY <1>c, <2>8, DropsOnly DEF All
  <2>11. h.action = "create" => \A d \in A : Exists(d)' \/ d \in A
    OBVIOUS
  <2>12. CASE i = 1
    <3>1. h = Top /\ s[i] = f
      BY <1>4, <2>1, <2>2, <2>12
    <3>2. /\ f.obj = h.obj /\ f.action = h.action /\ f.visit = h.visit
          /\ f.stage # "committed" => h.stage # "committed" /\ UNCHANGED tables
      BY <3>1
    <3>3. f.stage # "committed" => (Exists(h.obj)' <=> Exists(h.obj))
      BY <3>2 DEF Exists
    <3>4. f.visit \subseteq h.visit /\ (h.visit \ f.visit) \cup A = A
      BY <3>2
    <3>5. Served(f, A)'
      BY <2>4, <2>9, <2>10, <3>2, <3>3, <3>4, ServedStays
    <3>6. Served(s[i], AboveOf(s, i))' <=> Served(f, A)'
      BY <2>5, <3>1
    <3>7. QED BY <3>5, <3>6
  <2>13. CASE i # 1
    <3>1. s[i] = h
      BY <2>1, <2>2, <2>13
    <3>2. h.obj # o
      <4>1. Deeper(rank, stack[1].obj, stack[i].obj, stack[i].action)
        BY <1>3, <1>4, <2>1, <2>4, <2>13 DEF DepthOf
      <4>2. stack[1].obj # stack[i].obj
        BY <4>1, DeeperApart
      <4>3. QED BY <1>4, <1>b, <2>2, <4>2
    <3>3. Exists(h.obj)' <=> Exists(h.obj)
      BY <1>c, <2>4, <3>2
    <3>4. (h.visit \ h.visit) \cup A = A
      OBVIOUS
    <3>5. Served(h, A)'
      BY <2>4, <2>9, <2>10, <3>3, <3>4, ServedStays
    <3>6. QED BY <2>5, <3>1, <3>5
  <2>14. QED BY <2>12, <2>13
<1>9. QED BY <1>5, <1>7, <1>8

\* The steps with which the innermost object leaves.
LEMMA FirstPopped ==
  ASSUME NEW rank, IInv, FirstCallInvariant(rank), stack # <<>>,
         UNCHANGED <<call, calls, declared, tables, isCreated, agenda>>,
         call = "execute" => UNCHANGED depends, ~unseen' => ~unseen,
         ~Stage("run"), Popped(FrameSet, stack', stack),
         Exists(Top.obj) <=> Top.action # "drop"
  PROVE  FirstCallInvariant(rank)'
<1> USE DEF IInv
<1>a. PICK s : s = stack'
  OBVIOUS
<1>1. SUFFICES ASSUME InFirstCall'
               PROVE  /\ InExecute' /\ DepthOf(rank, s)
                      /\ \A i \in DOMAIN s : Served(s[i], AboveOf(s, i))'
  BY <1>a, FirstCallGets
<1>2. InFirstCall
  BY <1>1 DEF InFirstCall
<1>3. InExecute /\ DepthOf(rank, stack) /\ \A i \in DOMAIN stack : FrameIsServed(i)
  BY <1>2, FirstCallHas
<1>4. stack \in Frames /\ Top = stack[1] /\ Popped(FrameSet, s, stack)
  BY <1>a, TopFrame
<1>5. DepthOf(rank, s)
  BY <1>3, <1>4, DepthPopped
<1>6. call \in {"execute", "drop"}
  BY <1>2 DEF InFirstCall, InstanceInvariant
<1>7. InExecute'
  <2>1. SUFFICES ASSUME call = "execute"
                 PROVE  depends' = declared' /\ FlagsExist' /\ OwnBefore'
    BY DEF InExecute
  <2>2. depends = declared /\ FlagsExist /\ OwnBefore
    BY <1>3, <2>1 DEF InExecute
  <2>4. \A x : Exists(x) \/ Executing(x) => Exists(x)' \/ Executing(x)'
    <3>1. \A x : Executing(x) => x = Top.obj \/ Executing(x)'
      BY <1>4, <1>a, HoldsPopped, ExecutingHolds
    <3>2. \A x : Exists(x) => Exists(x)'
      BY DEF Exists
    <3>3. ASSUME NEW x, Executing(x)
          PROVE  Exists(x)' \/ Executing(x)'
      <4>1. CASE Executing(x)'
        BY <4>1
      <4>2. CASE x = Top.obj
        <5>1. Exists(x)
          BY <2>1, <4>2, DropsOnly
        <5>2. QED BY <3>2, <5>1
      <4>3. QED BY <3>1, <3>3, <4>1, <4>2
    <3>4. QED BY <3>2, <3>3
  <2>5. OwnBefore'
    BY <2>2, <2>4, OwnBeforeStays
  <2>6. FlagsExist'
    BY <2>2 DEF FlagsExist, Exists
  <2>7. QED BY <2>1, <2>2, <2>5, <2>6
<1>8. ASSUME NEW i \in DOMAIN s
      PROVE  Served(s[i], AboveOf(s, i))'
  <2>1. /\ DOMAIN stack = 1..Len(stack) /\ Len(stack) \in Nat \ {0}
        /\ DOMAIN s = 1..(Len(stack) - 1)
        /\ \A j \in 1..(Len(stack) - 1) : s[j] = stack[j + 1]
    BY <1>4 DEF Popped, Frames
  <2>2. PICK h : h = stack[i + 1]
    OBVIOUS
  <2>3. PICK A : A = AboveOf(stack, i + 1)
    OBVIOUS
  <2>b. PICK B : B = AboveOf(s, i)
    OBVIOUS
  <2>4. /\ i + 1 \in DOMAIN stack /\ Served(h, A) /\ h \in FrameSet /\ h.obj \in All
        /\ s[i] = h
    <3>1. i + 1 \in DOMAIN stack /\ s[i] = h
      BY <2>1, <2>2
    <3>2. Served(h, A)
      BY <1>3, <2>2, <2>3, <3>1 DEF FrameIsServed
    <3>3. h \in FrameSet
      BY <1>4, <2>2, <3>1 DEF Frames
    <3>4. QED BY <3>1, <3>2, <3>3 DEF FrameSet
  <2>5. A = {stack[i].obj} /\ i \in DOMAIN stack
    BY <2>1, <2>3 DEF AboveOf
  <2>6. OfCall(h)
    BY <2>2, <2>4 DEF StackInvariant, FrameInvariant
  <2>7. h.action = "create" => call = "execute"
    BY <1>6, <2>6 DEF OfCall
  <2>8. h.action = "drop" => call = "drop"
    BY <1>6, <2>6 DEF OfCall
  <2>9. \A p : Exists(p)' <=> Exists(p)
    BY DEF Exists
  <2>10. (h.visit \ h.visit) \cup A = A
    OBVIOUS
  <2>11. i = 1 => A = {Top.obj}
    BY <1>4, <2>5
  <2>12. i # 1 => A = B
    <3>1. i # 1 => i - 1 \in 1..(Len(stack) - 1) /\ (i - 1) + 1 = i /\ i > 1
      BY <2>1
    <3>2. i # 1 => s[i - 1] = stack[i]
      BY <2>1, <3>1
    <3>3. i # 1 => B = {s[i - 1].obj}
      BY <2>b, <3>1 DEF AboveOf
    <3>4. QED BY <2>5, <3>2, <3>3
  <2>13. h.action = "create" => \A d \in A : Exists(d)' \/ d \in B
    BY <2>7, <2>9, <2>11, <2>12, DropsOnly
  <2>14. h.action = "drop" => \A p \in A : ~Exists(p)' \/ p \in B
    BY <2>8, <2>9, <2>11, <2>12, DropsOnly
  <2>15. Served(h, B)'
    BY <2>4, <2>9, <2>10, <2>13, <2>14, ServedStays
  <2>16. QED BY <2>4, <2>b, <2>15
<1>9. QED BY <1>5, <1>7, <1>8

\* Nothing executes: there are no frames to serve.
LEMMA FirstTasks ==
  ASSUME NEW rank, FirstCallInvariant(rank), stack' = <<>>,
         InFirstCall' => InFirstCall /\ (InExecute => InExecute')
  PROVE  FirstCallInvariant(rank)'
<1>1. DepthOf(rank, <<>>)
  BY DEF DepthOf
<1>2. InFirstCall' => InExecute'
  BY FirstCallHas
<1>3. PICK s : s = stack'
  OBVIOUS
<1>4. DOMAIN s = {} /\ s = <<>>
  BY <1>3
<1>5. QED BY <1>1, <1>2, <1>3, <1>4, FirstCallGets

LEMMA BeginFirst ==
  ASSUME NEW rank, Follows(rank), IInv, FirstCallInvariant(rank), Begin
  PROVE  FirstCallInvariant(rank)'
<1> USE DEF IInv
<1>1. PICK f : BeginEffect(f)
  BY BeginsOrLeaves
<1>2. /\ UNCHANGED <<call, calls, agenda, tables, isCreated, declared, depends, unseen>>
      /\ stack # <<>> /\ Top.stage = "visit" /\ Top.visit = {} /\ stack \in Frames
  BY <1>1, TopFrame DEF BeginEffect, database, instance, application
<1>3. ~Stage("run")
  BY <1>2 DEF Stage
<1>4. CASE /\ Top.action = "alter" /\ Popped(FrameSet, stack', stack)
  <2>1. Exists(Top.obj)
    BY <1>2, <1>4, TopFrame DEF StackInvariant, FrameInvariant, Active
  <2>2. QED BY <1>2, <1>3, <1>4, <2>1, FirstPopped
<1>5. CASE /\ f.obj = Top.obj /\ f.action = Top.action /\ f.visit = {} /\ f.stage = "run"
           /\ Replaced(FrameSet, stack', f, stack)
  <2>1. \A p : Exists(p)' <=> Exists(p)
    BY <1>2 DEF Exists
  <2>2. FlagsExist => FlagsExist'
    BY <1>2, <1>3, <2>1 DEF FlagsExist
  <2>3. Top.stage # "committed" /\ UNCHANGED tables /\ f.visit = Top.visit
    BY <1>2, <1>5
  <2>4. QED BY <1>2, <1>5, <2>1, <2>2, <2>3, FirstReplaced
<1>6. QED BY <1>1, <1>4, <1>5 DEF BeginEffect

LEMMA RunCommandFirst ==
  ASSUME NEW rank, Follows(rank), IInv, FirstCallInvariant(rank), RunCommand
  PROVE  FirstCallInvariant(rank)'
<1> USE DEF IInv
<1>1. PICK f : StageEffect(f, "run", Tail(Top.ddl))
  BY RunCommandEffect
<1>a. PICK o : o = Top.obj
  OBVIOUS
<1>2. /\ stack # <<>> /\ f.obj = o /\ f.action = Top.action /\ f.visit = Top.visit
      /\ f.stage = "run" /\ Top.stage = "run" /\ Replaced(FrameSet, stack', f, stack)
      /\ stack \in Frames
  BY <1>1, <1>a, TopFrame DEF StageEffect
<1>3. Top' = f /\ Stage("run")'
  BY <1>2, ReplacedTop DEF Stage
<1>4. /\ UNCHANGED <<call, calls, agenda, tables, declared, depends, unseen>>
      /\ isCreated' \subseteq isCreated \cup {o}
  BY <1>a DEF RunCommand, database, application
<1>5. \A p : Exists(p)' <=> Exists(p)
  BY <1>4 DEF Exists
<1>6. FlagsExist => FlagsExist'
  <2>1. SUFFICES ASSUME FlagsExist, NEW p \in isCreated', p # o
                 PROVE  Exists(p)'
    BY <1>2, <1>3 DEF FlagsExist
  <2>2. p \in isCreated
    BY <1>4, <2>1
  <2>3. QED BY <1>5, <1>a, <2>1, <2>2 DEF FlagsExist
<1>7. QED BY <1>2, <1>4, <1>5, <1>6, <1>a, FirstReplaced

LEMMA CommitFirst ==
  ASSUME NEW rank, Follows(rank), IInv, FirstCallInvariant(rank), Commit
  PROVE  FirstCallInvariant(rank)'
<1> USE DEF IInv
<1>1. PICK f : StageEffect(f, "committed", <<>>)
  BY CommitEffect
<1>a. PICK o : o = Top.obj
  OBVIOUS
<1>2. /\ stack # <<>> /\ f.obj = o /\ f.action = Top.action /\ f.visit = Top.visit
      /\ f.stage = "committed" /\ Replaced(FrameSet, stack', f, stack) /\ stack \in Frames
  BY <1>1, <1>a, TopFrame DEF StageEffect
<1>3. /\ UNCHANGED <<call, calls, agenda, isCreated, declared, depends, unseen>>
      /\ tables' = work /\ Stage("run") /\ Top.ddl = <<>>
  BY DEF Commit, instance, application
<1>4. TransactionInvariant /\ OthersUntouched
  BY <1>3 DEF WorkInvariant, TransactionInvariant
<1>5. \A p \in All \ {o} : Exists(p)' <=> Exists(p)
  BY <1>3, <1>4, <1>a DEF OthersUntouched, Exists
<1>6. Top.action = "drop" => o \notin DOMAIN tables'
  BY <1>3, <1>4, <1>a DEF TransactionInvariant
<1>7. Top.action # "drop" => o \in DOMAIN tables'
  BY <1>3, <1>4, <1>a DEF TransactionInvariant, Made
<1>8. ASSUME call = "execute", FlagsExist
      PROVE  FlagsExist'
  <2>1. Top.action # "drop"
    BY <1>2, <1>8, DropsOnly
  <2>2. SUFFICES ASSUME NEW p \in isCreated, p # o
                 PROVE  Exists(p)'
    BY <1>3, <1>7, <2>1 DEF FlagsExist, Exists
  <2>3. p \in All /\ Exists(p)
    BY <1>8, <1>a, <2>2 DEF FlagsExist, InstanceInvariant
  <2>4. QED BY <1>5, <2>2, <2>3
<1>9. QED BY <1>2, <1>3, <1>5, <1>6, <1>7, <1>8, <1>a, FirstReplaced

LEMMA LeavingFirst ==
  ASSUME NEW rank, IInv, FirstCallInvariant(rank),
         RegisterObject \/ UnregisterObject \/ LeaveAltered
  PROVE  FirstCallInvariant(rank)'
<1> USE DEF IInv
<1>1. /\ Stage("committed") /\ LeaveEffect(Top.action)
      /\ UNCHANGED <<call, calls, declared, tables, isCreated, agenda>>
      /\ ~unseen' => ~unseen
      /\ UNCHANGED depends \/ Top.action = "drop"
  <2>1. CASE RegisterObject
    BY <2>1, LeavingEffect DEF RegisterObject, application
  <2>2. CASE UnregisterObject
    BY <2>2, LeavingEffect DEF UnregisterObject, application
  <2>3. CASE LeaveAltered
    BY <2>3, LeavingEffect DEF LeaveAltered, database, instance, application
  <2>4. QED BY <2>1, <2>2, <2>3
<1>2. stack # <<>> /\ Popped(FrameSet, stack', stack) /\ Top.stage = "committed"
  BY <1>1 DEF LeaveEffect
<1>3. ~Stage("run")
  BY <1>2 DEF Stage
<1>4. Exists(Top.obj) <=> Top.action # "drop"
  BY <1>1 DEF WorkInvariant, Made, Exists
<1>5. call = "execute" => UNCHANGED depends
  BY <1>1, <1>2, DropsOnly
<1>6. QED BY <1>1, <1>2, <1>3, <1>4, <1>5, FirstPopped

LEMMA TaskFirst ==
  ASSUME NEW rank, IInv, FirstCallInvariant(rank), RegisterSchema \/ ClearCache
  PROVE  FirstCallInvariant(rank)'
<1> USE DEF IInv
<1>1. /\ UNCHANGED <<call, calls, tables, isCreated, declared, depends, unseen, stack>>
      /\ stack = <<>> /\ agenda # <<>> /\ agenda' = Tail(agenda) /\ agenda[1].do # "execute"
  BY DEF RegisterSchema, ClearCache, Turn, database, instance, application
<1>2. ASSUME OwnBefore
      PROVE  OwnBefore'
  <2>1. agenda \in Seq(TaskSet) /\ Popped(TaskSet, agenda', agenda)
    BY <1>1, HeadTask
  <2>2. \A x : agenda[1] # Task("execute", x)
    BY <1>1 DEF Task
  <2>3. \A x : Exists(x) \/ Executing(x) => Exists(x)' \/ Executing(x)'
    BY <1>1 DEF Exists, Executing
  <2>4. QED BY <1>1, <1>2, <2>1, <2>2, <2>3, OwnBeforePopped
<1>3. FlagsExist => FlagsExist'
  BY <1>1 DEF FlagsExist, Exists, Stage
<1>4. InFirstCall' => InFirstCall
  BY <1>1 DEF InFirstCall
<1>5. InExecute => InExecute'
  BY <1>1, <1>2, <1>3 DEF InExecute
<1>6. QED BY <1>1, <1>4, <1>5, FirstTasks

\* The call of Execute starts with Orpheus's own tables, or they are there.
LEMMA ExecuteFirst ==
  ASSUME NEW rank, IInv, Execute
  PROVE  FirstCallInvariant(rank)'
<1> USE DEF IInv
<1>1. PICK seen \in BOOLEAN :
        /\ ~unseen' => seen = Exists("Object")
        /\ Call("execute", OwnTables(seen) \o << Task("registerSchema", "Info") >> \o Each("execute"))
  BY DEF Execute
<1> DEFINE own == OwnTables(seen)
           tasks == own \o << Task("registerSchema", "Info") >> \o Each("execute")
<1>2. /\ call = "none" /\ calls' = calls + 1 /\ agenda' = tasks
      /\ UNCHANGED <<tables, isCreated, declared, depends, stack>>
  BY <1>1 DEF Call, database, instance, application
<1>3. stack' = <<>>
  BY <1>2 DEF StackInvariant, AgendaInvariant
<1>4. /\ tasks \in Seq(TaskSet) /\ Len(own) \in Nat /\ Len(order) \in Nat
      /\ own = <<>> \/ own = << Task("execute", "Info"), Task("execute", "Object"),
                                       Task("execute", "Module") >>
      /\ Len(tasks) = Len(own) + 1 + Len(order)
      /\ \A i \in 1..Len(own) : tasks[i] = own[i]
      /\ tasks[Len(own) + 1] = Task("registerSchema", "Info")
      /\ \A i \in 1..Len(order) : tasks[Len(own) + 1 + i] = Task("execute", order[i])
  BY ExecuteAgenda, EachTask
<1>5. seen \/ own = << Task("execute", "Info"), Task("execute", "Object"),
                       Task("execute", "Module") >>
  BY DEF OwnTables
<1> HIDE DEF own, tasks
<1>6. \A i \in 1..Len(order) : order[i] \in Objects
  BY DEF InstanceInvariant
<1>7. PICK s : s = stack'
  OBVIOUS
<1>8. SUFFICES ASSUME InFirstCall'
               PROVE  InExecute'
  BY <1>3, <1>7, FirstCallGets DEF DepthOf
<1>9. depends' = declared' /\ isCreated' = {}
  <2>1. calls' = 1 /\ calls \in 0..MaxCalls
    BY <1>8 DEF InFirstCall, InstanceInvariant
  <2>2. calls = 0
    BY <1>2, <2>1
  <2>3. QED BY <1>2, <2>2 DEF InstanceInvariant
<1>10. ~unseen' /\ (seen => Exists("Object")')
  BY <1>1, <1>2, <1>8 DEF InFirstCall, Exists
<1>11. ASSUME NEW i \in DOMAIN tasks, tasks[i].do = "execute"
       PROVE  /\ tasks[i].obj \in {"Object", "Module"} => ComesBefore("Info", i)'
              /\ tasks[i].obj \in Objects => ComesBefore("Object", i)'
  <2>1. i \in 1..(Len(own) + 1 + Len(order))
    BY <1>4, <1>11
  <2>2. tasks[Len(own) + 1].do # "execute"
    BY <1>4 DEF Task
  <2>3. i # Len(own) + 1
    BY <1>11, <2>2
  <2>4. CASE i \in 1..Len(own)
    <3>1. own = << Task("execute", "Info"), Task("execute", "Object"),
                   Task("execute", "Module") >>
      BY <1>4, <2>4
    <3>2. Len(own) = 3 /\ own[1] = Task("execute", "Info")
      BY <3>1
    <3>3. own[1].obj = "Info" /\ own[2].obj = "Object" /\ own[3].obj = "Module"
      BY <3>1 DEF Task
    <3>4. i \in 1..3 /\ tasks[i] = own[i] /\ tasks[1] = own[1]
      BY <1>4, <2>4, <3>2
    <3>5. tasks[i].obj \notin Objects
      BY <3>3, <3>4, Apart DEF ObjectsApart, Internal
    <3>6. CASE i = 1
      BY <3>3, <3>4, <3>5, <3>6
    <3>7. CASE i # 1
      <4>1. 1 \in 1..(i - 1) /\ agenda'[1] = Task("execute", "Info")
        BY <1>2, <3>2, <3>4, <3>7
      <4>2. QED BY <3>5, <4>1 DEF ComesBefore, Task
    <3>8. QED BY <3>6, <3>7
  <2>5. CASE i - Len(own) - 1 \in 1..Len(order)
    <3>1. i = Len(own) + 1 + (i - Len(own) - 1)
      BY <1>4, <2>1
    <3>2. tasks[i] = Task("execute", order[i - Len(own) - 1])
      BY <1>4, <2>5, <3>1
    <3>3. tasks[i].obj \in Objects
      BY <1>6, <2>5, <3>2 DEF Task
    <3>4. tasks[i].obj \notin {"Object", "Module"}
      BY <3>3, Apart DEF ObjectsApart, Internal
    <3>5. CASE seen
      BY <1>10, <3>4, <3>5 DEF ComesBefore
    <3>6. CASE own = << Task("execute", "Info"), Task("execute", "Object"),
                        Task("execute", "Module") >>
      <4>1. Len(own) = 3 /\ own[2] = Task("execute", "Object")
        BY <3>6
      <4>2. 2 \in 1..(i - 1) /\ tasks[2] = own[2]
        BY <1>4, <2>1, <2>5, <4>1
      <4>3. agenda'[2] = Task("execute", "Object")
        BY <1>2, <4>1, <4>2
      <4>4. QED BY <3>4, <4>2, <4>3 DEF ComesBefore, Task
    <3>7. QED BY <1>5, <3>5, <3>6
  <2>6. i \in 1..Len(own) \/ i - Len(own) - 1 \in 1..Len(order)
    BY <1>4, <2>1, <2>3
  <2>7. QED BY <2>4, <2>5, <2>6
<1>12. OwnBefore'
  BY <1>2, <1>11 DEF OwnBefore
<1>13. FlagsExist'
  BY <1>9 DEF FlagsExist
<1>14. QED BY <1>9, <1>12, <1>13 DEF InExecute

\* A new frame is served: what its object needs is there or is all to be visited.
LEMMA NewIsServed ==
  ASSUME InstanceInvariant, NEW o \in All, NEW drop \in BOOLEAN, NEW seen \in BOOLEAN,
         NEW f, NewFrame(f, o, drop, seen), seen = Exists(o), UNCHANGED <<tables, declared>>,
         ~drop /\ ~seen => /\ depends = declared
                           /\ o \in Objects => Exists("Object")
                           /\ o \in {"Object", "Module"} => Exists("Info"),
         NEW A
  PROVE  Served(f, A)'
<1>1. /\ f.obj = o /\ f.action = (IF drop THEN "drop" ELSE IF seen THEN "alter" ELSE "create")
      /\ f.visit = (IF drop THEN Dependents(o) ELSE IF seen THEN {} ELSE Dependencies(o))
      /\ drop => seen
  BY DEF NewFrame
<1>2. \A p : Exists(p)' <=> Exists(p)
  BY DEF Exists
<1>3. Dependents(o)' = Dependents(o)
  BY DEF Dependents
<1>4. CASE drop
  <2>1. f.action = "drop" /\ f.visit = Dependents(o) /\ Exists(o)
    BY <1>1, <1>4
  <2>2. QED BY <1>1, <1>2, <1>3, <2>1 DEF Served
<1>5. CASE ~drop /\ seen
  <2>1. f.action = "alter"
    BY <1>1, <1>5
  <2>2. QED BY <2>1 DEF Served
<1>6. CASE ~drop /\ ~seen
  <2>1. f.action = "create" /\ f.visit = Dependencies(o) /\ ~Exists(o) /\ depends = declared
    BY <1>1, <1>6
  <2>2. o \in Objects => f.visit = declared[o] \cup {"Object"} /\ Exists("Object")
    BY <1>6, <2>1 DEF Dependencies
  <2>3. o \in {"Object", "Module"} => Exists("Info")
    BY <1>6
  <2>4. QED BY <1>1, <1>2, <2>1, <2>2, <2>3 DEF Served
<1>7. QED BY <1>4, <1>5, <1>6

LEMMA NextObjectFirst ==
  ASSUME NEW rank, IInv, FirstCallInvariant(rank), NextObject
  PROVE  FirstCallInvariant(rank)'
<1> USE DEF IInv
<1>1. NextEffect
  BY NextObjectEffect
<1>2. /\ UNCHANGED <<call, calls, tables, isCreated, declared, depends>>
      /\ stack = <<>> /\ agenda # <<>> /\ agenda[1].do \in {"execute", "drop"}
      /\ Popped(TaskSet, agenda', agenda) /\ agenda[1].obj \in All
      /\ Entering(agenda[1].obj, agenda[1].do = "drop", <<>>)
  BY <1>1 DEF NextEffect, database, instance, application
<1>3. PICK o \in All, drop \in BOOLEAN : o = agenda[1].obj /\ drop = (agenda[1].do = "drop")
  BY <1>2
<1>4. PICK seen \in BOOLEAN :
        /\ Answer(o, seen)
        /\ \/ stack' = <<>> /\ (o \in isCreated \/ (drop /\ ~seen))
           \/ \E f \in FrameSet : NewFrame(f, o, drop, seen) /\ Pushed(FrameSet, stack', f, <<>>)
  BY <1>2, <1>3 DEF Entering
<1>a. PICK s : s = stack'
  OBVIOUS
<1>5. SUFFICES ASSUME InFirstCall'
               PROVE  /\ InExecute' /\ DepthOf(rank, s)
                      /\ \A i \in DOMAIN s : Served(s[i], AboveOf(s, i))'
  BY <1>a, FirstCallGets
<1>6. InFirstCall /\ seen = Exists(o)
  BY <1>2, <1>4, <1>5, AnswerSeen DEF InFirstCall
<1>7. InExecute
  BY <1>6, FirstCallHas
<1>8. 1 \in DOMAIN agenda /\ agenda \in Seq(TaskSet)
  BY <1>2, HeadTask
<1>9. ~drop <=> call = "execute"
  BY <1>2, <1>3, <1>6, <1>8 DEF InFirstCall, InstanceInvariant, StackInvariant, AgendaInvariant
<1>10. \A p : ~Executing(p)
  BY <1>2 DEF Executing
<1>11. call = "execute" => \A p \in isCreated : Exists(p)
  BY <1>2, <1>7 DEF InExecute, FlagsExist, Stage
<1>12. \A p : Exists(p)' <=> Exists(p)
  BY <1>2 DEF Exists
<1>13. InExecute'
  <2>1. SUFFICES ASSUME call = "execute"
                 PROVE  depends' = declared' /\ FlagsExist' /\ OwnBefore'
    BY <1>2 DEF InExecute
  <2>2. depends = declared /\ OwnBefore
    BY <1>7, <2>1 DEF InExecute
  <2>3. FlagsExist'
    BY <1>2, <1>11, <1>12, <2>1 DEF FlagsExist
  <2>4. ASSUME agenda[1] = Task("execute", o)
        PROVE  Exists(o)' \/ Executing(o)'
    <3>1. CASE o \in isCreated
      BY <1>11, <1>12, <2>1, <3>1
    <3>2. CASE \E f \in FrameSet : NewFrame(f, o, drop, seen) /\ Pushed(FrameSet, stack', f, <<>>)
      <4>1. PICK f \in FrameSet : NewFrame(f, o, drop, seen) /\ Pushed(FrameSet, stack', f, <<>>)
        BY <3>2
      <4>2. f.obj = o /\ <<>> \in Frames
        BY <4>1 DEF NewFrame, Frames
      <4>3. Holds(stack', o)
        BY <4>1, <4>2, HoldsPushed
      <4>4. QED BY <4>3, ExecutingHolds
    <3>3. QED BY <1>4, <1>9, <2>1, <3>1, <3>2
  <2>5. \A x : agenda[1] = Task("execute", x) => x = o
    BY <1>3 DEF Task
  <2>6. \A x : Exists(x) \/ Executing(x) \/ agenda[1] = Task("execute", x) =>
                 Exists(x)' \/ Executing(x)'
    BY <1>10, <1>12, <2>4, <2>5
  <2>7. OwnBefore'
    BY <1>2, <1>8, <2>2, <2>6, OwnBeforePopped
  <2>8. QED BY <1>2, <2>2, <2>3, <2>7
<1>14. CASE stack' = <<>>
  <2>1. DOMAIN s = {}
    BY <1>14, <1>a
  <2>2. QED BY <1>13, <2>1 DEF DepthOf
<1>15. CASE \E f \in FrameSet : NewFrame(f, o, drop, seen) /\ Pushed(FrameSet, stack', f, <<>>)
  <2>1. PICK f \in FrameSet : NewFrame(f, o, drop, seen) /\ Pushed(FrameSet, s, f, <<>>)
    BY <1>15, <1>a
  <2>2. DOMAIN s = 1..1 /\ s[1] = f
    BY <2>1 DEF Pushed
  <2>3. ASSUME ~drop
        PROVE  /\ depends = declared
               /\ o \in Objects => Exists("Object")
               /\ o \in {"Object", "Module"} => Exists("Info")
    <3>1. call = "execute" /\ agenda[1].do = "execute"
      BY <1>2, <1>3, <1>9, <2>3
    <3>2. depends = declared /\ OwnBefore
      BY <1>7, <3>1 DEF InExecute
    <3>3. \A x : ComesBefore(x, 1) => Exists(x)
      <4>1. \A j \in 1..(1 - 1) : FALSE
        OBVIOUS
      <4>2. QED BY <1>10, <4>1 DEF ComesBefore
    <3>4. /\ o \in {"Object", "Module"} => ComesBefore("Info", 1)
          /\ o \in Objects => ComesBefore("Object", 1)
      BY <1>3, <1>8, <3>1, <3>2 DEF OwnBefore
    <3>5. QED BY <3>2, <3>3, <3>4
  <2>4. \A A : Served(f, A)'
    BY <1>2, <1>6, <2>1, <2>3, NewIsServed
  <2>5. DepthOf(rank, s)
    BY <2>2 DEF DepthOf
  <2>6. \A i \in DOMAIN s : s[i] = f
    BY <2>2
  <2>7. ASSUME NEW i \in DOMAIN s
        PROVE  Served(s[i], AboveOf(s, i))'
    <3>1. PICK A : A = AboveOf(s, i)
      OBVIOUS
    <3>2. Served(f, A)'
      BY <2>4
    <3>3. QED BY <2>6, <3>1, <3>2
  <2>8. QED BY <1>13, <2>5, <2>7
<1>16. QED BY <1>4, <1>14, <1>15

\* What the visited object is to the one that visits it.
LEMMA VisitedIsDeeper ==
  ASSUME NEW rank, Follows(rank), InstanceInvariant,
         NEW f, NEW A, Served(f, A), Waiting(f), f.action \in {"create", "drop"},
         NEW o \in f.visit
  PROVE  Deeper(rank, o, f.obj, f.action)
<1>1. f.obj \in Objects
  BY DEF Waiting
<1>2. CASE f.action = "create"
  <2>1. o \in declared[f.obj] \cup {"Object"}
    BY <1>1, <1>2 DEF Served
  <2>2. CASE o = "Object"
    BY <1>1, <2>2 DEF Deeper, Internal
  <2>3. CASE o \in declared[f.obj]
    <3>1. o \in DependsOn[f.obj]
      BY <1>1, <2>3 DEF InstanceInvariant
    <3>2. rank[o] < rank[f.obj]
      BY <1>1, <3>1 DEF Follows
    <3>3. QED BY <1>1, <1>2, <3>2 DEF Deeper
  <2>4. QED BY <2>1, <2>2, <2>3
<1>3. CASE f.action = "drop"
  <2>1. o \in Objects /\ f.obj \in declared[o]
    BY <1>3 DEF Served, Dependents
  <2>2. f.obj \in DependsOn[o]
    BY <2>1 DEF InstanceInvariant
  <2>3. rank[f.obj] < rank[o]
    BY <2>1, <2>2 DEF Follows
  <2>4. QED BY <1>1, <1>3, <2>3 DEF Deeper
<1>4. QED BY <1>2, <1>3

LEMMA DeeperStill ==
  ASSUME NEW rank, Follows(rank), NEW o \in All, NEW p \in Objects, NEW q, NEW action,
         Deeper(rank, o, p, action), Deeper(rank, p, q, action)
  PROVE  Deeper(rank, o, q, action)
<1>1. q \in Objects
  BY DEF Deeper
<1>2. CASE o \in Internal
  BY <1>1, <1>2 DEF Deeper
<1>3. CASE o \in Objects
  <2>1. o \notin Internal /\ p \notin Internal
    BY <1>3, Apart DEF ObjectsApart
  <2>2. rank[o] \in Nat /\ rank[p] \in Nat /\ rank[q] \in Nat
    BY <1>1, <1>3 DEF Follows
  <2>3. CASE action = "drop"
    BY <1>1, <2>1, <2>2, <2>3 DEF Deeper
  <2>4. CASE action # "drop"
    BY <1>1, <2>1, <2>2, <2>4 DEF Deeper
  <2>5. QED BY <2>3, <2>4
<1>4. QED BY <1>2, <1>3 DEF All

\* The innermost object visits another one; the objects below it are as they were.
LEMMA VisitDependencyFirst ==
  ASSUME NEW rank, Follows(rank), IInv, DropInvariant, FirstCallInvariant(rank),
         VisitDependency
  PROVE  FirstCallInvariant(rank)'
<1> USE DEF IInv
<1>1. PICK o \in All, f \in FrameSet, below \in Frames : VisitEffect(o, f, below)
  BY VisitDependencyEffect
<1>2. /\ stack # <<>> /\ Top.stage = "visit" /\ o \in Top.visit
      /\ f = [Top EXCEPT !.visit = @ \ {o}] /\ Replaced(FrameSet, below, f, stack)
      /\ Entering(o, Top.action = "drop", below)
      /\ UNCHANGED <<call, calls, agenda, tables, isCreated, declared, depends>>
  BY <1>1 DEF VisitEffect, database, instance, application
<1>3. PICK drop \in BOOLEAN : drop = (Top.action = "drop")
  OBVIOUS
<1>a. PICK s : s = stack'
  OBVIOUS
<1>b. PICK top : top = Top
  OBVIOUS
<1>4. PICK seen \in BOOLEAN :
        /\ Answer(o, seen)
        /\ \/ s = below /\ (o \in isCreated \/ (drop /\ ~seen))
           \/ \E g \in FrameSet : NewFrame(g, o, drop, seen) /\ Pushed(FrameSet, s, g, below)
  BY <1>2, <1>3, <1>a DEF Entering
<1>5. SUFFICES ASSUME InFirstCall'
               PROVE  /\ InExecute' /\ DepthOf(rank, s)
                      /\ \A i \in DOMAIN s : Served(s[i], AboveOf(s, i))'
  BY <1>a, FirstCallGets
<1>6. InFirstCall /\ seen = Exists(o)
  BY <1>2, <1>4, <1>5, AnswerSeen DEF InFirstCall
<1>7. InExecute /\ DepthOf(rank, stack) /\ \A i \in DOMAIN stack : FrameIsServed(i)
  BY <1>6, FirstCallHas
<1>8. /\ stack \in Frames /\ top = stack[1] /\ top \in FrameSet /\ top.obj \in All
      /\ 1 \in DOMAIN stack /\ DOMAIN stack = 1..Len(stack) /\ Len(stack) \in Nat \ {0}
      /\ top.action \in {"create", "alter", "drop"}
  BY <1>2, <1>b, TopFrame
<1>9. call \in {"execute", "drop"} /\ (drop <=> call = "drop")
  BY <1>2, <1>3, <1>6, DropsOnly DEF InFirstCall, InstanceInvariant
<1>10. /\ Waiting(top) /\ top.action \in {"create", "drop"}
       /\ (top.action = "create" <=> ~drop)
       /\ f.action = top.action /\ f.obj = top.obj
       /\ f.stage = "visit" /\ f.visit = top.visit \ {o} /\ top.stage = "visit"
  <2>1. Active(top)
    BY <1>8, <1>b DEF StackInvariant, FrameInvariant
  <2>2. top.action # "alter" /\ top.obj \notin Internal
    BY <1>2, <1>b, <2>1 DEF Active
  <2>3. top.obj \in Objects
    BY <1>8, <2>2 DEF All
  <2>4. Waiting(top)
    BY <1>2, <1>b, <2>2, <2>3 DEF Waiting
  <2>5. f.action = top.action /\ f.obj = top.obj /\ f.stage = "visit" /\ f.visit = top.visit \ {o}
    BY <1>2, <1>8, <1>b DEF FrameSet
  <2>6. top.action = "create" <=> ~drop
    BY <1>3, <1>8, <1>b, <2>2
  <2>7. QED BY <1>2, <1>8, <1>b, <2>2, <2>4, <2>5, <2>6
<1>11. Served(top, {})
  <2>1. FrameIsServed(1)
    BY <1>7, <1>8
  <2>2. AboveOf(stack, 1) = {}
    BY DEF AboveOf
  <2>3. QED BY <1>8, <2>1, <2>2 DEF FrameIsServed
<1>12. \A p : Exists(p)' <=> Exists(p)
  BY <1>2 DEF Exists
<1>13. /\ DOMAIN below = 1..Len(stack) /\ Len(below) = Len(stack) /\ below[1] = f
       /\ \A i \in 2..Len(stack) : below[i] = stack[i]
  BY <1>2, <1>8 DEF Replaced
<1>14. DepthOf(rank, below)
  BY <1>2, <1>7, <1>8, <1>10, DepthReplaced
<1>15. ~drop => (o \in isCreated => Exists(o))
  <2>1. ~Stage("run")
    BY <1>2 DEF Stage
  <2>2. QED BY <1>7, <1>9, <2>1 DEF InExecute, FlagsExist
<1>16. drop => isCreated = {}
  BY <1>6, <1>9 DEF DropInvariant, InFirstCall
<1>17. InExecute'
  <2>1. SUFFICES ASSUME call = "execute"
                 PROVE  depends' = declared' /\ FlagsExist' /\ OwnBefore'
    BY <1>2 DEF InExecute
  <2>2. depends = declared /\ FlagsExist /\ OwnBefore
    BY <1>7, <2>1 DEF InExecute
  <2>3. \A p \in isCreated : Exists(p)
    BY <1>2, <2>2 DEF FlagsExist, Stage
  <2>4. FlagsExist'
    BY <1>2, <1>12, <2>3 DEF FlagsExist
  <2>5. \A p : Executing(p) => Executing(p)'
    BY <1>1, VisitExecutes
  <2>6. OwnBefore'
    BY <1>2, <1>12, <2>2, <2>5, OwnBeforeStays
  <2>7. QED BY <1>2, <2>2, <2>4, <2>6
\* The frames below the one that visits.
<1>19. ASSUME NEW i \in 2..Len(stack), NEW h, h = stack[i], NEW A, A = {stack[i - 1].obj}
       PROVE  Served(h, A)'
  <2>1. i \in DOMAIN stack /\ i > 1
    BY <1>8
  <2>2. Served(h, A)
    BY <1>7, <1>19, <2>1 DEF FrameIsServed, AboveOf
  <2>3. h \in FrameSet /\ h.obj \in All
    <3>1. stack \in Seq(FrameSet)
      BY <1>8 DEF Frames
    <3>2. h \in FrameSet
      BY <1>19, <2>1, <3>1
    <3>3. QED BY <3>2 DEF FrameSet
  <2>4. (h.visit \ h.visit) \cup A = A
    OBVIOUS
  <2>5. QED BY <1>2, <1>12, <2>2, <2>3, <2>4, ServedStays
\* The one that visits, whether what it visits is done or above it.
<1>20. ASSUME NEW B, o \in B \/ (IF drop THEN ~Exists(o) ELSE Exists(o))
       PROVE  Served(f, B)'
  <2>1. (top.visit \ f.visit) \cup {} \subseteq {o} /\ f.visit \subseteq top.visit
    BY <1>10
  <2>2. top.action = "create" => \A d \in (top.visit \ f.visit) \cup {} : Exists(d)' \/ d \in B
    BY <1>10, <1>12, <1>20, <2>1
  <2>3. top.action = "drop" => \A p \in (top.visit \ f.visit) \cup {} : ~Exists(p)' \/ p \in B
    BY <1>10, <1>12, <1>20, <2>1
  <2>4. top.stage # "committed"
    BY <1>10
  <2>5. /\ f.obj = top.obj /\ f.action = top.action /\ f.visit \subseteq top.visit
        /\ top.obj \in All /\ Served(top, {}) /\ UNCHANGED declared
    BY <1>2, <1>8, <1>10, <1>11, <2>1 DEF application
  <2>6. \A p : Exists(p)' <=> Exists(p)
    BY <1>12
  <2>7. QED BY <2>2, <2>3, <2>4, <2>5, <2>6, ServedStays
<1>21. CASE s = below /\ (o \in isCreated \/ (drop /\ ~seen))
  <2>1. IF drop THEN ~Exists(o) ELSE Exists(o)
    BY <1>6, <1>15, <1>16, <1>21
  <2>2. ASSUME NEW i \in DOMAIN s
        PROVE  Served(s[i], AboveOf(s, i))'
    <3>1. PICK A : A = AboveOf(s, i)
      OBVIOUS
    <3>2. CASE i = 1
      <4>1. Served(f, A)'
        BY <1>20, <2>1
      <4>2. s[i] = f
        BY <1>13, <1>21, <3>2
      <4>3. QED BY <3>1, <4>1, <4>2
    <3>3. CASE i \in 2..Len(stack)
      <4>1. PICK h : h = stack[i]
        OBVIOUS
      <4>2. s[i] = h
        BY <1>13, <1>21, <3>3, <4>1
      <4>3. s[i - 1].obj = stack[i - 1].obj
        <5>1. i - 1 = 1 \/ i - 1 \in 2..Len(stack)
          BY <1>8, <3>3
        <5>2. QED BY <1>8, <1>10, <1>13, <1>21, <5>1
      <4>4. A = {stack[i - 1].obj}
        BY <1>8, <3>1, <3>3, <4>3 DEF AboveOf
      <4>5. Served(h, A)'
        BY <1>19, <3>3, <4>1, <4>4
      <4>6. QED BY <3>1, <4>2, <4>5
    <3>4. i = 1 \/ i \in 2..Len(stack)
      BY <1>8, <1>13, <1>21
    <3>5. QED BY <3>2, <3>3, <3>4
  <2>3. QED BY <1>14, <1>17, <1>21, <2>2
<1>22. CASE \E g \in FrameSet : NewFrame(g, o, drop, seen) /\ Pushed(FrameSet, s, g, below)
  <2>1. PICK g \in FrameSet : NewFrame(g, o, drop, seen) /\ Pushed(FrameSet, s, g, below)
    BY <1>22
  <2>2. /\ DOMAIN s = 1..(Len(stack) + 1) /\ s[1] = g /\ g.obj = o /\ s[2] = f
        /\ \A i \in 3..(Len(stack) + 1) : s[i] = stack[i - 1]
    <3>1. /\ DOMAIN s = 1..(Len(stack) + 1) /\ s[1] = g
          /\ \A i \in 2..(Len(stack) + 1) : s[i] = below[i - 1]
      BY <1>8, <1>13, <2>1 DEF Pushed
    <3>2. s[2] = f
      BY <1>8, <1>13, <3>1
    <3>3. ASSUME NEW i \in 3..(Len(stack) + 1)
          PROVE  s[i] = stack[i - 1]
      <4>1. i \in 2..(Len(stack) + 1) /\ i - 1 \in 2..Len(stack)
        BY <1>8
      <4>2. QED BY <1>13, <3>1, <4>1
    <3>4. QED BY <2>1, <3>1, <3>2, <3>3 DEF NewFrame
  <2>3. ~drop /\ ~seen => /\ depends = declared
                          /\ o \in Objects => Exists("Object")
                          /\ o \in {"Object", "Module"} => Exists("Info")
    <3>1. SUFFICES ASSUME ~drop, ~seen
                   PROVE  /\ depends = declared /\ Exists("Object")
                          /\ o \notin {"Object", "Module"}
      OBVIOUS
    <3>2. depends = declared
      BY <1>7, <1>9, <3>1 DEF InExecute
    <3>3. top.action = "create" /\ top.obj \in Objects
      BY <1>10, <3>1 DEF Waiting
    <3>4. Exists("Object") /\ top.visit \subseteq declared[top.obj] \cup {"Object"}
      BY <1>11, <3>3 DEF Served
    <3>5. o \in declared[top.obj] \cup {"Object"} /\ declared[top.obj] \subseteq Objects
      BY <1>2, <1>b, <3>3, <3>4 DEF InstanceInvariant
    <3>6. o # "Object"
      BY <1>6, <3>1, <3>4
    <3>7. o # "Module"
      BY <3>5, Apart DEF ObjectsApart, Internal
    <3>8. QED BY <3>2, <3>4, <3>6, <3>7
  <2>4. \A A : Served(g, A)'
    BY <1>2, <1>6, <2>1, <2>3, NewIsServed
  <2>5. DepthOf(rank, s)
    <3>1. ASSUME NEW j \in DOMAIN below
          PROVE  Deeper(rank, o, below[j].obj, below[j].action)
      <4>1. Deeper(rank, o, top.obj, top.action)
        BY <1>2, <1>10, <1>11, <1>b, VisitedIsDeeper
      <4>2. CASE j = 1
        BY <1>10, <1>13, <4>1, <4>2
      <4>3. CASE j \in 2..Len(stack)
        <5>1. Deeper(rank, top.obj, stack[j].obj, stack[j].action)
          BY <1>7, <1>8, <4>3 DEF DepthOf
        <5>2. OfCall(stack[j]) /\ Waiting(stack[j])
          BY <1>8, <4>3 DEF StackInvariant, FrameInvariant
        <5>3. stack[j] \in FrameSet
          BY <1>8, <4>3 DEF Frames
        <5>4. stack[j].action \in {"create", "drop"}
          BY <5>2, <5>3 DEF Waiting, FrameSet
        <5>5. stack[j].action = "drop" <=> drop
          BY <1>9, <5>2, <5>4 DEF OfCall
        <5>6. stack[j].action = top.action
          BY <1>10, <5>4, <5>5
        <5>7. top.obj \in Objects
          BY <1>10 DEF Waiting
        <5>8. Deeper(rank, o, stack[j].obj, top.action)
          BY <4>1, <5>1, <5>6, <5>7, DeeperStill
        <5>9. QED BY <1>13, <4>3, <5>6, <5>8
      <4>4. j = 1 \/ j \in 2..Len(stack)
        BY <1>8, <1>13
      <4>5. QED BY <4>2, <4>3, <4>4
    <3>2. QED BY <1>14, <2>1, <2>2, <3>1, DepthPushed DEF NewFrame
  <2>6. ASSUME NEW i \in DOMAIN s
        PROVE  Served(s[i], AboveOf(s, i))'
    <3>1. PICK A : A = AboveOf(s, i)
      OBVIOUS
    <3>2. CASE i = 1
      <4>1. s[i] = g /\ Served(g, A)'
        BY <2>2, <2>4, <3>2
      <4>2. QED BY <3>1, <4>1
    <3>3. CASE i = 2
      <4>1. o \in A
        BY <2>2, <3>1, <3>3 DEF AboveOf
      <4>2. s[i] = f /\ Served(f, A)'
        BY <1>20, <2>2, <3>3, <4>1
      <4>3. QED BY <3>1, <4>2
    <3>4. CASE i \in 3..(Len(stack) + 1)
      <4>1. PICK h : h = stack[i - 1]
        OBVIOUS
      <4>2. s[i] = h /\ i - 1 \in 2..Len(stack)
        BY <1>8, <2>2, <3>4, <4>1
      <4>3. s[i - 1].obj = stack[(i - 1) - 1].obj
        <5>1. CASE i = 3
          <6>1. s[i - 1] = f /\ stack[(i - 1) - 1] = top
            BY <1>8, <2>2, <5>1
          <6>2. QED BY <1>10, <6>1
        <5>2. CASE i - 1 \in 3..(Len(stack) + 1)
          BY <2>2, <5>2
        <5>3. i = 3 \/ i - 1 \in 3..(Len(stack) + 1)
          BY <1>8, <3>4
        <5>4. QED BY <5>1, <5>2, <5>3
      <4>4. A = {stack[(i - 1) - 1].obj}
        BY <1>8, <3>1, <3>4, <4>3 DEF AboveOf
      <4>5. Served(h, A)'
        BY <1>19, <4>1, <4>2, <4>4
      <4>6. QED BY <3>1, <4>2, <4>5
    <3>5. i = 1 \/ i = 2 \/ i \in 3..(Len(stack) + 1)
      BY <1>8, <2>2
    <3>6. QED BY <3>2, <3>3, <3>4, <3>5
  <2>7. QED BY <1>17, <2>5, <2>6
<1>23. QED BY <1>4, <1>21, <1>22

LEMMA StepFirst ==
  ASSUME NEW rank, Follows(rank), IInv, DropInvariant, FirstCallInvariant(rank), [Next]_vars
  PROVE  FirstCallInvariant(rank)'
<1>1. CASE UNCHANGED vars
  BY <1>1 DEF FirstCallInvariant, VisitInvariant, ComesBefore, Dependents, Executing, Exists,
              Stage, Top, vars, database, instance, application, progress
<1>2. CASE Restart \/ Return \/ Throw
  <2>1. call' = "none"
    BY <1>2 DEF Restart, Return, Throw
  <2>2. QED BY <2>1 DEF FirstCallInvariant
<1>3. CASE Execute
  BY <1>3, ExecuteFirst
<1>4. CASE Drop
  <2>1. call' = "drop" /\ stack' = <<>>
    BY <1>4 DEF Drop, Call, IInv, StackInvariant, AgendaInvariant
  <2>2. QED BY <2>1 DEF FirstCallInvariant
<1>5. CASE NextObject \/ VisitDependency
  BY <1>5, NextObjectFirst, VisitDependencyFirst
<1>6. CASE Begin \/ RunCommand \/ Commit
  BY <1>6, BeginFirst, RunCommandFirst, CommitFirst
<1>7. CASE RegisterObject \/ UnregisterObject \/ LeaveAltered
  BY <1>7, LeavingFirst
<1>8. CASE RegisterSchema \/ ClearCache
  BY <1>8, TaskFirst
<1>9. QED BY <1>1, <1>2, <1>3, <1>4, <1>5, <1>6, <1>7, <1>8 DEF Next, Progress

\* What the CREATE of a schema object refers to is what its model's foreign keys name.
LEMMA RefersToObjects ==
  ASSUME NEW o \in Objects
  PROVE  RefersTo(o) = DependsOn[o]
<1>1. o \notin Internal
  BY Apart DEF ObjectsApart
<1>2. o # "Info" /\ o # "Object" /\ o # "Module"
  BY <1>1 DEF Internal
<1>3. QED BY <1>2 DEF RefersTo

\* A CREATE or a DROP of a first call that the engine rejects misses, or is kept by, an
\* object that its schema does not know of.
LEMMA RejectedOnlyUndeclared ==
  ASSUME NEW rank, IInv, FirstCallInvariant(rank)
  PROVE  FirstCallsAreAccepted
<1> USE DEF IInv
<1>1. SUFFICES ASSUME Rejected, calls = 1, ~unseen, Top.action # "alter"
               PROVE  \/ Top.action = "create" /\ Undeclared({Top.obj}, Objects \ DOMAIN tables)
                      \/ Top.action = "drop" /\ Undeclared(DOMAIN tables, {Top.obj})
  BY DEF FirstCallsAreAccepted
<1>2. /\ stack # <<>> /\ Top.stage = "run" /\ Stage("run") /\ Top.ddl # <<>>
      /\ ~CommandAccepted
  BY <1>1 DEF Rejected, Stage, Accepted, Reseeds
<1>3. work = tables
  BY <1>1, <1>2 DEF WorkInvariant, TransactionInvariant
<1>a. PICK o : o = Top.obj
  OBVIOUS
<1>4. /\ Top = stack[1] /\ 1 \in DOMAIN stack /\ o \in All
      /\ Top.action \in {"create", "drop"}
  BY <1>1, <1>2, <1>a, TopFrame
<1>5. call \in {"execute", "drop"}
  BY <1>2, DropsOnly DEF InstanceInvariant
<1>6. Served(Top, {})
  <2>1. InFirstCall
    BY <1>1, <1>5 DEF InFirstCall
  <2>2. FrameIsServed(1)
    BY <1>4, <2>1, FirstCallHas
  <2>3. QED BY <1>4, <2>2 DEF FrameIsServed, AboveOf
<1>7. Top.visit = {}
  BY <1>2, <1>4 DEF StackInvariant, FrameInvariant, Active
<1>8. CASE Top.action = "create"
  <2>1. o \notin DOMAIN tables
    BY <1>2, <1>6, <1>8, <1>a DEF Served, Exists
  <2>2. PICK d \in RefersTo(o) : d \notin DOMAIN tables
    BY <1>2, <1>3, <1>8, <1>a, <2>1 DEF CommandAccepted
  <2>3. CASE o \in Objects
    <3>0. DependsOn \in [Objects -> SUBSET Objects]
      BY SchemaAssumption
    <3>1. d \in DependsOn[o] /\ d \in Objects
      BY <2>2, <2>3, <3>0, RefersToObjects
    <3>2. d \notin declared[o]
      BY <1>6, <1>7, <1>8, <1>a, <2>2, <2>3 DEF Served, Exists
    <3>3. QED BY <1>8, <1>a, <2>2, <2>3, <3>1, <3>2 DEF Undeclared
  <2>4. CASE o \in Internal
    <3>1. o \notin Objects /\ o \in {"Info", "Object", "Module"}
      BY <2>4, Apart DEF ObjectsApart, Internal
    <3>2. o \in {"Object", "Module"} /\ d = "Info"
      BY <2>2, <3>1 DEF RefersTo
    <3>3. Exists("Info")
      BY <1>6, <1>8, <1>a, <3>2 DEF Served
    <3>4. QED BY <2>2, <3>2, <3>3 DEF Exists
  <2>5. QED BY <1>4, <2>3, <2>4 DEF All
<1>9. CASE Top.action = "drop"
  <2>1. o \in DOMAIN tables /\ o \in Objects
    BY <1>2, <1>5, <1>6, <1>9, <1>a, DropsOnly DEF Served, Exists
  <2>2. /\ engine # "PostgreSQL"
        /\ \E p \in DOMAIN tables \ {o} : o \in tables[p].refs
    BY <1>2, <1>3, <1>9, <1>a, <2>1 DEF CommandAccepted
  <2>3. PICK p \in DOMAIN tables \ {o} : o \in tables[p].refs
    BY <2>2
  <2>4. engine = "SQLServer"
    BY <2>2 DEF InstanceInvariant
  <2>5. p \in Objects
    <3>1. p \in All
      BY <2>3 DEF WorkInvariant, Database
    <3>2. p \notin Internal
      BY <2>1, <2>3, Apart DEF WorkInvariant, ObjectsApart
    <3>3. QED BY <3>1, <3>2 DEF All
  <2>6. o \in DependsOn[p]
    <3>1. tables[p].refs = RefersTo(p)
      BY <2>3, <2>4, <2>5 DEF TablesAreWhole
    <3>2. QED BY <2>3, <2>5, <3>1, RefersToObjects
  <2>7. o \notin declared[p]
    BY <1>6, <1>7, <1>9, <1>a, <2>3, <2>5 DEF Served, Exists, Dependents
  <2>8. QED BY <1>9, <1>a, <2>3, <2>5, <2>6, <2>7 DEF Undeclared
<1>10. QED BY <1>4, <1>8, <1>9

\* In a first call what a CREATE refers to is there, or to be visited, and what refers to a
\* table that is dropped is gone, or to be visited, as far as the schema knows of it; no
\* object executes twice at a time.
THEOREM VisitsComeFirst ==
  ASSUME NEW rank, Follows(rank)
  PROVE  Spec => []FirstCallInvariant(rank)
<1>1. Init => FirstCallInvariant(rank)
  BY DEF Init, FirstCallInvariant
<1>2. IInv /\ DropInvariant /\ FirstCallInvariant(rank) /\ [Next]_vars => FirstCallInvariant(rank)'
  BY StepFirst
<1>3. QED BY <1>1, <1>2, SchemaInvariant, FirstDrop, PTL DEF Spec

\* In whatever order the application lists its objects, the first call of an instance sends
\* no CREATE and no DROP that the engine rejects, unless AddDependency did not find what is
\* missing or in the way (SchemaObjectsThatIDepend, SchemaObjectsThatDependOnMe); where the
\* foreign keys have a cycle there is no such order.
THEOREM FirstCalls ==
  ASSUME Acyclic
  PROVE  Spec => []FirstCallsAreAccepted
<1>1. PICK rank : Follows(rank)
  BY DEF Acyclic
<1>2. Spec => []FirstCallInvariant(rank)
  BY <1>1, VisitsComeFirst
<1>3. IInv /\ FirstCallInvariant(rank) => FirstCallsAreAccepted
  BY RejectedOnlyUndeclared
<1>4. QED BY <1>2, <1>3, SchemaInvariant, PTL

===============================================================================
