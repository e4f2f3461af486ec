-------------------------- MODULE TaskManagerProofs --------------------------
(***************************************************************************)
(* Proofs about TaskManager, for any finite set of tasks with one level of *)
(* subtasks, any dependencies, and any number of pool threads.             *)
(*                                                                         *)
(* What is said of a task is true: its statuses, the calls and the events  *)
(* that carry them, and finished().  Then come the order in which tasks    *)
(* run, and what the termination of a task does to those waiting for it.   *)
(***************************************************************************)
EXTENDS TaskManager, FiniteSetTheorems, TLAPS

-----------------------------------------------------------------------------
(***************************************************************************)
(* The calls of the main thread and the posted events                      *)
(***************************************************************************)

SlotOps == {"subTaskStatusChanged", "taskStatusChanged"}

\* The calls that make a task unknown to the manager, those that make it known,
\* and all others.
ForgettingOps == {"cleanup", "forget", "cleanupAll"}
AddingOps == {"addSubTask", "resolveDependencies"}
PlainOps ==
  {"cancel", "cancelRest", "terminated", "processSubTasksForTermination",
   "processSubTasksForCompletion", "taskTerminated", "taskCompleted", "hold",
   "setOnHold", "processSubTasksForHold", "unhold", "cancelDependent",
   "processQueue", "cancelForLayer"} \cup SlotOps

Entry(ops) == [op : ops, task : Tasks, status : TaskStatus]
Calls == Entry(PlainOps \cup ForgettingOps \cup AddingOps)
Events == Entry(SlotOps \cup {"delete"})

LEMMA CallTyped ==
  ASSUME NEW t \in Tasks, NEW op \in PlainOps \cup ForgettingOps \cup AddingOps
  PROVE  Call(op, t) \in Calls
BY DEF Call, Calls, Entry, TaskStatus

\* CallEach makes the call for every task of the set, and for no other.
LEMMA CallEachCalls ==
  ASSUME NEW op \in PlainOps \cup ForgettingOps \cup AddingOps,
         NEW ts \in SUBSET Tasks
  PROVE  /\ CallEach(op, ts) \in Seq(Calls)
         /\ \A i \in DOMAIN CallEach(op, ts) :
              \E t \in ts : CallEach(op, ts)[i] = Call(op, t)
         /\ \A t \in ts : \E i \in DOMAIN CallEach(op, ts) :
              CallEach(op, ts)[i] = Call(op, t)
<1> DEFINE n == Cardinality(ts)
           each == SetToSeq(ts)
<1>1. IsFiniteSet(ts) /\ n \in Nat
  <2>1. IsFiniteSet(ts)
    BY StructureAssumption, FS_Subset
  <2> QED
    BY <2>1, FS_CardinalityType
<1>2. each \in [1 .. n -> ts] /\ IsInjective(each)
  <2>1. \E f \in [1 .. n -> ts] : IsInjective(f)
    <3>1. PICK m \in Nat : ExistsBijection(1 .. m, ts)
      BY <1>1, FS_NatBijection
    <3>2. m = n
      BY <3>1, FS_CountingElements
    <3> QED
      BY <3>1, <3>2 DEF ExistsBijection, Bijection, Injection
  <2> QED
    BY <2>1 DEF SetToSeq
<1>3. \A t \in ts : \E i \in 1 .. n : each[i] = t
  <2>1. each \in Injection(1 .. n, ts)
    BY <1>2 DEF Injection
  <2>2. Cardinality(1 .. n) = n
    BY <1>1, FS_Interval
  <2>3. each \in Surjection(1 .. n, ts)
    BY <1>1, <2>1, <2>2, FS_Injection
  <2> QED
    BY <2>3 DEF Surjection
<1>4. CallEach(op, ts) = [i \in 1 .. n |-> Call(op, each[i])]
  BY DEF CallEach
<1>5. CallEach(op, ts) \in [1 .. n -> Calls]
  BY <1>2, <1>4, CallTyped
<1>6. DOMAIN CallEach(op, ts) = 1 .. n
  BY <1>4
<1> HIDE DEF each, n
<1> QED
  BY <1>1, <1>2, <1>3, <1>4, <1>5, <1>6

\* The agenda after a call: the calls it makes, then the calls below it.
LEMMA PushedCalls ==
  ASSUME NEW below \in Seq(Calls), below # <<>>, NEW calls \in Seq(Calls),
         NEW all, all = calls \o Tail(below)
  PROVE  /\ all \in Seq(Calls)
         /\ Len(calls) \in Nat /\ Len(all) = Len(calls) + Len(below) - 1
         /\ DOMAIN all = 1 .. Len(all)
         /\ DOMAIN calls = 1 .. Len(calls) /\ DOMAIN below = 1 .. Len(below)
         /\ Head(below) = below[1] /\ Head(below) \in Calls /\ 1 \in DOMAIN below
         /\ \A i \in 1 .. Len(calls) : all[i] = calls[i]
         /\ \A i \in DOMAIN all : i > Len(calls) =>
              /\ i - Len(calls) + 1 \in DOMAIN below
              /\ i - Len(calls) + 1 > 1
              /\ all[i] = below[i - Len(calls) + 1]
         /\ \A j \in DOMAIN below : j > 1 =>
              /\ j + Len(calls) - 1 \in DOMAIN all
              /\ all[j + Len(calls) - 1] = below[j]
<1> DEFINE n == Len(calls)
<1>1. Tail(below) \in Seq(Calls) /\ Len(Tail(below)) = Len(below) - 1
  OBVIOUS
<1>2. \A i \in 1 .. Len(below) - 1 : Tail(below)[i] = below[i + 1]
  OBVIOUS
<1>3. all \in Seq(Calls) /\ Len(all) = n + Len(below) - 1
  BY <1>1
<1>4. /\ \A i \in 1 .. n : all[i] = calls[i]
      /\ \A i \in n + 1 .. Len(all) : all[i] = Tail(below)[i - n]
  BY <1>1, <1>3
<1>5. Len(below) \in Nat /\ Len(below) > 0 /\ n \in Nat
  OBVIOUS
<1>6. /\ DOMAIN all = 1 .. Len(all)
      /\ DOMAIN calls = 1 .. n /\ DOMAIN below = 1 .. Len(below)
      /\ Head(below) = below[1] /\ Head(below) \in Calls
  BY <1>3, <1>5
<1> HIDE DEF n
<1>7. \A i \in DOMAIN all : i > n =>
        i - n + 1 \in DOMAIN below /\ i - n + 1 > 1 /\ all[i] = below[i - n + 1]
  <2> TAKE i \in DOMAIN all
  <2> HAVE i > n
  <2>1. i \in n + 1 .. Len(all) /\ i - n \in 1 .. Len(below) - 1
    BY <1>3, <1>5, <1>6
  <2>2. all[i] = Tail(below)[i - n] /\ Tail(below)[i - n] = below[i - n + 1]
    BY <1>2, <1>4, <2>1
  <2> QED
    BY <1>5, <1>6, <2>1, <2>2
<1>8. \A j \in DOMAIN below : j > 1 =>
        j + n - 1 \in DOMAIN all /\ all[j + n - 1] = below[j]
  <2> TAKE j \in DOMAIN below
  <2> HAVE j > 1
  <2>1. j + n - 1 \in n + 1 .. Len(all)
    BY <1>3, <1>5, <1>6
  <2> QED
    BY <1>2, <1>3, <1>4, <1>5, <1>6, <2>1
<1>9. 1 \in DOMAIN below /\ \A i \in 1 .. n : all[i] = calls[i]
  BY <1>4, <1>5, <1>6
<1>10. n \in Nat /\ all \in Seq(Calls) /\ Len(all) = n + Len(below) - 1
  BY <1>3, <1>5
<1> QED
  BY <1>6, <1>7, <1>8, <1>9, <1>10 DEF n

-----------------------------------------------------------------------------
(***************************************************************************)
(* The invariant of what is said of a task                                 *)
(***************************************************************************)

\* A task that will not be given to the pool any more.
Settled(t) == t \in added \/ mStatus[t] = "Terminated"
AllSettled(t) == \A u \in {t} \cup mSubTasks(t) : Settled(u)

\* TypeOK without the calls and events, and the types of the history.
StateTyped ==
  /\ mStatus \in [Tasks -> TaskStatus]
  /\ mOverallStatus \in [Tasks -> TaskStatus]
  /\ mShouldTerminate \in SUBSET Tasks
  /\ notFinishedLocked \in SUBSET Tasks
  /\ deleteOnFinish \in SUBSET Tasks
  /\ alive \in SUBSET Tasks
  /\ mTasks \in SUBSET Tasks
  /\ mTaskDependencies \in [Tasks -> SUBSET Tasks]
  /\ added \in SUBSET Tasks
  /\ runnable \in [Tasks -> Tasks \cup {NoTask}]
  /\ poolQueue \in SUBSET Tasks
  /\ at \in [Tasks -> PoolPlaces]
  /\ managerExists \in BOOLEAN
  /\ holds \in 0 .. MaxHolds
  /\ everAdded \in SUBSET Tasks
  /\ succeeded \in SUBSET Tasks
  /\ finishedCalls \in [Tasks -> Seq(BOOLEAN)]

\* A status that is passed on is one that the task has reached.
EntryAgrees(e) ==
  /\ e.op \in SlotOps =>
       /\ e.status \in Finished => AllSettled(e.task)
       /\ e.status = "Complete" => WhollySucceeded(e.task)
  /\ e.op = "subTaskStatusChanged" => Parent[e.task] \in Tasks

AgendaSaid ==
  /\ agenda \in Seq(Calls)
  /\ \A i \in DOMAIN agenda : EntryAgrees(agenda[i])

EventsSaid ==
  /\ events \in Seq(Events)
  /\ \A i \in DOMAIN events : EntryAgrees(events[i])

\* The assignment in hold() follows its test at once; only a pool thread can
\* come in between.
HeldOnTop ==
  \A i \in DOMAIN agenda : agenda[i].op = "setOnHold" =>
    /\ i = 1
    /\ agenda[i].task \notin added => mStatus[agenda[i].task] = "Queued"

\* The statuses, the thread's place and the history agree.
StatusAgrees(t) ==
  /\ mStatus[t] = "Complete" => t \in succeeded
  /\ mOverallStatus[t] = "Complete" => WhollySucceeded(t)
  /\ mOverallStatus[t] \in Finished => AllSettled(t)
  /\ at[t] = "completed" => t \in succeeded
  /\ at[t] = "emitComplete" => WhollySucceeded(t)
  /\ at[t] \in {"emitComplete", "emitTerminated"} => AllSettled(t)
  /\ (t \in succeeded \/ t \in poolQueue \/ at[t] # "outside") => t \in added
  /\ t \notin added => mStatus[t] \in {"Queued", "OnHold", "Terminated"}

StatusesAgree == \A t \in Tasks : StatusAgrees(t)

SaidInv ==
  /\ StateTyped
  /\ AgendaSaid
  /\ EventsSaid
  /\ HeldOnTop
  /\ StatusesAgree
  /\ FinishedTruly

\* What no step takes back.
Steady ==
  /\ succeeded \subseteq succeeded'
  /\ \A t \in Tasks : Settled(t) => Settled(t)'

LEMMA SteadyEntry ==
  ASSUME Steady, NEW e, e.task \in Tasks, EntryAgrees(e)
  PROVE  EntryAgrees(e)'
BY DEF Steady, EntryAgrees, AllSettled, WhollySucceeded, mSubTasks

LEMMA InitSaid == Init => SaidInv
<1> SUFFICES ASSUME Init PROVE SaidInv
  OBVIOUS
<1>1. StateTyped
  BY PoolAssumption DEF Init, StateTyped, TaskStatus, PoolPlaces
<1>2. AgendaSaid /\ EventsSaid /\ HeldOnTop
  BY DEF Init, AgendaSaid, EventsSaid, HeldOnTop
<1>3. StatusesAgree
  BY DEF Init, StatusesAgree, StatusAgrees, Finished
<1>4. FinishedTruly
  BY DEF Init, FinishedTruly, ToSet
<1> QED
  BY <1>1, <1>2, <1>3, <1>4 DEF SaidInv

-----------------------------------------------------------------------------
(***************************************************************************)
(* Lists of calls that agree with what is said                             *)
(***************************************************************************)

SaidCalls ==
  {calls \in Seq(Calls) : \A i \in DOMAIN calls :
     EntryAgrees(calls[i]) /\ calls[i].op # "setOnHold"}

LEMMA NoCalls == <<>> \in SaidCalls
BY DEF SaidCalls

LEMMA OneCall ==
  ASSUME NEW t \in Tasks,
         NEW op \in (PlainOps \cup ForgettingOps \cup AddingOps)
                      \ (SlotOps \cup {"setOnHold"})
  PROVE  <<Call(op, t)>> \in SaidCalls
<1>1. Call(op, t) \in Calls /\ Call(op, t).op = op
  BY CallTyped DEF Call
<1>2. EntryAgrees(Call(op, t))
  BY <1>1 DEF EntryAgrees, SlotOps
<1> QED
  BY <1>1, <1>2 DEF SaidCalls

LEMMA EachCall ==
  ASSUME NEW ts \in SUBSET Tasks,
         NEW op \in (PlainOps \cup ForgettingOps \cup AddingOps)
                      \ (SlotOps \cup {"setOnHold"})
  PROVE  CallEach(op, ts) \in SaidCalls
<1>1. CallEach(op, ts) \in Seq(Calls)
  BY CallEachCalls
<1>2. ASSUME NEW i \in DOMAIN CallEach(op, ts)
      PROVE  CallEach(op, ts)[i].op = op
  BY CallEachCalls DEF Call
<1> QED
  BY <1>1, <1>2 DEF SaidCalls, EntryAgrees, SlotOps

LEMMA SaidConcat ==
  ASSUME NEW s \in SaidCalls, NEW r \in SaidCalls
  PROVE  s \o r \in SaidCalls
<1>1. s \in Seq(Calls) /\ r \in Seq(Calls) /\ s \o r \in Seq(Calls)
  BY DEF SaidCalls
<1>2. ASSUME NEW i \in DOMAIN (s \o r)
      PROVE  \/ i \in DOMAIN s /\ (s \o r)[i] = s[i]
             \/ i - Len(s) \in DOMAIN r /\ (s \o r)[i] = r[i - Len(s)]
  BY <1>1
<1> QED
  BY <1>1, <1>2 DEF SaidCalls

LEMMA SaidPair ==
  ASSUME NEW a, NEW b, <<a>> \in SaidCalls, <<b>> \in SaidCalls
  PROVE  <<a, b>> \in SaidCalls
<1>1. ASSUME NEW c, <<c>> \in SaidCalls
      PROVE  c \in Calls /\ EntryAgrees(c) /\ c.op # "setOnHold"
  <2>1. PICK s \in Seq(Calls) : s = <<c>>
    BY <1>1 DEF SaidCalls
  <2>2. 1 \in DOMAIN s /\ s[1] = c
    BY <2>1
  <2> QED
    BY <1>1, <2>1, <2>2 DEF SaidCalls
<1>2. /\ a \in Calls /\ EntryAgrees(a) /\ a.op # "setOnHold"
      /\ b \in Calls /\ EntryAgrees(b) /\ b.op # "setOnHold"
  BY <1>1
<1> QED
  BY <1>1, <1>2 DEF SaidCalls

\* What a signal that tells the truth calls or posts.
LEMMA TrueSignal ==
  ASSUME NEW t \in Tasks, NEW st \in TaskStatus,
         st \in Finished => AllSettled(t), st = "Complete" => WhollySucceeded(t)
  PROVE  /\ statusChanged(t, st) \in SaidCalls
         /\ statusChanged(t, st) \in Seq(Events)
         /\ \A i \in DOMAIN statusChanged(t, st) :
              EntryAgrees(statusChanged(t, st)[i])
<1> DEFINE up == IF IsParent(t) THEN <<>> ELSE <<Slot("subTaskStatusChanged", t, st)>>
           toManager == IF t \in mTasks THEN <<Slot("taskStatusChanged", t, st)>>
                                        ELSE <<>>
<1>1. ASSUME NEW op \in SlotOps, op = "subTaskStatusChanged" => ~IsParent(t)
      PROVE  <<Slot(op, t, st)>> \in SaidCalls /\ <<Slot(op, t, st)>> \in Seq(Events)
  <2> DEFINE e == Slot(op, t, st)
  <2>1. e \in Calls /\ e \in Events
    BY DEF Slot, Calls, Events, Entry, PlainOps
  <2>2. e.op = op /\ e.task = t /\ e.status = st
    BY DEF Slot
  <2>3. op # "setOnHold"
    BY DEF SlotOps
  <2>4. EntryAgrees(e)
    BY <1>1, <2>2, StructureAssumption DEF EntryAgrees, IsParent
  <2> HIDE DEF e
  <2>5. <<e>> \in Seq(Calls) /\ <<e>> \in Seq(Events) /\ DOMAIN <<e>> = {1} /\ <<e>>[1] = e
    BY <2>1
  <2>6. <<e>> \in SaidCalls
    BY <2>2, <2>3, <2>4, <2>5 DEF SaidCalls
  <2> QED
    BY <2>5, <2>6 DEF e
<1>2. up \in SaidCalls /\ up \in Seq(Events)
  BY <1>1, NoCalls DEF SlotOps
<1>3. toManager \in SaidCalls /\ toManager \in Seq(Events)
  BY <1>1, NoCalls DEF SlotOps
<1>4. statusChanged(t, st) = up \o toManager
  BY DEF statusChanged
<1> HIDE DEF up, toManager
<1>5. up \o toManager \in SaidCalls /\ up \o toManager \in Seq(Events)
  BY <1>2, <1>3, SaidConcat
<1> QED
  BY <1>4, <1>5 DEF SaidCalls

LEMMA EntryTyped ==
  \A e \in Calls \cup Events : e.task \in Tasks /\ e.status \in TaskStatus
BY DEF Calls, Events, Entry

\* The calls pushed on the agenda agree, and so do those below them.
LEMMA AgendaPush ==
  ASSUME AgendaSaid, HeldOnTop, Steady, agenda # <<>>,
         NEW calls \in Seq(Calls),
         agenda' = calls \o Tail(agenda),
         \A i \in DOMAIN calls : EntryAgrees(calls[i]),
         \A i \in DOMAIN calls : calls[i].op = "setOnHold" =>
           /\ i = 1
           /\ calls[i].task \notin added' => mStatus'[calls[i].task] = "Queued"
  PROVE  AgendaSaid' /\ HeldOnTop'
<1> DEFINE n == Len(calls)
<1>1. agenda \in Seq(Calls)
  BY DEF AgendaSaid
<1>2. /\ agenda' \in Seq(Calls)
      /\ \A i \in DOMAIN agenda' :
           \/ i \in DOMAIN calls /\ agenda'[i] = calls[i]
           \/ \E j \in DOMAIN agenda : j > 1 /\ agenda'[i] = agenda[j]
  <2>1. /\ n \in Nat /\ DOMAIN calls = 1 .. n
        /\ agenda' \in Seq(Calls) /\ DOMAIN agenda' = 1 .. Len(agenda')
        /\ \A i \in 1 .. n : agenda'[i] = calls[i]
        /\ \A i \in DOMAIN agenda' : i > n =>
             /\ i - n + 1 \in DOMAIN agenda /\ i - n + 1 > 1
             /\ agenda'[i] = agenda[i - n + 1]
    BY <1>1, PushedCalls
  <2> HIDE DEF n
  <2>2. ASSUME NEW i \in DOMAIN agenda'
        PROVE  i \in 1 .. n \/ i > n
    BY <2>1
  <2> QED
    BY <2>1, <2>2
<1>3. /\ \A i \in DOMAIN calls : calls[i].task \in Tasks
      /\ \A i \in DOMAIN agenda : agenda[i].task \in Tasks
  BY <1>1, EntryTyped
<1>4. ASSUME NEW i \in DOMAIN agenda'
      PROVE  EntryAgrees(agenda[i])'
  <2>1. PICK e : e = agenda'[i]
    OBVIOUS
  <2>2. e.task \in Tasks /\ EntryAgrees(e)
    BY <1>2, <1>3, <2>1 DEF AgendaSaid
  <2>3. EntryAgrees(e)'
    BY <2>2, SteadyEntry
  <2> QED
    BY <2>1, <2>3 DEF EntryAgrees, AllSettled, Settled, WhollySucceeded
<1>5. HeldOnTop'
  BY <1>2 DEF HeldOnTop
<1> QED
  BY <1>2, <1>4, <1>5 DEF AgendaSaid

LEMMA AgendaPushed ==
  ASSUME AgendaSaid, HeldOnTop, Steady, agenda # <<>>,
         NEW calls \in SaidCalls, agenda' = calls \o Tail(agenda)
  PROVE  AgendaSaid' /\ HeldOnTop'
BY AgendaPush DEF SaidCalls

LEMMA AgendaKept ==
  ASSUME AgendaSaid, HeldOnTop, Steady, UNCHANGED <<agenda, added>>,
         \A t \in Tasks \ added : mStatus'[t] = mStatus[t]
  PROVE  AgendaSaid' /\ HeldOnTop'
<1>1. \A i \in DOMAIN agenda : agenda[i].task \in Tasks
  BY EntryTyped DEF AgendaSaid
<1>2. ASSUME NEW i \in DOMAIN agenda'
      PROVE  EntryAgrees(agenda[i])'
  <2>1. PICK e : e = agenda'[i]
    OBVIOUS
  <2>2. EntryAgrees(e)'
    BY <1>1, <2>1, SteadyEntry DEF AgendaSaid
  <2> QED
    BY <2>1, <2>2 DEF EntryAgrees, AllSettled, Settled, WhollySucceeded
<1> QED
  BY <1>1, <1>2 DEF AgendaSaid, HeldOnTop

LEMMA EventsPosted ==
  ASSUME EventsSaid, Steady,
         NEW posted \in Seq(Events), events' = events \o posted,
         \A i \in DOMAIN posted : EntryAgrees(posted[i])
  PROVE  EventsSaid'
<1>1. events \in Seq(Events)
  BY DEF EventsSaid
<1>2. /\ events' \in Seq(Events)
      /\ \A i \in DOMAIN events' :
           \/ i \in DOMAIN events /\ events'[i] = events[i]
           \/ i - Len(events) \in DOMAIN posted /\ events'[i] = posted[i - Len(events)]
  BY <1>1
<1>3. /\ \A i \in DOMAIN posted : posted[i].task \in Tasks
      /\ \A i \in DOMAIN events : events[i].task \in Tasks
  BY <1>1, EntryTyped
<1>4. ASSUME NEW i \in DOMAIN events'
      PROVE  EntryAgrees(events[i])'
  <2>1. PICK e : e = events'[i]
    OBVIOUS
  <2>2. e.task \in Tasks /\ EntryAgrees(e)
    BY <1>2, <1>3, <2>1 DEF EventsSaid
  <2>3. EntryAgrees(e)'
    BY <2>2, SteadyEntry
  <2> QED
    BY <2>1, <2>3 DEF EntryAgrees, AllSettled, Settled, WhollySucceeded
<1> QED
  BY <1>2, <1>4 DEF EventsSaid

LEMMA EventsKept ==
  ASSUME EventsSaid, Steady, UNCHANGED events
  PROVE  EventsSaid'
<1>1. \A i \in DOMAIN events : events[i].task \in Tasks
  BY EntryTyped DEF EventsSaid
<1>2. ASSUME NEW i \in DOMAIN events'
      PROVE  EntryAgrees(events[i])'
  <2>1. PICK e : e = events'[i]
    OBVIOUS
  <2>2. EntryAgrees(e)'
    BY <1>1, <2>1, SteadyEntry DEF EventsSaid
  <2> QED
    BY <2>1, <2>2 DEF EntryAgrees, AllSettled, Settled, WhollySucceeded
<1> QED
  BY <1>2 DEF EventsSaid

LEMMA DeletionPosted ==
  ASSUME NEW t \in Tasks
  PROVE  /\ deleteLater(t) \in Seq(Events)
         /\ \A i \in DOMAIN deleteLater(t) : EntryAgrees(deleteLater(t)[i])
<1>1. Call("delete", t) \in Events /\ EntryAgrees(Call("delete", t))
  BY DEF Call, Events, Entry, TaskStatus, EntryAgrees, SlotOps
<1> QED
  BY <1>1 DEF deleteLater

-----------------------------------------------------------------------------
(***************************************************************************)
(* Steps that leave a part alone, and the decisions at a task's end        *)
(***************************************************************************)

LEMMA SteadyAll ==
  ASSUME Steady, NEW t \in Tasks
  PROVE  /\ AllSettled(t) => AllSettled(t)'
         /\ WhollySucceeded(t) => WhollySucceeded(t)'
         /\ t \in succeeded => t \in succeeded'
BY DEF Steady, AllSettled, WhollySucceeded, mSubTasks

LEMMA StatusesKept ==
  ASSUME StatusesAgree, UNCHANGED <<mStatus, mOverallStatus, added, succeeded, at>>,
         poolQueue' \subseteq poolQueue
  PROVE  Steady /\ StatusesAgree'
<1>1. Steady
  BY DEF Steady, Settled
<1> QED
  BY <1>1, SteadyAll DEF StatusesAgree, StatusAgrees

LEMMA FinishedKept ==
  ASSUME FinishedTruly, UNCHANGED finishedCalls, Steady
  PROVE  FinishedTruly'
BY SteadyAll DEF FinishedTruly

\* An end is reported only when the task and its subtasks have come to it.
LEMMA Verdicts ==
  ASSUME StateTyped, StatusesAgree, NEW t \in Tasks
  PROVE  /\ CompletionVerdict(t) = "report" =>
              WhollySucceeded(t) /\ AllSettled(t) /\ mStatus[t] = "Complete"
         /\ TerminationVerdict(t) = "report" =>
              AllSettled(t) /\ mStatus[t] = "Terminated"
         /\ CompletionVerdict(t) \in {"report", "defer", "none"}
         /\ TerminationVerdict(t) \in {"report", "defer", "none"}
<1>1. mSubTasks(t) \subseteq Tasks
  BY DEF mSubTasks
<1>2. \A s \in mSubTasks(t) : mOverallStatus[s] \in Finished => Settled(s)
  BY <1>1 DEF StatusesAgree, StatusAgrees, AllSettled
<1>3. \A s \in mSubTasks(t) : mOverallStatus[s] = "Complete" => s \in succeeded
  BY <1>1 DEF StatusesAgree, StatusAgrees, WhollySucceeded
<1>4. mStatus[t] = "Complete" => t \in succeeded /\ Settled(t)
  BY DEF StatusesAgree, StatusAgrees, Settled
<1>5. CompletionVerdict(t) = "report" =>
        mStatus[t] = "Complete" /\ \A s \in mSubTasks(t) : mOverallStatus[s] = "Complete"
  BY DEF CompletionVerdict, subTasksCompleted
<1>6. TerminationVerdict(t) = "report" =>
        mStatus[t] = "Terminated" /\ \A s \in mSubTasks(t) : mOverallStatus[s] \in Finished
  BY DEF TerminationVerdict, subTasksTerminated
<1>7. CompletionVerdict(t) = "report" => WhollySucceeded(t) /\ AllSettled(t)
  BY <1>2, <1>3, <1>4, <1>5 DEF WhollySucceeded, AllSettled, Finished
<1>8. TerminationVerdict(t) = "report" => AllSettled(t)
  BY <1>2, <1>6 DEF AllSettled, Settled
<1>9. /\ CompletionVerdict(t) \in {"report", "defer", "none"}
      /\ TerminationVerdict(t) \in {"report", "defer", "none"}
  BY DEF CompletionVerdict, TerminationVerdict
<1> QED
  BY <1>5, <1>6, <1>7, <1>8, <1>9

LEMMA OverallTyped ==
  ASSUME StateTyped, NEW t \in Tasks, NEW v, NEW st \in TaskStatus
  PROVE  /\ OverallAfter(t, v, st) \in [Tasks -> TaskStatus]
         /\ \A u \in Tasks \ {t} : OverallAfter(t, v, st)[u] = mOverallStatus[u]
         /\ OverallAfter(t, v, st)[t] \in {mOverallStatus[t], "Running", st}
         /\ v # "report" => OverallAfter(t, v, st)[t] \in {mOverallStatus[t], "Running"}
BY DEF OverallAfter, StateTyped, TaskStatus

-----------------------------------------------------------------------------
(***************************************************************************)
(* Steps of the pool's threads                                             *)
(***************************************************************************)

LEMMA PoolStepSaid ==
  ASSUME SaidInv, NEW t \in Tasks, PoolStep(t)
  PROVE  SaidInv'
<1>0. /\ StateTyped /\ AgendaSaid /\ EventsSaid /\ HeldOnTop /\ StatusesAgree
      /\ FinishedTruly /\ StatusAgrees(t)
  BY DEF SaidInv, StatusesAgree
<1>1. CASE TakeRunnable(t)
  <2>1. StateTyped'
    BY <1>0, <1>1 DEF TakeRunnable, StateTyped, PoolPlaces, taskVars, managerVars, historyVars
  <2>2. Steady
    BY <1>1 DEF TakeRunnable, Steady, Settled, taskVars, managerVars, historyVars
  <2>3. StatusesAgree'
    <3>1. ASSUME NEW u \in Tasks PROVE StatusAgrees(u)'
      BY <1>0, <1>1, <2>2, SteadyAll
         DEF TakeRunnable, StatusesAgree, StatusAgrees, StateTyped, taskVars, managerVars,
             historyVars
    <3> QED
      BY <3>1 DEF StatusesAgree
  <2>4. (AgendaSaid /\ EventsSaid /\ HeldOnTop)'
    BY <1>0, <1>1, <2>2, AgendaKept, EventsKept DEF TakeRunnable, taskVars, managerVars
  <2> QED
    BY <1>0, <1>1, <2>1, <2>2, <2>3, <2>4, FinishedKept DEF SaidInv, TakeRunnable, historyVars
<1>2. CASE Start(t)
  <2>1. StateTyped'
    BY <1>0, <1>2 DEF Start, StateTyped, PoolPlaces, managerVars, historyVars
  <2>2. Steady
    BY <1>2 DEF Start, Steady, Settled, managerVars, historyVars
  <2>3. StatusesAgree'
    <3>1. ASSUME NEW u \in Tasks PROVE StatusAgrees(u)'
      BY <1>0, <1>2, <2>2, SteadyAll
         DEF Start, StatusesAgree, StatusAgrees, StateTyped, managerVars, historyVars
    <3> QED
      BY <3>1 DEF StatusesAgree
  <2>4. (AgendaSaid /\ EventsSaid /\ HeldOnTop)'
    BY <1>0, <1>2, <2>2, AgendaKept, EventsKept DEF Start, managerVars
  <2> QED
    BY <1>0, <1>2, <2>1, <2>2, <2>3, <2>4, FinishedKept DEF SaidInv, Start, historyVars
<1>3. CASE StartRunning(t)
  <2>0. t \in added
    BY <1>0, <1>3 DEF StartRunning, StatusAgrees
  <2>1. StateTyped'
    <3>1. mStatus' \in [Tasks -> TaskStatus] /\ mOverallStatus' \in [Tasks -> TaskStatus]
      BY <1>0, <1>3 DEF StartRunning, StateTyped, TaskStatus
    <3>2. at' \in [Tasks -> PoolPlaces]
      BY <1>0, <1>3 DEF StartRunning, StateTyped, PoolPlaces
    <3> QED
      BY <1>0, <1>3, <3>1, <3>2 DEF StartRunning, StateTyped, managerVars, historyVars
  <2>2. Steady
    BY <1>0, <1>3, <2>0 DEF StartRunning, Steady, Settled, managerVars, historyVars, StateTyped
  <2>3. StatusesAgree'
    <3>1. ASSUME NEW u \in Tasks PROVE StatusAgrees(u)'
      BY <1>0, <1>3, <2>0, <2>2, SteadyAll
         DEF StartRunning, StatusesAgree, StatusAgrees, StateTyped, managerVars, historyVars,
             Finished
    <3> QED
      BY <3>1 DEF StatusesAgree
  <2>4. (AgendaSaid /\ EventsSaid /\ HeldOnTop)'
    <3>1. PICK posted : posted = statusChanged(t, "Running")
      OBVIOUS
    <3>2. posted \in Seq(Events) /\ \A i \in DOMAIN posted : EntryAgrees(posted[i])
      BY <3>1, TrueSignal DEF TaskStatus, Finished
    <3>3. \A u \in Tasks \ added : mStatus'[u] = mStatus[u]
      BY <1>0, <1>3, <2>0 DEF StartRunning, StateTyped
    <3> QED
      BY <1>0, <1>3, <2>2, <3>1, <3>2, <3>3, AgendaKept, EventsPosted DEF StartRunning, managerVars
  <2> QED
    BY <1>0, <1>3, <2>1, <2>2, <2>3, <2>4, FinishedKept DEF SaidInv, StartRunning, historyVars
<1>4. ASSUME NEW result \in BOOLEAN, RunReturns(t, result)
      PROVE  SaidInv'
  <2>0. t \in added
    BY <1>0, <1>4 DEF RunReturns, StatusAgrees
  <2>1. StateTyped'
    <3>1. mStatus' \in [Tasks -> TaskStatus]
      BY <1>0, <1>4 DEF RunReturns, StateTyped, TaskStatus
    <3>2. at' \in [Tasks -> PoolPlaces]
      BY <1>0, <1>4 DEF RunReturns, StateTyped, PoolPlaces
    <3>3. succeeded' \in SUBSET Tasks
      BY <1>0, <1>4 DEF RunReturns, StateTyped
    <3> QED
      BY <1>0, <1>4, <3>1, <3>2, <3>3 DEF RunReturns, StateTyped, managerVars
  <2>2. Steady
    BY <1>0, <1>4, <2>0 DEF RunReturns, Steady, Settled, managerVars, StateTyped
  <2>3. StatusesAgree'
    <3>1. ASSUME NEW u \in Tasks PROVE StatusAgrees(u)'
      BY <1>0, <1>4, <2>0, <2>2, SteadyAll
         DEF RunReturns, StatusesAgree, StatusAgrees, StateTyped, managerVars
    <3> QED
      BY <3>1 DEF StatusesAgree
  <2>4. (AgendaSaid /\ EventsSaid /\ HeldOnTop)'
    <3>3. \A u \in Tasks \ added : mStatus'[u] = mStatus[u]
      BY <1>0, <1>4, <2>0 DEF RunReturns, StateTyped
    <3> QED
      BY <1>0, <1>4, <2>2, <3>3, AgendaKept, EventsKept DEF RunReturns, managerVars
  <2> QED
    BY <1>0, <1>4, <2>1, <2>2, <2>3, <2>4, FinishedKept DEF SaidInv, RunReturns
<1>5. CASE EndOfRun(t)
  <2>0. t \in added
    BY <1>0, <1>5 DEF EndOfRun, StatusAgrees
  <2> DEFINE success == at[t] = "completed"
             verdict == IF success THEN CompletionVerdict(t) ELSE TerminationVerdict(t)
             status == IF success THEN "Complete" ELSE "Terminated"
  <2>1. /\ mOverallStatus' = OverallAfter(t, verdict, status)
        /\ at' = [at EXCEPT ![t] =
                     IF verdict # "report" THEN "returned"
                     ELSE IF success THEN "emitComplete" ELSE "emitTerminated"]
        /\ UNCHANGED <<mStatus, managerVars, poolQueue, agenda, events, historyVars>>
        /\ UNCHANGED <<mShouldTerminate, notFinishedLocked, deleteOnFinish, alive, holds>>
    BY <1>5 DEF EndOfRun
  <2>2. /\ verdict = "report" => AllSettled(t)
        /\ verdict = "report" /\ success => WhollySucceeded(t)
        /\ verdict \in {"report", "defer", "none"}
    BY <1>0, Verdicts
  <2>3. /\ status \in {"Complete", "Terminated"} /\ (status = "Complete" => success)
        /\ success \in BOOLEAN
    OBVIOUS
  <2> HIDE DEF verdict, success, status
  <2>4. /\ mOverallStatus' \in [Tasks -> TaskStatus]
        /\ \A u \in Tasks \ {t} : mOverallStatus'[u] = mOverallStatus[u]
        /\ mOverallStatus'[t] \in {mOverallStatus[t], "Running", status}
        /\ verdict # "report" => mOverallStatus'[t] \in {mOverallStatus[t], "Running"}
    BY <1>0, <2>1, <2>3, OverallTyped DEF TaskStatus
  <2>5. /\ at' \in [Tasks -> PoolPlaces]
        /\ \A u \in Tasks \ {t} : at'[u] = at[u]
        /\ at'[t] \in {"returned", "emitComplete", "emitTerminated"}
        /\ at'[t] # "returned" => verdict = "report"
        /\ at'[t] = "emitComplete" => success
    <3>1. PICK place : place = IF verdict # "report" THEN "returned"
                               ELSE IF success THEN "emitComplete" ELSE "emitTerminated"
      OBVIOUS
    <3>2. /\ place \in {"returned", "emitComplete", "emitTerminated"}
          /\ place # "returned" => verdict = "report"
          /\ place = "emitComplete" => success
      <4>1. CASE verdict # "report"
        BY <3>1, <4>1
      <4>2. CASE verdict = "report" /\ success = TRUE
        BY <3>1, <4>2
      <4>3. CASE verdict = "report" /\ success = FALSE
        BY <3>1, <4>3
      <4> QED
        BY <2>3, <4>1, <4>2, <4>3
    <3>3. at' = [at EXCEPT ![t] = place]
      BY <2>1, <3>1
    <3> QED
      BY <1>0, <3>2, <3>3 DEF StateTyped, PoolPlaces
  <2>6. StateTyped'
    BY <1>0, <2>1, <2>4, <2>5 DEF StateTyped, managerVars, historyVars
  <2>7. Steady
    BY <2>1 DEF Steady, Settled, managerVars, historyVars
  <2>8. StatusesAgree'
    <3>1. ASSUME NEW u \in Tasks PROVE StatusAgrees(u)'
      <4>1. mStatus'[u] = mStatus[u] /\ added' = added /\ succeeded' = succeeded
            /\ poolQueue' = poolQueue
        BY <2>1 DEF managerVars, historyVars
      <4>2. CASE u = t
        BY <1>0, <2>0, <2>2, <2>3, <2>4, <2>5, <2>7, <4>1, <4>2, SteadyAll
           DEF StatusAgrees, Finished
      <4>3. CASE u # t
        BY <1>0, <2>4, <2>5, <2>7, <4>1, <4>3, SteadyAll DEF StatusesAgree, StatusAgrees
      <4> QED
        BY <4>2, <4>3
    <3> QED
      BY <3>1 DEF StatusesAgree
  <2>9. (AgendaSaid /\ EventsSaid /\ HeldOnTop)'
    BY <1>0, <2>1, <2>7, AgendaKept, EventsKept DEF managerVars
  <2> QED
    BY <1>0, <2>1, <2>6, <2>7, <2>8, <2>9, FinishedKept DEF SaidInv, historyVars
<1>6. CASE EmitEnd(t)
  <2>1. StateTyped'
    BY <1>0, <1>6 DEF EmitEnd, StateTyped, PoolPlaces, taskVars, managerVars, historyVars
  <2>2. Steady
    BY <1>6 DEF EmitEnd, Steady, Settled, taskVars, managerVars, historyVars
  <2>3. StatusesAgree'
    <3>1. ASSUME NEW u \in Tasks PROVE StatusAgrees(u)'
      BY <1>0, <1>6, <2>2, SteadyAll
         DEF EmitEnd, StatusesAgree, StatusAgrees, StateTyped, taskVars, managerVars,
             historyVars
    <3> QED
      BY <3>1 DEF StatusesAgree
  <2>4. (AgendaSaid /\ EventsSaid /\ HeldOnTop)'
    <3>1. PICK st : st = IF at[t] = "emitComplete" THEN "Complete" ELSE "Terminated"
      OBVIOUS
    <3>2. PICK posted : posted = statusChanged(t, st)
      OBVIOUS
    <3>3. /\ AllSettled(t) /\ st \in TaskStatus
          /\ st = "Complete" => WhollySucceeded(t)
      BY <1>0, <1>6, <3>1 DEF EmitEnd, StatusAgrees, TaskStatus
    <3>4. posted \in Seq(Events) /\ \A i \in DOMAIN posted : EntryAgrees(posted[i])
      BY <3>2, <3>3, TrueSignal
    <3>5. events' = events \o posted
      BY <1>6, <3>1, <3>2 DEF EmitEnd
    <3> QED
      BY <1>0, <1>6, <2>2, <3>4, <3>5, AgendaKept, EventsPosted DEF EmitEnd, taskVars, managerVars
  <2> QED
    BY <1>0, <1>6, <2>1, <2>2, <2>3, <2>4, FinishedKept DEF SaidInv, EmitEnd, historyVars
<1>7. CASE ReleaseMutex(t)
  <2>1. StateTyped'
    BY <1>0, <1>7 DEF ReleaseMutex, StateTyped, PoolPlaces, managerVars, historyVars
  <2>2. Steady
    BY <1>7 DEF ReleaseMutex, Steady, Settled, managerVars, historyVars
  <2>3. StatusesAgree'
    <3>1. ASSUME NEW u \in Tasks PROVE StatusAgrees(u)'
      BY <1>0, <1>7, <2>2, SteadyAll
         DEF ReleaseMutex, StatusesAgree, StatusAgrees, StateTyped, managerVars, historyVars
    <3> QED
      BY <3>1 DEF StatusesAgree
  <2>4. (AgendaSaid /\ EventsSaid /\ HeldOnTop)'
    <3>1. CASE t \in deleteOnFinish
      <4>1. PICK posted : posted = deleteLater(t)
        OBVIOUS
      <4>2. posted \in Seq(Events) /\ \A i \in DOMAIN posted : EntryAgrees(posted[i])
        BY <4>1, DeletionPosted
      <4> QED
        BY <1>0, <1>7, <2>2, <3>1, <4>1, <4>2, AgendaKept, EventsPosted DEF ReleaseMutex, managerVars
    <3>2. CASE t \notin deleteOnFinish
      BY <1>0, <1>7, <2>2, <3>2, AgendaKept, EventsKept DEF ReleaseMutex, managerVars
    <3> QED
      BY <3>1, <3>2
  <2> QED
    BY <1>0, <1>7, <2>1, <2>2, <2>3, <2>4, FinishedKept DEF SaidInv, ReleaseMutex, historyVars
<1>8. CASE ReturnFromDeleted(t)
  <2>1. StateTyped'
    BY <1>0, <1>8 DEF ReturnFromDeleted, StateTyped, PoolPlaces, taskVars, managerVars, historyVars
  <2>2. Steady
    BY <1>8 DEF ReturnFromDeleted, Steady, Settled, taskVars, managerVars, historyVars
  <2>3. StatusesAgree'
    <3>1. ASSUME NEW u \in Tasks PROVE StatusAgrees(u)'
      BY <1>0, <1>8, <2>2, SteadyAll
         DEF ReturnFromDeleted, InPool, StatusesAgree, StatusAgrees, StateTyped, taskVars,
             managerVars, historyVars
    <3> QED
      BY <3>1 DEF StatusesAgree
  <2>4. (AgendaSaid /\ EventsSaid /\ HeldOnTop)'
    BY <1>0, <1>8, <2>2, AgendaKept, EventsKept DEF ReturnFromDeleted, taskVars, managerVars
  <2> QED
    BY <1>0, <1>8, <2>1, <2>2, <2>3, <2>4, FinishedKept
       DEF SaidInv, ReturnFromDeleted, historyVars
<1> QED
  BY <1>1, <1>2, <1>3, <1>4, <1>5, <1>6, <1>7, <1>8 DEF PoolStep

-----------------------------------------------------------------------------
(***************************************************************************)
(* Calls of the main thread                                                *)
(***************************************************************************)

\* Calls that set no status and give no task to the pool.
LEMMA SilentStep ==
  ASSUME SaidInv, agenda # <<>>, StateTyped',
         UNCHANGED <<mStatus, mOverallStatus, added, succeeded, at, events, finishedCalls>>,
         poolQueue' \subseteq poolQueue,
         NEW calls \in SaidCalls, agenda' = calls \o Tail(agenda)
  PROVE  SaidInv'
<1>1. Steady /\ StatusesAgree'
  BY StatusesKept DEF SaidInv
<1>2. AgendaSaid' /\ HeldOnTop' /\ EventsSaid' /\ FinishedTruly'
  BY <1>1, AgendaPushed, EventsKept, FinishedKept DEF SaidInv
<1> QED
  BY <1>1, <1>2 DEF SaidInv

LEMMA CancelSaid ==
  ASSUME SaidInv, NEW t \in Tasks, Cancel(t)
  PROVE  SaidInv'
<1>1. PICK calls : agenda' = calls \o Tail(agenda) /\ calls \in SaidCalls
  <2>1. <<Call("terminated", t)>> \in SaidCalls /\ <<Call("cancelRest", t)>> \in SaidCalls
    BY OneCall DEF PlainOps, SlotOps
  <2>2. \/ Continue(<<>>)
        \/ Continue((IF mStatus[t] \in {"Queued", "OnHold"}
                       THEN <<Call("terminated", t)>> ELSE <<>>)
                    \o <<Call("cancelRest", t)>>)
    BY DEF Cancel
  <2> QED
    BY <2>1, <2>2, NoCalls, SaidConcat DEF Continue
<1>2. StateTyped'
  BY DEF SaidInv, Cancel, StateTyped, managerVars, poolVars, historyVars
<1> QED
  BY <1>1, <1>2, SilentStep
     DEF SaidInv, Cancel, Running, StateTyped, managerVars, poolVars, historyVars

LEMMA CancelRestSaid ==
  ASSUME SaidInv, NEW t \in Tasks, CancelRest(t)
  PROVE  SaidInv'
<1>1. PICK calls : agenda' = calls \o Tail(agenda) /\ calls \in SaidCalls
  <2>1. /\ <<Call("processSubTasksForTermination", t)>> \in SaidCalls
        /\ CallEach("cancel", mSubTasks(t)) \in SaidCalls
    BY OneCall, EachCall DEF PlainOps, SlotOps, mSubTasks
  <2> QED
    BY <2>1, NoCalls, SaidConcat DEF CancelRest, Continue
<1>2. StateTyped'
  BY DEF SaidInv, CancelRest, StateTyped, taskVars, managerVars, poolVars, historyVars
<1> QED
  BY <1>1, <1>2, SilentStep
     DEF SaidInv, CancelRest, Running, StateTyped, taskVars, managerVars, poolVars, historyVars

LEMMA SetTerminatedSaid ==
  ASSUME SaidInv, NEW t \in Tasks, SetTerminated(t)
  PROVE  SaidInv'
<1>0. /\ StateTyped /\ AgendaSaid /\ EventsSaid /\ HeldOnTop /\ StatusesAgree
      /\ FinishedTruly
  BY DEF SaidInv
<1>1. PICK calls : agenda' = calls \o Tail(agenda) /\ calls \in SaidCalls
  BY OneCall DEF SetTerminated, Continue, PlainOps, SlotOps
<1>2. StateTyped'
  <2>1. mStatus' \in [Tasks -> TaskStatus]
    BY <1>0 DEF SetTerminated, StateTyped, TaskStatus
  <2> QED
    BY <1>0, <2>1 DEF SetTerminated, StateTyped, managerVars, poolVars, historyVars
<1>3. Steady
  BY <1>0 DEF SetTerminated, StateTyped, Steady, Settled, managerVars, historyVars
<1>4. StatusesAgree'
  <2>1. ASSUME NEW u \in Tasks PROVE StatusAgrees(u)'
    BY <1>0, <1>3, SteadyAll
       DEF SetTerminated, StatusesAgree, StatusAgrees, StateTyped, managerVars, poolVars,
           historyVars
  <2> QED
    BY <2>1 DEF StatusesAgree
<1> QED
  BY <1>0, <1>1, <1>2, <1>3, <1>4, AgendaPushed, EventsKept, FinishedKept
     DEF SaidInv, SetTerminated, Running, historyVars

LEMMA TerminationSaid ==
  ASSUME SaidInv, NEW t \in Tasks, ProcessSubTasksForTermination(t)
  PROVE  SaidInv'
<1>0. /\ StateTyped /\ AgendaSaid /\ EventsSaid /\ HeldOnTop /\ StatusesAgree
      /\ FinishedTruly
  BY DEF SaidInv
<1> DEFINE verdict == TerminationVerdict(t)
<1>1. /\ mOverallStatus' = OverallAfter(t, verdict, "Terminated")
      /\ Continue(IF verdict = "report"
                    THEN statusChanged(t, "Terminated") \o <<Call("taskTerminated", t)>>
                    ELSE <<>>)
      /\ UNCHANGED <<mStatus, mShouldTerminate, notFinishedLocked, deleteOnFinish, alive,
                     managerVars, poolVars, events, holds, historyVars>>
  BY DEF ProcessSubTasksForTermination
<1>2. verdict = "report" => AllSettled(t)
  BY <1>0, Verdicts
<1> HIDE DEF verdict
<1>3. /\ mOverallStatus' \in [Tasks -> TaskStatus]
      /\ \A u \in Tasks \ {t} : mOverallStatus'[u] = mOverallStatus[u]
      /\ mOverallStatus'[t] \in {mOverallStatus[t], "Running", "Terminated"}
      /\ verdict # "report" => mOverallStatus'[t] \in {mOverallStatus[t], "Running"}
  BY <1>0, <1>1, OverallTyped DEF TaskStatus
<1>4. StateTyped'
  BY <1>0, <1>1, <1>3 DEF StateTyped, managerVars, poolVars, historyVars
<1>5. Steady
  BY <1>1 DEF Steady, Settled, managerVars, historyVars
<1>6. StatusesAgree'
  <2>1. ASSUME NEW u \in Tasks PROVE StatusAgrees(u)'
    <3>1. CASE u = t
      BY <1>0, <1>1, <1>2, <1>3, <1>5, <3>1, SteadyAll
         DEF StatusesAgree, StatusAgrees, managerVars, poolVars, historyVars, Finished
    <3>2. CASE u # t
      BY <1>0, <1>1, <1>3, <1>5, <3>2, SteadyAll
         DEF StatusesAgree, StatusAgrees, managerVars, poolVars, historyVars
    <3> QED
      BY <3>1, <3>2
  <2> QED
    BY <2>1 DEF StatusesAgree
<1>7. PICK calls : agenda' = calls \o Tail(agenda) /\ calls \in SaidCalls
  <2>1. CASE verdict = "report"
    <3>1. statusChanged(t, "Terminated") \in SaidCalls
      BY <1>2, <2>1, TrueSignal DEF TaskStatus
    <3>2. <<Call("taskTerminated", t)>> \in SaidCalls
      BY OneCall DEF PlainOps, SlotOps
    <3> QED
      BY <1>1, <2>1, <3>1, <3>2, SaidConcat DEF Continue
  <2>2. CASE verdict # "report"
    BY <1>1, <2>2, NoCalls DEF Continue
  <2> QED
    BY <2>1, <2>2
<1>8. agenda # <<>>
  BY DEF ProcessSubTasksForTermination, Running
<1> QED
  BY <1>0, <1>1, <1>4, <1>5, <1>6, <1>7, <1>8, AgendaPushed, EventsKept, FinishedKept
     DEF SaidInv, historyVars

LEMMA CompletionSaid ==
  ASSUME SaidInv, NEW t \in Tasks, ProcessSubTasksForCompletion(t)
  PROVE  SaidInv'
<1>0. /\ StateTyped /\ AgendaSaid /\ EventsSaid /\ HeldOnTop /\ StatusesAgree
      /\ FinishedTruly
  BY DEF SaidInv
<1> DEFINE verdict == CompletionVerdict(t)
<1>1. /\ mOverallStatus' = OverallAfter(t, verdict, "Complete")
      /\ Continue(IF verdict = "report"
                    THEN statusChanged(t, "Complete") \o <<Call("taskCompleted", t)>>
                    ELSE <<>>)
      /\ UNCHANGED <<mStatus, mShouldTerminate, notFinishedLocked, deleteOnFinish, alive,
                     managerVars, poolVars, events, holds, historyVars>>
  BY DEF ProcessSubTasksForCompletion
<1>2. verdict = "report" => AllSettled(t) /\ WhollySucceeded(t)
  BY <1>0, Verdicts
<1> HIDE DEF verdict
<1>3. /\ mOverallStatus' \in [Tasks -> TaskStatus]
      /\ \A u \in Tasks \ {t} : mOverallStatus'[u] = mOverallStatus[u]
      /\ mOverallStatus'[t] \in {mOverallStatus[t], "Running", "Complete"}
      /\ verdict # "report" => mOverallStatus'[t] \in {mOverallStatus[t], "Running"}
  BY <1>0, <1>1, OverallTyped DEF TaskStatus
<1>4. StateTyped'
  BY <1>0, <1>1, <1>3 DEF StateTyped, managerVars, poolVars, historyVars
<1>5. Steady
  BY <1>1 DEF Steady, Settled, managerVars, historyVars
<1>6. StatusesAgree'
  <2>1. ASSUME NEW u \in Tasks PROVE StatusAgrees(u)'
    <3>1. CASE u = t
      BY <1>0, <1>1, <1>2, <1>3, <1>5, <3>1, SteadyAll
         DEF StatusesAgree, StatusAgrees, managerVars, poolVars, historyVars, Finished
    <3>2. CASE u # t
      BY <1>0, <1>1, <1>3, <1>5, <3>2, SteadyAll
         DEF StatusesAgree, StatusAgrees, managerVars, poolVars, historyVars
    <3> QED
      BY <3>1, <3>2
  <2> QED
    BY <2>1 DEF StatusesAgree
<1>7. PICK calls : agenda' = calls \o Tail(agenda) /\ calls \in SaidCalls
  <2>1. CASE verdict = "report"
    <3>1. statusChanged(t, "Complete") \in SaidCalls
      BY <1>2, <2>1, TrueSignal DEF TaskStatus
    <3>2. <<Call("taskCompleted", t)>> \in SaidCalls
      BY OneCall DEF PlainOps, SlotOps
    <3> QED
      BY <1>1, <2>1, <3>1, <3>2, SaidConcat DEF Continue
  <2>2. CASE verdict # "report"
    BY <1>1, <2>2, NoCalls DEF Continue
  <2> QED
    BY <2>1, <2>2
<1>8. agenda # <<>>
  BY DEF ProcessSubTasksForCompletion, Running
<1> QED
  BY <1>0, <1>1, <1>4, <1>5, <1>6, <1>7, <1>8, AgendaPushed, EventsKept, FinishedKept
     DEF SaidInv, historyVars

LEMMA EndReportedSaid ==
  ASSUME SaidInv, NEW t \in Tasks, EndReported(t)
  PROVE  SaidInv'
<1>0. /\ StateTyped /\ AgendaSaid /\ EventsSaid /\ HeldOnTop /\ StatusesAgree
      /\ FinishedTruly
  BY DEF SaidInv
<1>1. StateTyped'
  BY <1>0 DEF EndReported, StateTyped, managerVars, poolVars, historyVars
<1>2. Steady /\ StatusesAgree'
  BY <1>0, StatusesKept DEF EndReported, managerVars, poolVars, historyVars
<1>3. AgendaSaid' /\ HeldOnTop'
  BY <1>0, <1>2, NoCalls, AgendaPushed DEF EndReported, Running, Continue
<1>4. EventsSaid'
  <2>1. CASE t \in deleteOnFinish
    <3>1. PICK posted : posted = deleteLater(t)
      OBVIOUS
    <3>2. posted \in Seq(Events) /\ \A i \in DOMAIN posted : EntryAgrees(posted[i])
      BY <3>1, DeletionPosted
    <3> QED
      BY <1>0, <1>2, <2>1, <3>1, <3>2, EventsPosted DEF EndReported
  <2>2. CASE t \notin deleteOnFinish
    BY <1>0, <1>2, <2>2, EventsKept DEF EndReported
  <2> QED
    BY <2>1, <2>2
<1> QED
  BY <1>0, <1>1, <1>2, <1>3, <1>4, FinishedKept DEF SaidInv, EndReported, historyVars

LEMMA HoldSaid ==
  ASSUME SaidInv, NEW t \in Tasks, Hold(t)
  PROVE  SaidInv'
<1>0. /\ StateTyped /\ AgendaSaid /\ EventsSaid /\ HeldOnTop /\ StatusesAgree
      /\ FinishedTruly
  BY DEF SaidInv
<1>1. PICK each : each = CallEach("hold", mSubTasks(t))
  OBVIOUS
<1>2. each \in SaidCalls
  BY <1>1, EachCall DEF PlainOps, SlotOps, mSubTasks
<1>3. StateTyped'
  BY <1>0 DEF Hold, StateTyped, taskVars, managerVars, poolVars, historyVars
<1>4. CASE mStatus[t] # "Queued"
  <2>1. agenda' = (<<>> \o each) \o Tail(agenda) /\ <<>> \o each \in SaidCalls
    BY <1>1, <1>2, <1>4, NoCalls, SaidConcat DEF Hold, Continue
  <2> QED
    BY <1>3, <2>1, SilentStep DEF Hold, Running, taskVars, managerVars, poolVars, historyVars
<1>5. CASE mStatus[t] = "Queued"
  <2> DEFINE first == Call("setOnHold", t)
  <2>1. first \in Calls /\ first.op = "setOnHold" /\ first.task = t /\ EntryAgrees(first)
    BY CallTyped DEF Call, PlainOps, EntryAgrees, SlotOps
  <2> HIDE DEF first
  <2> DEFINE all == <<first>> \o each
  <2>20. all \in Seq(Calls)
    BY <1>2, <2>1 DEF SaidCalls
  <2>2. PICK calls \in Seq(Calls) : calls = all
    BY <2>20, Zenon
  <2>3. \A i \in DOMAIN calls : \/ i = 1 /\ calls[i] = first
                                \/ i - 1 \in DOMAIN each /\ calls[i] = each[i - 1]
    BY <1>2, <2>1, <2>2 DEF SaidCalls
  <2>4. agenda' = calls \o Tail(agenda) /\ mStatus' = mStatus
    BY <1>1, <1>5, <2>2 DEF Hold, Continue, first, taskVars
  <2>5. Steady /\ StatusesAgree'
    BY <1>0, StatusesKept DEF Hold, taskVars, managerVars, poolVars, historyVars
  <2>6. /\ \A i \in DOMAIN calls : EntryAgrees(calls[i])
        /\ \A i \in DOMAIN calls : calls[i].op = "setOnHold" => i = 1 /\ calls[i] = first
    BY <1>2, <2>1, <2>3 DEF SaidCalls
  <2>7. AgendaSaid' /\ HeldOnTop'
    BY <1>0, <1>5, <2>1, <2>4, <2>5, <2>6, AgendaPush DEF Hold, Running
  <2> QED
    BY <1>0, <1>3, <2>5, <2>7, EventsKept, FinishedKept DEF SaidInv, Hold, historyVars
<1> QED
  BY <1>4, <1>5

LEMMA SetOnHoldSaid ==
  ASSUME SaidInv, NEW t \in Tasks, SetOnHold(t)
  PROVE  SaidInv'
<1>0. /\ StateTyped /\ AgendaSaid /\ EventsSaid /\ HeldOnTop /\ StatusesAgree
      /\ FinishedTruly
  BY DEF SaidInv
<1>1. PICK calls : agenda' = calls \o Tail(agenda) /\ calls \in SaidCalls
  BY OneCall DEF SetOnHold, Continue, PlainOps, SlotOps
<1>2. StateTyped'
  <2>1. mStatus' \in [Tasks -> TaskStatus]
    BY <1>0 DEF SetOnHold, StateTyped, TaskStatus
  <2> QED
    BY <1>0, <2>1 DEF SetOnHold, StateTyped, managerVars, poolVars, historyVars
<1>3. t \notin added => mStatus[t] = "Queued"
  <2>1. 1 \in DOMAIN agenda /\ agenda[1].op = "setOnHold" /\ agenda[1].task = t
    BY <1>0 DEF AgendaSaid, SetOnHold, Running
  <2> QED
    BY <1>0, <2>1 DEF HeldOnTop
<1>4. Steady
  BY <1>0, <1>3 DEF SetOnHold, StateTyped, Steady, Settled, managerVars, historyVars
<1>5. StatusesAgree'
  <2>1. ASSUME NEW u \in Tasks PROVE StatusAgrees(u)'
    BY <1>0, <1>4, SteadyAll
       DEF SetOnHold, StatusesAgree, StatusAgrees, StateTyped, managerVars, poolVars,
           historyVars
  <2> QED
    BY <2>1 DEF StatusesAgree
<1> QED
  BY <1>0, <1>1, <1>2, <1>4, <1>5, AgendaPushed, EventsKept, FinishedKept
     DEF SaidInv, SetOnHold, Running, historyVars

\* The status of the task with its subtasks becomes one that is no end.
LEMMA OverallOpened ==
  ASSUME StatusesAgree, StateTyped, Steady, NEW t \in Tasks,
         UNCHANGED <<added, succeeded, at, poolQueue>>,
         \A u \in Tasks \ {t} : mStatus'[u] = mStatus[u] /\ mOverallStatus'[u] = mOverallStatus[u],
         mOverallStatus'[t] = mOverallStatus[t] \/ mOverallStatus'[t] \notin Finished,
         mStatus'[t] = mStatus[t] \/ mStatus'[t] = "Queued"
  PROVE  StatusesAgree'
<1>1. ASSUME NEW u \in Tasks PROVE StatusAgrees(u)'
  <2>1. CASE u = t
    BY <2>1, SteadyAll DEF StatusesAgree, StatusAgrees, Finished
  <2>2. CASE u # t
    BY <2>2, SteadyAll DEF StatusesAgree, StatusAgrees
  <2> QED
    BY <2>1, <2>2
<1> QED
  BY <1>1 DEF StatusesAgree

LEMMA ForHoldSaid ==
  ASSUME SaidInv, NEW t \in Tasks, ProcessSubTasksForHold(t)
  PROVE  SaidInv'
<1>0. /\ StateTyped /\ AgendaSaid /\ EventsSaid /\ HeldOnTop /\ StatusesAgree
      /\ FinishedTruly
  BY DEF SaidInv
<1>1. PICK overall :
        /\ overall \in {mOverallStatus[t], "OnHold", "Running"}
        /\ mOverallStatus' = [mOverallStatus EXCEPT ![t] = overall]
  <2>1. PICK overall : overall =
          CASE mStatus[t] = "OnHold" /\ ~ subTasksRunning(t) /\ mOverallStatus[t] # "OnHold" ->
                 "OnHold"
            [] mStatus[t] = "OnHold" /\ subTasksRunning(t) -> "Running"
            [] OTHER -> mOverallStatus[t]
    OBVIOUS
  <2>2. mOverallStatus' = [mOverallStatus EXCEPT ![t] = overall]
    BY <2>1 DEF ProcessSubTasksForHold
  <2>3. overall \in {mOverallStatus[t], "OnHold", "Running"}
    BY <2>1
  <2> QED
    BY <2>2, <2>3
<1>2. PICK calls : agenda' = calls \o Tail(agenda) /\ calls \in SaidCalls
  <2>1. statusChanged(t, "OnHold") \in SaidCalls
    BY TrueSignal DEF TaskStatus, Finished
  <2> QED
    BY <2>1, NoCalls DEF ProcessSubTasksForHold, Continue
<1>3. StateTyped'
  <2>1. mOverallStatus' \in [Tasks -> TaskStatus]
    BY <1>0, <1>1 DEF StateTyped, TaskStatus
  <2> QED
    BY <1>0, <2>1 DEF ProcessSubTasksForHold, StateTyped, managerVars, poolVars, historyVars
<1>4. Steady
  BY DEF ProcessSubTasksForHold, Steady, Settled, managerVars, historyVars
<1>5. StatusesAgree'
  BY <1>0, <1>1, <1>4, OverallOpened
     DEF ProcessSubTasksForHold, StateTyped, managerVars, poolVars, historyVars, Finished
<1> QED
  BY <1>0, <1>2, <1>3, <1>4, <1>5, AgendaPushed, EventsKept, FinishedKept
     DEF SaidInv, ProcessSubTasksForHold, Running, historyVars

LEMMA UnholdSaid ==
  ASSUME SaidInv, NEW t \in Tasks, Unhold(t)
  PROVE  SaidInv'
<1>0. /\ StateTyped /\ AgendaSaid /\ EventsSaid /\ HeldOnTop /\ StatusesAgree
      /\ FinishedTruly
  BY DEF SaidInv
<1>1. PICK calls : agenda' = calls \o Tail(agenda) /\ calls \in SaidCalls
  <2>1. /\ statusChanged(t, "Queued") \in SaidCalls
        /\ CallEach("unhold", mSubTasks(t)) \in SaidCalls
    BY TrueSignal, EachCall DEF TaskStatus, Finished, PlainOps, SlotOps, mSubTasks
  <2>2. Continue((IF mStatus[t] = "OnHold" THEN statusChanged(t, "Queued") ELSE <<>>)
                   \o CallEach("unhold", mSubTasks(t)))
    BY DEF Unhold
  <2> QED
    BY <2>1, <2>2, NoCalls, SaidConcat DEF Continue
<1>2. /\ mStatus' \in [Tasks -> TaskStatus]
      /\ mOverallStatus' \in [Tasks -> TaskStatus]
      /\ \A u \in Tasks \ {t} : mStatus'[u] = mStatus[u] /\ mOverallStatus'[u] = mOverallStatus[u]
      /\ \/ mStatus'[t] = mStatus[t] /\ mOverallStatus'[t] = mOverallStatus[t]
         \/ mStatus[t] = "OnHold" /\ mStatus'[t] = "Queued" /\ mOverallStatus'[t] = "Queued"
  BY <1>0 DEF Unhold, StateTyped, TaskStatus
<1>3. StateTyped'
  BY <1>0, <1>2 DEF Unhold, StateTyped, managerVars, poolVars, historyVars
<1>4. Steady
  BY <1>0, <1>2 DEF Unhold, Steady, Settled, managerVars, historyVars
<1>5. StatusesAgree'
  BY <1>0, <1>2, <1>4, OverallOpened
     DEF Unhold, managerVars, poolVars, historyVars, Finished
<1> QED
  BY <1>0, <1>1, <1>3, <1>4, <1>5, AgendaPushed, EventsKept, FinishedKept
     DEF SaidInv, Unhold, Running, historyVars

LEMMA SubTaskSaid ==
  ASSUME SaidInv, NEW t \in Tasks, SubTaskStatusChanged(t)
  PROVE  SaidInv'
<1>0. /\ StateTyped /\ AgendaSaid /\ EventsSaid /\ HeldOnTop /\ StatusesAgree
      /\ FinishedTruly
  BY DEF SaidInv
<1>1. PICK p : p = Parent[t]
  OBVIOUS
<1>2. p \in Tasks /\ agenda # <<>>
  <2>1. Head(agenda).task = t /\ Head(agenda).op = "subTaskStatusChanged" /\ agenda # <<>>
    BY DEF SubTaskStatusChanged, Running
  <2>2. EntryAgrees(Head(agenda))
    BY <1>0, <2>1 DEF AgendaSaid
  <2> QED
    BY <1>1, <2>1, <2>2 DEF EntryAgrees
<1>3. /\ \/ /\ mOverallStatus' = [mOverallStatus EXCEPT ![p] = "Running"]
            /\ agenda' = <<>> \o Tail(agenda)
         \/ /\ mOverallStatus' = mOverallStatus
            /\ \/ agenda' = <<>> \o Tail(agenda)
               \/ \E op \in {"processSubTasksForCompletion", "processSubTasksForTermination",
                             "processSubTasksForHold", "cancel"} :
                    agenda' = <<Call(op, p)>> \o Tail(agenda)
      /\ UNCHANGED <<mStatus, mShouldTerminate, notFinishedLocked, deleteOnFinish, alive,
                     managerVars, poolVars, events, holds, historyVars>>
  BY <1>1, Zenon DEF SubTaskStatusChanged, Continue
<1>4. PICK calls : agenda' = calls \o Tail(agenda) /\ calls \in SaidCalls
  <2>1. \A op \in {"processSubTasksForCompletion", "processSubTasksForTermination",
                   "processSubTasksForHold", "cancel"} : <<Call(op, p)>> \in SaidCalls
    BY <1>2, OneCall DEF PlainOps, SlotOps
  <2> QED
    BY <1>3, <2>1, NoCalls
<1>5. StateTyped'
  <2>1. mOverallStatus' \in [Tasks -> TaskStatus]
    BY <1>0, <1>2, <1>3 DEF StateTyped, TaskStatus
  <2> QED
    BY <1>0, <1>3, <2>1 DEF StateTyped, managerVars, poolVars, historyVars
<1>6. Steady
  BY <1>3 DEF Steady, Settled, managerVars, historyVars
<1>7. StatusesAgree'
  <2>1. /\ \A u \in Tasks \ {p} : mOverallStatus'[u] = mOverallStatus[u]
        /\ mOverallStatus'[p] = mOverallStatus[p] \/ mOverallStatus'[p] \notin Finished
    BY <1>0, <1>2, <1>3 DEF StateTyped, Finished
  <2> QED
    BY <1>0, <1>2, <1>3, <1>6, <2>1, OverallOpened DEF managerVars, poolVars, historyVars
<1> QED
  BY <1>0, <1>2, <1>3, <1>4, <1>5, <1>6, <1>7, AgendaPushed, EventsKept, FinishedKept
     DEF SaidInv, historyVars

LEMMA TaskStatusSaid ==
  ASSUME SaidInv, NEW t \in Tasks, TaskStatusChanged(t)
  PROVE  SaidInv'
<1>0. /\ StateTyped /\ AgendaSaid /\ EventsSaid /\ HeldOnTop /\ StatusesAgree
      /\ FinishedTruly
  BY DEF SaidInv
<1>1. PICK st : st = Head(agenda).status
  OBVIOUS
<1>2. /\ agenda # <<>>
      /\ st = "Complete" => WhollySucceeded(t)
  <2>1. Head(agenda).task = t /\ Head(agenda).op = "taskStatusChanged" /\ agenda # <<>>
    BY DEF TaskStatusChanged, Running
  <2>2. EntryAgrees(Head(agenda))
    BY <1>0, <2>1 DEF AgendaSaid
  <2> QED
    BY <1>1, <2>1, <2>2 DEF EntryAgrees, SlotOps
<1>3. PICK calls : agenda' = calls \o Tail(agenda) /\ calls \in SaidCalls
  <2> DEFINE dependents == {u \in Tasks : t \in mTaskDependencies[u]}
  <2>1. /\ CallEach("cancelDependent", dependents) \in SaidCalls
        /\ <<Call("processQueue", t)>> \in SaidCalls
        /\ <<Call("cleanup", t)>> \in SaidCalls
    BY OneCall, EachCall DEF PlainOps, SlotOps, ForgettingOps
  <2>2. \/ Continue(<<>>)
        \/ Continue((IF st = "Terminated" THEN CallEach("cancelDependent", dependents)
                                          ELSE <<>>)
                    \o <<Call("processQueue", t)>>
                    \o (IF st \in Finished THEN <<Call("cleanup", t)>> ELSE <<>>))
    BY <1>1 DEF TaskStatusChanged
  <2> HIDE DEF dependents
  <2> QED
    BY <2>1, <2>2, NoCalls, SaidConcat DEF Continue
<1>4. /\ UNCHANGED <<taskVars, managerVars, at, events, holds, everAdded, succeeded>>
      /\ poolQueue' \subseteq poolQueue
      /\ \/ finishedCalls' = finishedCalls
         \/ \E result \in BOOLEAN :
              /\ finishedCalls' = [finishedCalls EXCEPT ![t] = Append(@, result)]
              /\ result => st = "Complete"
  <2>1. poolQueue' \subseteq poolQueue
    BY DEF TaskStatusChanged, CancelRunnable
  <2>2. \/ finishedCalls' = finishedCalls
        \/ /\ finishedCalls' = [finishedCalls EXCEPT ![t] =
                IF st \in Finished THEN Append(@, st = "Complete") ELSE @]
    BY <1>1 DEF TaskStatusChanged
  <2>3. CASE finishedCalls' = finishedCalls
    BY <2>1, <2>3 DEF TaskStatusChanged
  <2>4. CASE finishedCalls' # finishedCalls
    <3>1. finishedCalls' = [finishedCalls EXCEPT ![t] =
            IF st \in Finished THEN Append(finishedCalls[t], st = "Complete")
                               ELSE finishedCalls[t]]
      BY <2>2, <2>4
    <3>2. st \in Finished
      BY <1>0, <2>4, <3>1 DEF StateTyped
    <3>3. finishedCalls' = [finishedCalls EXCEPT ![t] = Append(@, st = "Complete")]
      BY <3>1, <3>2
    <3>4. (st = "Complete") \in BOOLEAN
      OBVIOUS
    <3>5. \E result \in BOOLEAN :
              /\ finishedCalls' = [finishedCalls EXCEPT ![t] = Append(@, result)]
              /\ result => st = "Complete"
      BY <3>3, <3>4, Zenon
    <3> QED
      BY <2>1, <3>5 DEF TaskStatusChanged
  <2> QED
    BY <2>3, <2>4
<1>5. StateTyped'
  <2>1. finishedCalls' \in [Tasks -> Seq(BOOLEAN)]
    <3>1. ASSUME NEW result \in BOOLEAN,
                 finishedCalls' = [finishedCalls EXCEPT ![t] = Append(@, result)]
          PROVE  finishedCalls' \in [Tasks -> Seq(BOOLEAN)]
      <4>1. PICK longer : longer = Append(finishedCalls[t], result)
        OBVIOUS
      <4>2. finishedCalls \in [Tasks -> Seq(BOOLEAN)] /\ finishedCalls[t] \in Seq(BOOLEAN)
        BY <1>0 DEF StateTyped
      <4>3. longer \in Seq(BOOLEAN)
        BY <4>1, <4>2
      <4>4. finishedCalls' = [finishedCalls EXCEPT ![t] = longer]
        BY <3>1, <4>1
      <4> QED
        BY <4>2, <4>3, <4>4
    <3> QED
      BY <1>0, <1>4, <3>1 DEF StateTyped
  <2> QED
    BY <1>0, <1>4, <2>1 DEF StateTyped, taskVars, managerVars
<1>6. Steady /\ StatusesAgree'
  BY <1>0, <1>4, StatusesKept DEF taskVars, managerVars
<1>7. FinishedTruly'
  <2>1. CASE finishedCalls' = finishedCalls
    BY <1>0, <1>6, <2>1, FinishedKept
  <2>2. ASSUME NEW result \in BOOLEAN,
               finishedCalls' = [finishedCalls EXCEPT ![t] = Append(@, result)],
               result => st = "Complete"
        PROVE  FinishedTruly'
    <3>1. ASSUME NEW u \in Tasks, TRUE \in ToSet(finishedCalls'[u])
          PROVE  WhollySucceeded(u)
      <4>1. CASE u # t
        BY <1>0, <2>2, <3>1, <4>1 DEF StateTyped, FinishedTruly
      <4>2. CASE u = t
        <5>1. finishedCalls'[t] = Append(finishedCalls[t], result)
              /\ finishedCalls[t] \in Seq(BOOLEAN)
          BY <1>0, <2>2 DEF StateTyped
        <5>2. TRUE \in ToSet(finishedCalls[t]) \/ result = TRUE
          <6>1. PICK i \in DOMAIN Append(finishedCalls[t], result) :
                  Append(finishedCalls[t], result)[i] = TRUE
            BY <3>1, <4>2, <5>1 DEF ToSet
          <6>2. \/ i \in DOMAIN finishedCalls[t] /\ finishedCalls[t][i] = TRUE
                \/ result = TRUE
            BY <5>1, <6>1
          <6> QED
            BY <6>2 DEF ToSet
        <5> QED
          BY <1>0, <1>2, <2>2, <4>2, <5>2 DEF FinishedTruly
      <4> QED
        BY <4>1, <4>2
    <3>2. succeeded' = succeeded
      BY <1>4
    <3> QED
      BY <3>1, <3>2 DEF FinishedTruly, WhollySucceeded, mSubTasks
  <2> QED
    BY <1>4, <2>1, <2>2
<1> QED
  BY <1>0, <1>2, <1>3, <1>4, <1>5, <1>6, <1>7, AgendaPushed, EventsKept DEF SaidInv

LEMMA CancelDependentSaid ==
  ASSUME SaidInv, NEW t \in Tasks, CancelDependent(t) \/ CancelForLayer(t)
  PROVE  SaidInv'
<1>1. PICK calls : agenda' = calls \o Tail(agenda) /\ calls \in SaidCalls
  <2>1. <<Call("cancel", t)>> \in SaidCalls
    BY OneCall DEF PlainOps, SlotOps
  <2> QED
    BY <2>1, NoCalls DEF CancelDependent, CancelForLayer, Continue
<1>2. StateTyped'
  BY DEF SaidInv, CancelDependent, CancelForLayer, StateTyped, taskVars, managerVars,
         poolVars, historyVars
<1> QED
  BY <1>1, <1>2, SilentStep
     DEF CancelDependent, CancelForLayer, Running, taskVars, managerVars, poolVars,
         historyVars

LEMMA ProcessQueueSaid ==
  ASSUME SaidInv, NEW t \in Tasks, ProcessQueue(t)
  PROVE  SaidInv'
<1>0. /\ StateTyped /\ AgendaSaid /\ EventsSaid /\ HeldOnTop /\ StatusesAgree
      /\ FinishedTruly
  BY DEF SaidInv
<1> DEFINE ready == {u \in mTasks : /\ mStatus[u] = "Queued"
                                    /\ dependenciesSatisfied(u)
                                    /\ u \notin added}
           live == {runnable[u] : u \in {v \in Tasks : v \in poolQueue \/ InPool(v)}}
<1>1. /\ added' = added \cup ready
      /\ poolQueue' = poolQueue \cup ready
      /\ \E address \in [ready -> Tasks \ live] :
           runnable' = [u \in Tasks |-> IF u \in ready THEN address[u] ELSE runnable[u]]
      /\ agenda' = <<>> \o Tail(agenda)
      /\ agenda # <<>>
      /\ UNCHANGED <<taskVars, mTasks, mTaskDependencies, managerExists, at, events,
                     holds, historyVars>>
  BY DEF ProcessQueue, Continue, Running
<1>2. ready \subseteq Tasks
  BY <1>0 DEF StateTyped
<1> HIDE DEF ready, live
<1>3. StateTyped'
  <2>1. runnable' \in [Tasks -> Tasks \cup {NoTask}]
    BY <1>0, <1>1 DEF StateTyped
  <2> QED
    BY <1>0, <1>1, <1>2, <2>1 DEF StateTyped, taskVars, historyVars
<1>4. Steady
  BY <1>1 DEF Steady, Settled, taskVars, historyVars
<1>5. StatusesAgree'
  <2>1. ASSUME NEW u \in Tasks PROVE StatusAgrees(u)'
    BY <1>0, <1>1, <1>4, SteadyAll DEF StatusesAgree, StatusAgrees, taskVars, historyVars
  <2> QED
    BY <2>1 DEF StatusesAgree
<1> QED
  BY <1>0, <1>1, <1>3, <1>4, <1>5, NoCalls, AgendaPushed, EventsKept, FinishedKept
     DEF SaidInv, historyVars

LEMMA CleanupSaid ==
  ASSUME SaidInv, NEW t \in Tasks, CleanupAndDeleteTask(t)
  PROVE  SaidInv'
<1>0. /\ StateTyped /\ AgendaSaid /\ EventsSaid /\ HeldOnTop /\ StatusesAgree
      /\ FinishedTruly
  BY DEF SaidInv
<1>1. /\ UNCHANGED <<mStatus, mOverallStatus, mShouldTerminate, notFinishedLocked, alive,
                     added, runnable, managerExists, at, holds, historyVars>>
      /\ mTasks' \in SUBSET Tasks
      /\ mTaskDependencies' \in [Tasks -> SUBSET Tasks]
      /\ deleteOnFinish' \in SUBSET Tasks
      /\ poolQueue' \subseteq poolQueue
      /\ events' = events \/ events' = events \o deleteLater(t)
      /\ agenda # <<>>
      /\ \/ Continue(<<>>) \/ Continue(<<Call("forget", t)>>)
         \/ Continue(<<Call("cancel", t), Call("forget", t)>>)
  <2>1. CASE t \notin mTasks
    BY <1>0, <2>1 DEF CleanupAndDeleteTask, StateTyped, Running
  <2>2. CASE t \in mTasks /\ mOverallStatus[t] \notin Finished
    BY <1>0, <2>2 DEF CleanupAndDeleteTask, StateTyped, Running
  <2>3. CASE t \in mTasks /\ mOverallStatus[t] \in Finished
    BY <1>0, <2>3 DEF CleanupAndDeleteTask, CancelRunnable, StateTyped, Running
  <2> QED
    BY <2>1, <2>2, <2>3
<1>2. PICK calls : agenda' = calls \o Tail(agenda) /\ calls \in SaidCalls
  <2>1. <<Call("cancel", t)>> \in SaidCalls /\ <<Call("forget", t)>> \in SaidCalls
    BY OneCall DEF PlainOps, SlotOps, ForgettingOps
  <2>3. <<Call("cancel", t), Call("forget", t)>> \in SaidCalls
    BY <2>1, SaidPair
  <2> QED
    BY <1>1, <2>1, <2>3, NoCalls DEF Continue
<1>3. StateTyped'
  BY <1>0, <1>1 DEF StateTyped, historyVars
<1>4. Steady /\ StatusesAgree'
  BY <1>0, <1>1, StatusesKept DEF historyVars
<1>5. EventsSaid'
  <2>1. PICK posted : posted = deleteLater(t)
    OBVIOUS
  <2>2. posted \in Seq(Events) /\ \A i \in DOMAIN posted : EntryAgrees(posted[i])
    BY <2>1, DeletionPosted
  <2> QED
    BY <1>0, <1>1, <1>4, <2>1, <2>2, EventsKept, EventsPosted
<1> QED
  BY <1>0, <1>1, <1>2, <1>3, <1>4, <1>5, AgendaPushed, FinishedKept DEF SaidInv, historyVars

LEMMA ForgetSaid ==
  ASSUME SaidInv, NEW t \in Tasks, ForgetDependency(t)
  PROVE  SaidInv'
<1>1. StateTyped'
  <2>1. mTaskDependencies' \in [Tasks -> SUBSET Tasks]
    BY DEF SaidInv, ForgetDependency, StateTyped
  <2> QED
    BY <2>1 DEF SaidInv, ForgetDependency, StateTyped, taskVars, poolVars, historyVars
<1>2. agenda # <<>> /\ agenda' = <<>> \o Tail(agenda)
  BY DEF ForgetDependency, Running, Continue
<1> QED
  BY <1>1, <1>2, NoCalls, SilentStep DEF ForgetDependency, taskVars, poolVars, historyVars

LEMMA AddingSaid ==
  ASSUME SaidInv, NEW t \in Tasks, AddSubTask(t) \/ ResolveDependencies(t)
  PROVE  SaidInv'
<1>1. StateTyped'
  <2>1. AllDependencies(t) \subseteq Tasks
    BY StructureAssumption DEF AllDependencies, mSubTasks
  <2>2. mTaskDependencies' \in [Tasks -> SUBSET Tasks]
    BY <2>1 DEF SaidInv, AddSubTask, ResolveDependencies, RecordDependencies, StateTyped
  <2> QED
    BY <2>2 DEF SaidInv, AddSubTask, ResolveDependencies, StateTyped, taskVars, poolVars,
                historyVars
<1>2. PICK calls : agenda' = calls \o Tail(agenda) /\ calls \in SaidCalls
  <2>1. <<Call("cancel", t)>> \in SaidCalls
    BY OneCall DEF PlainOps, SlotOps
  <2>2. Continue(<<>>) \/ Continue(<<Call("cancel", t)>>)
    BY DEF AddSubTask, ResolveDependencies, RecordDependencies
  <2> QED
    BY <2>1, <2>2, NoCalls DEF Continue
<1>3. agenda # <<>>
  BY DEF AddSubTask, ResolveDependencies, Running
<1> QED
  BY <1>1, <1>2, <1>3, SilentStep
     DEF AddSubTask, ResolveDependencies, taskVars, poolVars, historyVars

LEMMA CleanupAllSaid ==
  ASSUME SaidInv, NEW t \in Tasks, CleanupAll(t)
  PROVE  SaidInv'
<1>1. PICK calls : agenda' = calls \o Tail(agenda) /\ calls \in SaidCalls
  BY EachCall DEF SaidInv, StateTyped, CleanupAll, Continue, ForgettingOps, PlainOps, SlotOps
<1>2. StateTyped'
  BY DEF SaidInv, CleanupAll, StateTyped, taskVars, poolVars, historyVars
<1> QED
  BY <1>1, <1>2, SilentStep DEF CleanupAll, Running, taskVars, poolVars, historyVars

LEMMA MainStepSaid ==
  ASSUME SaidInv, NEW t \in Tasks, MainStep(t)
  PROVE  SaidInv'
BY CancelSaid, CancelRestSaid, SetTerminatedSaid, TerminationSaid, CompletionSaid,
   EndReportedSaid, HoldSaid, SetOnHoldSaid, ForHoldSaid, UnholdSaid, SubTaskSaid,
   TaskStatusSaid, CancelDependentSaid, ProcessQueueSaid, CleanupSaid, ForgetSaid,
   AddingSaid, CleanupAllSaid
   DEF MainStep

-----------------------------------------------------------------------------
(***************************************************************************)
(* Calls of the application, and events                                    *)
(***************************************************************************)

\* The event loop makes calls that say nothing wrong.
LEMMA CalledFromLoop ==
  ASSUME SaidInv, agenda' \in SaidCalls, StateTyped', EventsSaid',
         UNCHANGED <<mStatus, mOverallStatus, added, succeeded, at, poolQueue, finishedCalls>>
  PROVE  SaidInv'
<1>1. Steady /\ StatusesAgree'
  BY StatusesKept DEF SaidInv
<1>2. PICK calls \in SaidCalls : calls = agenda'
  OBVIOUS
<1>3. \A i \in DOMAIN calls : EntryAgrees(calls[i])' /\ calls[i].op # "setOnHold"
  <2> TAKE i \in DOMAIN calls
  <2>1. PICK e : e = calls[i]
    OBVIOUS
  <2>2. e.task \in Tasks /\ EntryAgrees(e) /\ e.op # "setOnHold"
    BY <1>2, <2>1, EntryTyped DEF SaidCalls
  <2> QED
    BY <1>1, <2>1, <2>2, SteadyEntry
<1>4. AgendaSaid' /\ HeldOnTop'
  <2>1. agenda' \in Seq(Calls)
    BY <1>2 DEF SaidCalls
  <2>2. ASSUME NEW i \in DOMAIN agenda'
        PROVE  EntryAgrees(agenda[i])' /\ agenda'[i].op # "setOnHold"
    BY <1>2, <1>3, <2>2 DEF EntryAgrees, AllSettled, Settled, WhollySucceeded
  <2> QED
    BY <2>1, <2>2 DEF AgendaSaid, HeldOnTop
<1> QED
  BY <1>1, <1>4, FinishedKept DEF SaidInv

LEMMA UserStepSaid ==
  ASSUME SaidInv, NEW t \in Tasks, UserStep(t)
  PROVE  SaidInv'
<1>1. StateTyped /\ EventsSaid
  BY DEF SaidInv
<1>2. UNCHANGED <<mStatus, mOverallStatus, added, succeeded, at, poolQueue, events,
                  finishedCalls>>
  BY DEF UserStep, AddTask, UserCancel, UserHold, UserUnhold, taskVars, managerVars,
         poolVars, historyVars
<1>3. StateTyped'
  <2>1. CASE AddTask(t)
    <3>1. mTasks' \in SUBSET Tasks /\ everAdded' \in SUBSET Tasks
      BY <1>1, <2>1 DEF AddTask, StateTyped, mSubTasks
    <3> QED
      BY <1>1, <2>1, <3>1 DEF AddTask, StateTyped, taskVars, poolVars
  <2>2. CASE UserHold(t)
    <3>1. holds' \in 0 .. MaxHolds
      BY <1>1, <2>2, PoolAssumption DEF UserHold, StateTyped
    <3> QED
      BY <1>1, <2>2, <3>1 DEF UserHold, StateTyped, taskVars, managerVars, poolVars, historyVars
  <2>3. CASE UserCancel(t) \/ UserUnhold(t)
    BY <1>1, <2>3 DEF UserCancel, UserUnhold, StateTyped, taskVars, managerVars, poolVars,
                      historyVars
  <2> QED
    BY <2>1, <2>2, <2>3 DEF UserStep
<1>4. agenda' \in SaidCalls
  <2>1. CASE AddTask(t)
    <3>1. PICK subs : subs = CallEach("addSubTask", mSubTasks(t))
      OBVIOUS
    <3>2. /\ subs \in SaidCalls
          /\ <<Call("resolveDependencies", t)>> \in SaidCalls
          /\ <<Call("processQueue", t)>> \in SaidCalls
      BY <3>1, EachCall, OneCall DEF PlainOps, SlotOps, AddingOps, mSubTasks
    <3>4. <<Call("resolveDependencies", t), Call("processQueue", t)>> \in SaidCalls
      BY <3>2, SaidPair
    <3> QED
      BY <2>1, <3>1, <3>2, <3>4, SaidConcat DEF AddTask
  <2>2. CASE UserCancel(t) \/ UserHold(t) \/ UserUnhold(t)
    BY <2>2, OneCall DEF UserCancel, UserHold, UserUnhold, PlainOps, SlotOps
  <2> QED
    BY <2>1, <2>2 DEF UserStep
<1>5. EventsSaid'
  BY <1>1, <1>2, StatusesKept, EventsKept DEF SaidInv
<1> QED
  BY <1>2, <1>3, <1>4, <1>5, CalledFromLoop

LEMMA ManagerCallSaid ==
  ASSUME SaidInv,
         \/ CancelAll \/ DestroyManager
         \/ \E layer \in UNION {Layers[t] : t \in Tasks} : LayersWillBeRemoved(layer)
  PROVE  SaidInv'
<1>1. StateTyped /\ EventsSaid /\ mTasks \subseteq Tasks
  BY DEF SaidInv, StateTyped
<1>2. UNCHANGED <<mStatus, mOverallStatus, added, succeeded, at, poolQueue, events,
                  finishedCalls>>
  BY DEF CancelAll, DestroyManager, LayersWillBeRemoved, taskVars, managerVars,
         poolVars, historyVars
<1>3. StateTyped'
  BY <1>1 DEF CancelAll, DestroyManager, LayersWillBeRemoved, StateTyped, taskVars,
              managerVars, poolVars, historyVars
<1>4. agenda' \in SaidCalls
  <2>1. CallEach("cancel", {u \in mTasks : IsParent(u)}) \in SaidCalls
    BY <1>1, EachCall DEF PlainOps, SlotOps
  <2>2. ASSUME NEW layer PROVE CallEach("cancelForLayer", {u \in mTasks : layer \in Layers[u]}) \in SaidCalls
    BY <1>1, EachCall DEF PlainOps, SlotOps
  <2>3. PICK last : last = CHOOSE u \in Tasks : TRUE
    OBVIOUS
  <2>4. last \in Tasks
    BY <2>3, StructureAssumption
  <2>5. <<Call("cleanupAll", last)>> \in SaidCalls
    BY <2>4, OneCall DEF PlainOps, SlotOps, ForgettingOps
  <2> QED
    BY <2>1, <2>2, <2>3, <2>5, SaidConcat DEF CancelAll, DestroyManager, LayersWillBeRemoved
<1>5. EventsSaid'
  BY <1>1, <1>2, StatusesKept, EventsKept DEF SaidInv
<1> QED
  BY <1>2, <1>3, <1>4, <1>5, CalledFromLoop

LEMMA DeliverEventSaid ==
  ASSUME SaidInv, DeliverEvent
  PROVE  SaidInv'
<1>0. /\ StateTyped /\ AgendaSaid /\ EventsSaid /\ HeldOnTop /\ StatusesAgree
      /\ FinishedTruly
  BY DEF SaidInv
<1>1. PICK event : event = Head(events)
  OBVIOUS
<1>2. event \in Events /\ EntryAgrees(event)
  BY <1>0, <1>1 DEF EventsSaid, DeliverEvent
<1>3. UNCHANGED <<mStatus, mOverallStatus, added, succeeded, at, poolQueue, finishedCalls>>
  BY DEF DeliverEvent, managerVars, poolVars, historyVars
<1>4. StateTyped'
  BY <1>0 DEF DeliverEvent, StateTyped, managerVars, poolVars, historyVars
<1>5. agenda' \in SaidCalls
  <2>1. CASE event.op = "delete"
    BY <1>1, <2>1, NoCalls DEF DeliverEvent, EventLoop
  <2>2. CASE event.op # "delete"
    <3>1. event \in Calls /\ event.op # "setOnHold"
      BY <1>2, <2>2 DEF Events, Calls, Entry, PlainOps, SlotOps
    <3>2. <<event>> \in SaidCalls
      BY <1>2, <3>1 DEF SaidCalls
    <3> QED
      BY <1>1, <2>2, <3>2, NoCalls DEF DeliverEvent
  <2> QED
    BY <2>1, <2>2
<1>6. EventsSaid'
  <2>1. /\ events \in Seq(Events) /\ events # <<>>
        /\ \A i \in DOMAIN events : EntryAgrees(events[i])
    BY <1>0 DEF EventsSaid, DeliverEvent
  <2>2. PICK rest : rest = Tail(events)
    OBVIOUS
  <2>3. rest \in Seq(Events)
        /\ \A i \in DOMAIN rest : i + 1 \in DOMAIN events /\ rest[i] = events[i + 1]
    BY <2>1, <2>2
  <2>4. events' = rest
    BY <2>2 DEF DeliverEvent
  <2>5. Steady
    BY <1>0, <1>3, StatusesKept
  <2>6. ASSUME NEW i \in DOMAIN rest PROVE EntryAgrees(rest[i])'
    <3>1. PICK e : e = rest[i]
      OBVIOUS
    <3>2. e.task \in Tasks /\ EntryAgrees(e)
      BY <2>1, <2>3, <3>1, EntryTyped
    <3> QED
      BY <2>5, <3>1, <3>2, SteadyEntry
  <2>7. ASSUME NEW i \in DOMAIN events' PROVE EntryAgrees(events[i])'
    BY <2>4, <2>6, <2>7 DEF EntryAgrees, AllSettled, Settled, WhollySucceeded
  <2> QED
    BY <2>3, <2>4, <2>7 DEF EventsSaid
<1> QED
  BY <1>3, <1>4, <1>5, <1>6, CalledFromLoop

LEMMA StutterSaid ==
  ASSUME SaidInv, UNCHANGED vars
  PROVE  SaidInv'
<1>1. StateTyped'
  BY DEF SaidInv, StateTyped, vars, taskVars, managerVars, poolVars, historyVars
<1>2. Steady /\ StatusesAgree'
  BY StatusesKept DEF SaidInv, vars, taskVars, managerVars, poolVars, historyVars
<1> QED
  BY <1>1, <1>2, AgendaKept, EventsKept, FinishedKept
     DEF SaidInv, vars, taskVars, managerVars, historyVars

\* What is said of a task is true in every state.
THEOREM SaidInductive == Spec => []SaidInv
<1>1. SaidInv /\ [Next]_vars => SaidInv'
  BY PoolStepSaid, MainStepSaid, UserStepSaid, ManagerCallSaid, DeliverEventSaid, StutterSaid
     DEF Next
<1> QED
  BY <1>1, InitSaid, PTL DEF Spec

\* The fields, the call stack and the posted events keep their types.
THEOREM TypeCorrect == Spec => []TypeOK
<1>1. SaidInv => TypeOK
  BY EntryTyped DEF SaidInv, StateTyped, AgendaSaid, EventsSaid, TypeOK
<1> QED
  BY <1>1, SaidInductive, PTL

\* finished( true ) is called only for a task that has, with all its subtasks,
\* run successfully.
THEOREM FinishedTrulyHolds == Spec => []FinishedTruly
<1>1. SaidInv => FinishedTruly
  BY DEF SaidInv
<1> QED
  BY <1>1, SaidInductive, PTL

-----------------------------------------------------------------------------
(***************************************************************************)
(* Proof that a task runs after the tasks it depends on.                   *)
(*                                                                         *)
(* The manager forgets a dependency when the task it names has ended, in   *)
(* whatever way; a task that waits for one that did not succeed must have  *)
(* been terminated by then.  The invariant is therefore about the call     *)
(* stack: before a call that forgets a task comes a call that stops the    *)
(* tasks waiting for it.  In the same way, while the dependencies of a new *)
(* task are not recorded yet, no call can give it to the pool.             *)
(***************************************************************************)

\* Every call in D comes after a call in S.
Covered(calls, D, S) ==
  \A j \in DOMAIN calls : calls[j] \in D => \E k \in 1 .. j - 1 : calls[k] \in S

\* A task that may still be given to the pool.
Waiting(u) == u \in mTasks \ added /\ mStatus[u] # "Terminated"

\* The task has been added, but its dependencies are not recorded yet.
Resolving(u) ==
  \E i \in DOMAIN agenda :
    agenda[i].op = "resolveDependencies" /\ agenda[i].task = u

\* The calls that end in the termination of u, if it still waits.
Stops(u) ==
  {e \in Calls :
    \/ e.op \in {"cancelDependent", "cancel", "terminated"} /\ e.task = u
    \/ e.op \in {"cancel", "cancelRest"} /\ e.task = Parent[u]}

\* The calls after which no task depends on x, and those that end everything.
Forgets(x) == {e \in Calls : e.op \in {"cleanup", "forget"} /\ e.task = x}
ForgetsAll == {e \in Calls : e.op = "cleanupAll"}

\* While the dependencies of u are not recorded: the calls that record them or
\* terminate u, and those, about its subtasks, that leave u alone.
AddingStops(u) ==
  {e \in Calls :
    \/ e.op \in {"cancel", "terminated", "resolveDependencies"} /\ e.task = u
    \/ /\ e.op = "subTaskStatusChanged" /\ e.status = "Terminated"
       /\ Parent[e.task] = u}
AddingHarmless(u) ==
  {e \in Calls :
    /\ e.op \in {"addSubTask", "cancel", "terminated",
                 "processSubTasksForTermination", "cancelRest"}
    /\ Parent[e.task] = u}
AddingOther(u) == Calls \ (AddingStops(u) \cup AddingHarmless(u))

-----------------------------------------------------------------------------
(***************************************************************************)
(* The inductive invariant                                                 *)
(***************************************************************************)

\* Calls are about tasks that have been added; a task is cleaned up only when
\* it will not be given to the pool any more; the manager adds tasks while it
\* exists.
EntryKnown(e) ==
  /\ e.op \notin {"cleanupAll", "cancelDependent"} => e.task \in everAdded
  /\ e.op = "addSubTask" => ~ IsParent(e.task)
  /\ e.op = "resolveDependencies" => IsParent(e.task)
  /\ e.op = "cleanup" => AllSettled(e.task)
  /\ e.op \in AddingOps \cup {"cleanupAll"} => managerExists

AgendaKnown == \A i \in DOMAIN agenda : EntryKnown(agenda[i])
EventsKnown == \A i \in DOMAIN events : EntryKnown(events[i])

TasksKnown ==
  /\ mTasks \cup added \subseteq everAdded
  /\ \A t \in everAdded : mSubTasks(t) \subseteq everAdded
  /\ \A t \in everAdded : ~ IsParent(t) => Parent[t] \in everAdded
  /\ \A t \in Tasks : mStatus[t] # "Queued" => t \in everAdded

\* What is below a call that adds a task, or that ends everything.
AgendaOrdered ==
  \A i \in DOMAIN agenda :
    /\ agenda[i].op = "cleanupAll" => i = Len(agenda)
    /\ \A j \in DOMAIN agenda : j > i =>
         /\ agenda[i].op = "addSubTask" =>
              agenda[j].op \in AddingOps \cup {"processQueue"}
         /\ agenda[i].op = "resolveDependencies" => agenda[j].op = "processQueue"

\* A task is removed only when it and its subtasks are settled.
NotForgotten ==
  \A t \in everAdded \ mTasks :
    \/ AllSettled(t)
    \/ \E i \in DOMAIN agenda :
         agenda[i].op = "addSubTask" /\ agenda[i].task = t

\* Nothing is forgotten that a waiting task must still wait for.
StoppedBefore(u) ==
  /\ \A x \in mTaskDependencies[u] :
       WhollySucceeded(x) \/ Covered(agenda, Forgets(x), Stops(u))
  /\ Covered(agenda, ForgetsAll, Stops(u))
  /\ managerExists

\* A new task is not given to the pool before its dependencies are recorded.
ResolvedFirst(u) ==
  Resolving(u) =>
    mStatus[u] = "Queued" /\ Covered(agenda, AddingOther(u), AddingStops(u))

\* The manager remembers every dependency that has not succeeded.
DependenciesKept(u) ==
  \/ Resolving(u)
  \/ \A x \in AllDependencies(u) :
       x \in mTaskDependencies[u] \/ WhollySucceeded(x)

WaitingSafe ==
  \A u \in Tasks : Waiting(u) =>
    StoppedBefore(u) /\ ResolvedFirst(u) /\ DependenciesKept(u)

AddedAfter ==
  \A t \in added : \A d \in AllDependencies(t) : WhollySucceeded(d)

OrderInv ==
  /\ AgendaKnown
  /\ EventsKnown
  /\ TasksKnown
  /\ AgendaOrdered
  /\ NotForgotten
  /\ WaitingSafe
  /\ AddedAfter

-----------------------------------------------------------------------------
(***************************************************************************)
(* The call stack                                                          *)
(***************************************************************************)

LEMMA CoverPush ==
  ASSUME NEW below \in Seq(Calls), below # <<>>, NEW calls \in Seq(Calls),
         NEW all, all = calls \o Tail(below), NEW D, NEW S,
         Covered(below, D, S), Covered(calls, D, S),
         Head(below) \in S => \E k \in DOMAIN calls : calls[k] \in S
  PROVE  Covered(all, D, S)
<1> DEFINE n == Len(calls)
<1>1. /\ n \in Nat /\ DOMAIN calls = 1 .. n
      /\ DOMAIN all = 1 .. Len(all) /\ Len(all) = n + Len(below) - 1
      /\ Len(below) \in Nat /\ DOMAIN below = 1 .. Len(below)
      /\ Head(below) = below[1] /\ 1 \in DOMAIN below
      /\ \A i \in 1 .. n : all[i] = calls[i]
      /\ \A i \in DOMAIN all : i > n =>
           /\ i - n + 1 \in DOMAIN below
           /\ i - n + 1 > 1
           /\ all[i] = below[i - n + 1]
      /\ \A j \in DOMAIN below : j > 1 =>
           j + n - 1 \in DOMAIN all /\ all[j + n - 1] = below[j]
  BY PushedCalls, SMTT(30)
<1> HIDE DEF n
<1>2. ASSUME NEW j \in DOMAIN all, all[j] \in D
      PROVE  \E k \in 1 .. j - 1 : all[k] \in S
  <2>1. CASE j \in 1 .. n
    <3>1. PICK k \in 1 .. j - 1 : calls[k] \in S
      BY <1>1, <1>2, <2>1 DEF Covered
    <3> QED
      BY <1>1, <2>1, <3>1
  <2>2. CASE j > n
    <3>1. PICK i \in DOMAIN below : i = j - n + 1 /\ i > 1 /\ all[j] = below[i]
      BY <1>1, <2>2
    <3>2. PICK k \in 1 .. i - 1 : below[k] \in S
      BY <1>1, <1>2, <3>1 DEF Covered
    <3>3. CASE k = 1
      <4>1. PICK m \in DOMAIN calls : calls[m] \in S
        BY <1>1, <3>2, <3>3
      <4> QED
        BY <1>1, <2>2, <4>1, SMTT(20)
    <3>4. CASE k > 1
      <4>1. k \in DOMAIN below
        BY <1>1, <3>1, <3>2
      <4>2. all[k + n - 1] \in S
        BY <1>1, <3>2, <3>4, <4>1
      <4>3. k + n - 1 \in 1 .. j - 1
        BY <1>1, <2>2, <3>1, <3>2, <3>4
      <4> QED
        BY <4>2, <4>3
    <3>5. k = 1 \/ k > 1
      BY <1>1, <3>1, <3>2
    <3> QED
      BY <3>3, <3>4, <3>5
  <2> QED
    BY <1>1, <2>1, <2>2, SMTT(30)
<1> QED
  BY <1>2 DEF Covered

LEMMA HeadUncovered ==
  ASSUME NEW calls \in Seq(Calls), calls # <<>>, NEW D, NEW S, Covered(calls, D, S)
  PROVE  Head(calls) \notin D
<1>1. Head(calls) = calls[1] /\ 1 \in DOMAIN calls
  OBVIOUS
<1> QED
  BY <1>1 DEF Covered

LEMMA NoneToCover ==
  ASSUME NEW calls, NEW D, NEW S, \A j \in DOMAIN calls : calls[j] \notin D
  PROVE  Covered(calls, D, S)
BY DEF Covered

LEMMA EntryStaysKnown ==
  ASSUME Steady, everAdded \subseteq everAdded',
         NEW e, e.task \in Tasks, EntryKnown(e),
         managerExists' = managerExists \/ e.op \notin AddingOps \cup {"cleanupAll"}
  PROVE  EntryKnown(e)'
BY DEF Steady, EntryKnown, AllSettled, mSubTasks, IsParent

\* Calls that neither add tasks nor end everything.
LocalOps == PlainOps \cup {"cleanup", "forget"}

LEMMA KnownPush ==
  ASSUME AgendaKnown, AgendaOrdered, agenda \in Seq(Calls), agenda # <<>>, Steady,
         everAdded \subseteq everAdded', managerExists' = managerExists,
         NEW calls \in Seq(Calls), agenda' = calls \o Tail(agenda),
         \A i \in DOMAIN calls : calls[i].op \in LocalOps /\ EntryKnown(calls[i])
  PROVE  AgendaKnown' /\ AgendaOrdered'
<1> DEFINE n == Len(calls)
<1>1. /\ n \in Nat /\ DOMAIN calls = 1 .. n
      /\ agenda' \in Seq(Calls)
      /\ DOMAIN agenda' = 1 .. Len(agenda') /\ Len(agenda') = n + Len(agenda) - 1
      /\ Len(agenda) \in Nat /\ DOMAIN agenda = 1 .. Len(agenda)
      /\ \A i \in 1 .. n : agenda'[i] = calls[i]
      /\ \A i \in DOMAIN agenda' : i > n =>
           /\ i - n + 1 \in DOMAIN agenda
           /\ agenda'[i] = agenda[i - n + 1]
  BY PushedCalls
<1> HIDE DEF n
<1>2. ASSUME NEW i \in DOMAIN agenda'
      PROVE  i \in 1 .. n \/ i > n
  BY <1>1
<1>3. ASSUME NEW i \in DOMAIN agenda' PROVE EntryKnown(agenda[i])'
  <2>1. PICK e : e = agenda'[i]
    OBVIOUS
  <2>2. e.task \in Tasks /\ EntryKnown(e)
    BY <1>1, <1>2, <2>1, EntryTyped DEF AgendaKnown
  <2>3. EntryKnown(e)'
    BY <2>2, EntryStaysKnown
  <2> QED
    BY <2>1, <2>3 DEF EntryKnown, AllSettled, Settled
<1>4. ASSUME NEW i \in DOMAIN agenda', i \in 1 .. n
      PROVE  agenda'[i].op \notin AddingOps \cup {"cleanupAll"}
  BY <1>1, <1>4 DEF LocalOps, PlainOps, SlotOps, AddingOps
<1>5. ASSUME NEW i \in DOMAIN agenda'
      PROVE  /\ agenda'[i].op = "cleanupAll" => i = Len(agenda')
             /\ \A j \in DOMAIN agenda' : j > i =>
                  /\ agenda'[i].op = "addSubTask" =>
                       agenda'[j].op \in AddingOps \cup {"processQueue"}
                  /\ agenda'[i].op = "resolveDependencies" =>
                       agenda'[j].op = "processQueue"
  <2>1. CASE i \in 1 .. n
    BY <1>4, <2>1 DEF AddingOps
  <2>2. CASE i > n
    <3>1. PICK m \in DOMAIN agenda : m = i - n + 1 /\ agenda'[i] = agenda[m]
      BY <1>1, <2>2
    <3>2. agenda'[i].op = "cleanupAll" => i = Len(agenda')
      BY <1>1, <3>1 DEF AgendaOrdered
    <3>3. ASSUME NEW j \in DOMAIN agenda', j > i
          PROVE  \E k \in DOMAIN agenda : k > m /\ agenda'[j] = agenda[k]
      <4>1. j > n
        BY <1>1, <2>2, <3>3
      <4>2. PICK k \in DOMAIN agenda : k = j - n + 1 /\ agenda'[j] = agenda[k]
        BY <1>1, <4>1
      <4>3. k > m
        BY <1>1, <3>1, <3>3, <4>2
      <4> QED
        BY <4>2, <4>3
    <3>4. \A k \in DOMAIN agenda : k > m =>
            /\ agenda[m].op = "addSubTask" =>
                 agenda[k].op \in AddingOps \cup {"processQueue"}
            /\ agenda[m].op = "resolveDependencies" => agenda[k].op = "processQueue"
      BY <3>1, Zenon DEF AgendaOrdered
    <3> QED
      BY <3>1, <3>2, <3>3, <3>4, ZenonT(30)
  <2> QED
    BY <1>2, <2>1, <2>2
<1> QED
  BY <1>3, <1>5 DEF AgendaKnown, AgendaOrdered

\* The call at the head returns; the others stay on the stack.
Replaced(below, calls, all) ==
  /\ \A i \in DOMAIN below : below[i] # Head(below) =>
       \E j \in DOMAIN all : all[j] = below[i]
  /\ \A j \in DOMAIN all :
       \/ \E i \in DOMAIN calls : all[j] = calls[i]
       \/ \E i \in DOMAIN below : i > 1 /\ all[j] = below[i]

LEMMA RestStays ==
  ASSUME NEW below \in Seq(Calls), below # <<>>, NEW calls \in Seq(Calls),
         NEW all, all = calls \o Tail(below)
  PROVE  Replaced(below, calls, all)
<1> DEFINE n == Len(calls)
<1>1. /\ n \in Nat /\ DOMAIN calls = 1 .. n
      /\ DOMAIN all = 1 .. Len(all) /\ Len(all) = n + Len(below) - 1
      /\ Len(below) \in Nat /\ DOMAIN below = 1 .. Len(below)
      /\ Head(below) = below[1] /\ 1 \in DOMAIN below
      /\ \A i \in 1 .. n : all[i] = calls[i]
      /\ \A i \in DOMAIN all : i > n =>
           /\ i - n + 1 \in DOMAIN below
           /\ i - n + 1 > 1
           /\ all[i] = below[i - n + 1]
      /\ \A j \in DOMAIN below : j > 1 =>
           j + n - 1 \in DOMAIN all /\ all[j + n - 1] = below[j]
  BY PushedCalls, SMTT(30)
<1> HIDE DEF n
<1>2. ASSUME NEW i \in DOMAIN below, below[i] # Head(below)
      PROVE  \E j \in DOMAIN all : all[j] = below[i]
  <2>1. i > 1
    BY <1>1, <1>2
  <2> QED
    BY <1>1, <2>1
<1>3. ASSUME NEW j \in DOMAIN all
      PROVE  \/ \E i \in DOMAIN calls : all[j] = calls[i]
             \/ \E i \in DOMAIN below : i > 1 /\ all[j] = below[i]
  <2>1. CASE j \in 1 .. n
    BY <1>1, <2>1
  <2>2. CASE j > n
    <3>1. PICK i \in DOMAIN below : i > 1 /\ all[j] = below[i]
      BY <1>1, <2>2
    <3> QED
      BY <3>1
  <2>3. j \in 1 .. n \/ j > n
    BY <1>1
  <2> QED
    BY <2>1, <2>2, <2>3
<1> QED
  BY <1>2, <1>3 DEF Replaced

-----------------------------------------------------------------------------
(***************************************************************************)
(* What a call must do for the invariant                                   *)
(***************************************************************************)

\* A waiting task is stopped by the calls, or by one left on the stack.
KeepsStopping(u, calls) ==
  /\ Head(agenda) \in Stops(u) => \E k \in DOMAIN calls : calls[k] \in Stops(u)
  /\ \A x \in mTaskDependencies[u] :
       WhollySucceeded(x) \/ Covered(calls, Forgets(x), Stops(u))

\* A task whose dependencies are not recorded stays out of the pool.
KeepsResolving(u, calls) ==
  /\ Covered(calls, AddingOther(u), AddingStops(u))
  /\ Head(agenda) \in AddingStops(u) =>
       \E k \in DOMAIN calls : calls[k] \in AddingStops(u)

\* The tasks that still wait waited before, for no less.
StillWaiting(u) ==
  /\ mTaskDependencies'[u] \subseteq mTaskDependencies[u]
  /\ \A x \in mTaskDependencies[u] \ mTaskDependencies'[u] : WhollySucceeded(x)

LEMMA WaitedBefore ==
  ASSUME Steady, mTasks' \subseteq mTasks, NEW u \in Tasks, Waiting(u)'
  PROVE  Waiting(u)
BY DEF Waiting, Steady, Settled

LEMMA PushStep ==
  ASSUME SaidInv, OrderInv, Steady, agenda # <<>>,
         NEW calls \in Seq(Calls), agenda' = calls \o Tail(agenda),
         \A i \in DOMAIN calls : calls[i].op \in LocalOps /\ EntryKnown(calls[i]),
         Head(agenda).op \notin AddingOps \cup {"cleanupAll"},
         UNCHANGED <<everAdded, managerExists>>,
         mTasks' \subseteq mTasks, \A t \in mTasks \ mTasks' : AllSettled(t),
         \A u \in Tasks : Waiting(u) /\ Waiting(u)' =>
           StillWaiting(u) /\ KeepsStopping(u, calls),
         \A u \in Tasks :
           /\ Waiting(u) /\ Waiting(u)' /\ Resolving(u)
           /\ Head(agenda) \in AddingStops(u) \cup AddingHarmless(u)
           => mStatus'[u] = mStatus[u] /\ KeepsResolving(u, calls),
         EventsKnown', TasksKnown', AddedAfter'
  PROVE  OrderInv'
<1>1. /\ agenda \in Seq(Calls) /\ mTasks \subseteq Tasks /\ everAdded \subseteq Tasks
      /\ mTaskDependencies \in [Tasks -> SUBSET Tasks]
  BY DEF SaidInv, AgendaSaid, StateTyped
<1>2. AgendaKnown' /\ AgendaOrdered'
  BY <1>1, KnownPush DEF OrderInv
<1>3. Replaced(agenda, calls, agenda')
  BY <1>1, RestStays
<1>4. NotForgotten'
  <2>1. ASSUME NEW t \in everAdded' \ mTasks'
        PROVE  \/ AllSettled(t)'
               \/ \E i \in DOMAIN agenda' :
                    agenda'[i].op = "addSubTask" /\ agenda'[i].task = t
    <3>1. CASE AllSettled(t)
      BY <1>1, <2>1, <3>1, SteadyAll
    <3>2. CASE ~ AllSettled(t)
      <4>1. t \in everAdded \ mTasks
        BY <2>1, <3>2
      <4>2. PICK i \in DOMAIN agenda : agenda[i].op = "addSubTask" /\ agenda[i].task = t
        BY <3>2, <4>1 DEF OrderInv, NotForgotten
      <4>3. agenda[i] # Head(agenda)
        BY <4>2 DEF AddingOps
      <4> QED
        BY <1>3, <4>2, <4>3 DEF Replaced
    <3> QED
      BY <3>1, <3>2
  <2> QED
    BY <2>1 DEF NotForgotten
<1>5. ASSUME NEW u \in Tasks, Waiting(u)'
      PROVE  (StoppedBefore(u) /\ ResolvedFirst(u) /\ DependenciesKept(u))'
  <2>1. Waiting(u)
    BY <1>5, WaitedBefore
  <2>2. StoppedBefore(u) /\ ResolvedFirst(u) /\ DependenciesKept(u)
    BY <2>1 DEF OrderInv, WaitingSafe
  <2>3. StillWaiting(u) /\ KeepsStopping(u, calls)
    BY <1>5, <2>1
  <2>4. ASSUME NEW x \in mTaskDependencies'[u]
        PROVE  WhollySucceeded(x)' \/ Covered(agenda', Forgets(x), Stops(u))
    <3>1. x \in mTaskDependencies[u] /\ x \in Tasks
      BY <1>1, <2>3, <2>4 DEF StillWaiting
    <3>2. CASE WhollySucceeded(x)
      BY <3>1, <3>2, SteadyAll
    <3>3. CASE ~ WhollySucceeded(x)
      <4>1. Covered(agenda, Forgets(x), Stops(u)) /\ Covered(calls, Forgets(x), Stops(u))
        BY <2>2, <2>3, <3>1, <3>3 DEF StoppedBefore, KeepsStopping
      <4> QED
        BY <1>1, <2>3, <4>1, CoverPush DEF KeepsStopping
    <3> QED
      BY <3>2, <3>3
  <2>5. Covered(agenda', ForgetsAll, Stops(u))
    <3>1. Covered(calls, ForgetsAll, Stops(u))
      <4>1. \A j \in DOMAIN calls : calls[j].op # "cleanupAll"
        BY DEF LocalOps, PlainOps, SlotOps
      <4> QED
        BY <4>1, NoneToCover DEF ForgetsAll
    <3> QED
      BY <1>1, <2>2, <2>3, <3>1, CoverPush DEF KeepsStopping, StoppedBefore
  <2>6. Resolving(u) <=> Resolving(u)'
    <3>1. \A i \in DOMAIN calls : calls[i].op # "resolveDependencies"
      BY DEF LocalOps, PlainOps, SlotOps
    <3>2. Resolving(u)' => Resolving(u)
      BY <1>3, <3>1 DEF Resolving, Replaced
    <3>3. ASSUME Resolving(u) PROVE Resolving(u)'
      <4>1. PICK i \in DOMAIN agenda :
              agenda[i].op = "resolveDependencies" /\ agenda[i].task = u
        BY <3>3 DEF Resolving
      <4>2. agenda[i] # Head(agenda)
        BY <4>1 DEF AddingOps
      <4>3. PICK j \in DOMAIN agenda' : agenda'[j] = agenda[i]
        BY <1>3, <4>2 DEF Replaced
      <4> QED
        BY <4>1, <4>3 DEF Resolving
    <3> QED
      BY <3>2, <3>3
  <2>7. Resolving(u)' => /\ mStatus'[u] = "Queued"
                         /\ Covered(agenda', AddingOther(u), AddingStops(u))
    <3> SUFFICES ASSUME Resolving(u)
                 PROVE  /\ mStatus'[u] = "Queued"
                        /\ Covered(agenda', AddingOther(u), AddingStops(u))
      BY <2>6
    <3>1. mStatus[u] = "Queued" /\ Covered(agenda, AddingOther(u), AddingStops(u))
      BY <2>2 DEF ResolvedFirst
    <3>2. Head(agenda) \in AddingStops(u) \cup AddingHarmless(u)
      BY <1>1, <3>1, HeadUncovered DEF AddingOther
    <3>3. mStatus'[u] = mStatus[u] /\ KeepsResolving(u, calls)
      BY <1>5, <2>1, <3>2
    <3> QED
      BY <1>1, <3>1, <3>3, CoverPush DEF KeepsResolving
  <2>8. DependenciesKept(u)'
    <3>1. CASE Resolving(u)
      BY <2>6, <3>1 DEF DependenciesKept
    <3>2. CASE ~ Resolving(u)
      <4>1. ASSUME NEW x \in AllDependencies(u)
            PROVE  x \in mTaskDependencies'[u] \/ WhollySucceeded(x)'
        <5>1. x \in Tasks
          BY StructureAssumption DEF AllDependencies, mSubTasks
        <5>2. x \in mTaskDependencies[u] \/ WhollySucceeded(x)
          BY <2>2, <3>2 DEF DependenciesKept
        <5> QED
          BY <2>3, <5>1, <5>2, SteadyAll DEF StillWaiting
      <4> QED
        BY <4>1 DEF DependenciesKept, AllDependencies, mSubTasks
    <3> QED
      BY <3>1, <3>2
  <2>9. managerExists'
    BY <2>2 DEF StoppedBefore
  <2> QED
    BY <2>4, <2>5, <2>7, <2>8, <2>9
       DEF StoppedBefore, ResolvedFirst, Covered
<1>6. WaitingSafe'
  BY <1>5 DEF WaitingSafe
<1> QED
  BY <1>2, <1>4, <1>6 DEF OrderInv

LEMMA EventsStayKnown ==
  ASSUME EventsKnown, EventsSaid, Steady, everAdded \subseteq everAdded',
         NEW posted \in Seq(Events), events' = events \o posted,
         \A i \in DOMAIN posted : posted[i].task \in everAdded
  PROVE  EventsKnown'
<1>1. events \in Seq(Events)
  BY DEF EventsSaid
<1>2. \A i \in DOMAIN events' :
        \/ i \in DOMAIN events /\ events'[i] = events[i]
        \/ i - Len(events) \in DOMAIN posted /\ events'[i] = posted[i - Len(events)]
  BY <1>1
<1>3. ASSUME NEW i \in DOMAIN events' PROVE EntryKnown(events[i])'
  <2>1. PICK e : e = events'[i]
    OBVIOUS
  <2>2. e \in Events /\ (e.task \in everAdded \/ EntryKnown(e))
    BY <1>1, <1>2, <2>1 DEF EventsKnown
  <2>3. /\ e.op \in SlotOps \cup {"delete"}
        /\ e.op \notin AddingOps \cup {"cleanupAll", "cleanup"}
    BY <2>2 DEF Events, Entry, SlotOps, AddingOps
  <2>4. EntryKnown(e)
    BY <2>2, <2>3 DEF EntryKnown, AddingOps
  <2>5. EntryKnown(e)'
    BY <2>2, <2>3, <2>4, EntryTyped, EntryStaysKnown
  <2> QED
    BY <2>1, <2>5 DEF EntryKnown, AllSettled, Settled
<1> QED
  BY <1>3 DEF EventsKnown

LEMMA SameEventsKnown ==
  ASSUME EventsKnown, EventsSaid, Steady, everAdded \subseteq everAdded',
         everAdded \subseteq Tasks,
         \/ events' = events
         \/ \E t \in everAdded : events' = events \o deleteLater(t)
         \/ events # <<>> /\ events' = Tail(events)
  PROVE  EventsKnown'
<1>1. events \in Seq(Events)
  BY DEF EventsSaid
<1>2. CASE events' = events \/ (events # <<>> /\ events' = Tail(events))
  <2>1. \A i \in DOMAIN events' : \E j \in DOMAIN events : events'[i] = events[j]
    <3>1. CASE events' = events
      BY <3>1
    <3>2. CASE events # <<>> /\ events' = Tail(events)
      <4>1. \A i \in DOMAIN events' : i + 1 \in DOMAIN events /\ events'[i] = events[i + 1]
        BY <1>1, <3>2
      <4> QED
        BY <4>1
    <3> QED
      BY <1>2, <3>1, <3>2
  <2>2. ASSUME NEW i \in DOMAIN events' PROVE EntryKnown(events[i])'
    <3>1. PICK e : e = events'[i]
      OBVIOUS
    <3>2. e \in Events /\ EntryKnown(e)
      BY <1>1, <2>1, <3>1 DEF EventsKnown
    <3>3. e.op \notin AddingOps \cup {"cleanupAll"}
      BY <3>2 DEF Events, Entry, SlotOps, AddingOps
    <3>4. EntryKnown(e)'
      BY <3>2, <3>3, EntryTyped, EntryStaysKnown
    <3> QED
      BY <3>1, <3>4 DEF EntryKnown, AllSettled, Settled
  <2> QED
    BY <2>2 DEF EventsKnown
<1>3. ASSUME NEW t \in everAdded, events' = events \o deleteLater(t)
      PROVE  EventsKnown'
  <2>1. PICK posted : posted = deleteLater(t)
    OBVIOUS
  <2>2. posted \in Seq(Events)
    BY <2>1, DeletionPosted
  <2>3. \A i \in DOMAIN posted : posted[i].task = t
    BY <2>1 DEF deleteLater, Call
  <2> QED
    BY <1>3, <2>1, <2>2, <2>3, EventsStayKnown
<1> QED
  BY <1>2, <1>3

LEMMA QuietStep ==
  ASSUME SaidInv, OrderInv, Steady, agenda # <<>>, Head(agenda).op \in PlainOps,
         NEW calls \in Seq(Calls), agenda' = calls \o Tail(agenda),
         \A i \in DOMAIN calls :
           calls[i].op \in PlainOps /\ calls[i].task \in everAdded,
         UNCHANGED <<mTasks, mTaskDependencies, added, everAdded, managerExists, succeeded>>,
         events' = events \/ \E t \in everAdded : events' = events \o deleteLater(t),
         \A t \in Tasks : mStatus'[t] = mStatus[t] \/ t \in everAdded,
         \A u \in Tasks : Waiting(u) /\ Waiting(u)' /\ Head(agenda) \in Stops(u) =>
           \E k \in DOMAIN calls : calls[k] \in Stops(u),
         \A u \in Tasks :
           /\ Waiting(u) /\ Waiting(u)' /\ Resolving(u)
           /\ Head(agenda) \in AddingStops(u) \cup AddingHarmless(u)
           => mStatus'[u] = mStatus[u] /\ KeepsResolving(u, calls)
  PROVE  OrderInv'
<1>1. \A i \in DOMAIN calls : calls[i].op \in LocalOps /\ EntryKnown(calls[i])
  <2> TAKE i \in DOMAIN calls
  <2>1. PICK op : op = calls[i].op
    OBVIOUS
  <2>2. op \in PlainOps /\ calls[i].task \in everAdded
    BY <2>1
  <2>3. op \in LocalOps /\ op \notin {"addSubTask", "resolveDependencies", "cleanup", "cleanupAll"}
    BY <2>2 DEF LocalOps, PlainOps, SlotOps
  <2> QED
    BY <2>1, <2>2, <2>3 DEF EntryKnown, AddingOps
<1>2. Head(agenda).op \notin AddingOps \cup {"cleanupAll"}
  BY DEF PlainOps, SlotOps, AddingOps
<1>3. ASSUME NEW u \in Tasks, Waiting(u), Waiting(u)'
      PROVE  StillWaiting(u) /\ KeepsStopping(u, calls)
  <2>1. ASSUME NEW x PROVE Covered(calls, Forgets(x), Stops(u))
    <3>1. \A j \in DOMAIN calls : calls[j].op \notin {"cleanup", "forget"}
      BY DEF PlainOps, SlotOps
    <3> QED
      BY <3>1, NoneToCover DEF Forgets
  <2> QED
    BY <1>3, <2>1 DEF StillWaiting, KeepsStopping
<1>4. EventsKnown'
  BY SameEventsKnown DEF SaidInv, StateTyped, OrderInv
<1>5. TasksKnown'
  BY DEF OrderInv, TasksKnown, mSubTasks, IsParent
<1>6. AddedAfter'
  BY DEF OrderInv, AddedAfter, WhollySucceeded, AllDependencies, mSubTasks
<1> QED
  BY <1>1, <1>2, <1>3, <1>4, <1>5, <1>6, PushStep

-----------------------------------------------------------------------------
(***************************************************************************)
(* Calls of QgsTask                                                        *)
(***************************************************************************)

\* No call of the main thread makes a settled task wait again.
LEMMA MainSteady ==
  ASSUME SaidInv, NEW t \in Tasks, MainStep(t)
  PROVE  Steady
<1>1. StateTyped /\ AgendaSaid /\ HeldOnTop /\ StatusesAgree
  BY DEF SaidInv
<1>2. CASE SetTerminated(t)
  BY <1>1, <1>2 DEF SetTerminated, Steady, Settled, StateTyped, managerVars, historyVars
<1>3. CASE SetOnHold(t)
  <2>1. 1 \in DOMAIN agenda /\ agenda[1].op = "setOnHold" /\ agenda[1].task = t
    BY <1>1, <1>3 DEF AgendaSaid, SetOnHold, Running
  <2>2. t \notin added => mStatus[t] = "Queued"
    BY <1>1, <2>1 DEF HeldOnTop
  <2> QED
    BY <1>1, <1>3, <2>2
       DEF SetOnHold, Steady, Settled, StateTyped, managerVars, historyVars
<1>4. CASE Unhold(t)
  <2>1. \A u \in Tasks : mStatus'[u] = mStatus[u] \/ mStatus[u] = "OnHold"
    BY <1>1, <1>4 DEF Unhold, StateTyped
  <2> QED
    BY <1>4, <2>1 DEF Unhold, Steady, Settled, managerVars, historyVars
<1>5. CASE ProcessQueue(t)
  BY <1>5 DEF ProcessQueue, Steady, Settled, taskVars, historyVars
<1>6. CASE \/ Cancel(t) \/ CancelRest(t) \/ ProcessSubTasksForTermination(t)
           \/ ProcessSubTasksForCompletion(t) \/ EndReported(t) \/ Hold(t)
           \/ ProcessSubTasksForHold(t) \/ SubTaskStatusChanged(t)
           \/ TaskStatusChanged(t) \/ CancelDependent(t) \/ CleanupAndDeleteTask(t)
           \/ ForgetDependency(t) \/ AddSubTask(t) \/ ResolveDependencies(t)
           \/ CancelForLayer(t) \/ CleanupAll(t)
  <2>1. UNCHANGED <<mStatus, added, succeeded>>
    BY <1>6
       DEF Cancel, CancelRest, ProcessSubTasksForTermination,
           ProcessSubTasksForCompletion, EndReported, Hold, ProcessSubTasksForHold,
           SubTaskStatusChanged, TaskStatusChanged, CancelDependent,
           CleanupAndDeleteTask, ForgetDependency, AddSubTask, ResolveDependencies,
           CancelForLayer, CleanupAll, taskVars, managerVars, historyVars
  <2> QED
    BY <2>1 DEF Steady, Settled
<1> QED
  BY <1>2, <1>3, <1>4, <1>5, <1>6 DEF MainStep

LEMMA HeadKnown ==
  ASSUME SaidInv, OrderInv, NEW op, NEW t, Running(op, t)
  PROVE  /\ agenda # <<>> /\ Head(agenda) \in Calls
         /\ Head(agenda).op = op /\ Head(agenda).task = t
         /\ EntryKnown(Head(agenda))
<1>1. agenda \in Seq(Calls) /\ agenda # <<>>
  BY DEF SaidInv, AgendaSaid, Running
<1>2. Head(agenda) = agenda[1] /\ 1 \in DOMAIN agenda
  BY <1>1
<1> QED
  BY <1>1, <1>2 DEF OrderInv, AgendaKnown, Running

\* Lists of calls about tasks that have been added.
PlainCalls ==
  {calls \in Seq(Calls) : \A i \in DOMAIN calls :
     calls[i].op \in PlainOps /\ calls[i].task \in everAdded}

LEMMA NoPlainCall == <<>> \in PlainCalls
BY DEF PlainCalls

LEMMA OnePlainCall ==
  ASSUME NEW t \in Tasks, t \in everAdded, NEW op \in PlainOps
  PROVE  <<Call(op, t)>> \in PlainCalls
<1>1. Call(op, t) \in Calls /\ Call(op, t).op = op /\ Call(op, t).task = t
  BY CallTyped DEF Call
<1> QED
  BY <1>1 DEF PlainCalls

LEMMA EachPlainCall ==
  ASSUME NEW ts \in SUBSET Tasks, ts \subseteq everAdded, NEW op \in PlainOps
  PROVE  CallEach(op, ts) \in PlainCalls
<1>1. CallEach(op, ts) \in Seq(Calls)
  BY CallEachCalls
<1>2. ASSUME NEW i \in DOMAIN CallEach(op, ts)
      PROVE  CallEach(op, ts)[i].op = op /\ CallEach(op, ts)[i].task \in ts
  BY CallEachCalls DEF Call
<1> QED
  BY <1>1, <1>2 DEF PlainCalls

LEMMA PlainConcat ==
  ASSUME NEW s \in PlainCalls, NEW r \in PlainCalls
  PROVE  s \o r \in PlainCalls
<1>1. s \in Seq(Calls) /\ r \in Seq(Calls) /\ s \o r \in Seq(Calls)
  BY DEF PlainCalls
<1>2. ASSUME NEW i \in DOMAIN (s \o r)
      PROVE  \/ i \in DOMAIN s /\ (s \o r)[i] = s[i]
             \/ i - Len(s) \in DOMAIN r /\ (s \o r)[i] = r[i - Len(s)]
  BY <1>1
<1> QED
  BY <1>1, <1>2 DEF PlainCalls

LEMMA PlainSignal ==
  ASSUME NEW t \in Tasks, t \in everAdded, NEW st \in TaskStatus
  PROVE  statusChanged(t, st) \in PlainCalls
<1>1. ASSUME NEW op \in SlotOps PROVE <<Slot(op, t, st)>> \in PlainCalls
  <2>1. /\ Slot(op, t, st) \in Calls /\ Slot(op, t, st).op = op
        /\ Slot(op, t, st).task = t /\ op \in PlainOps
    BY DEF Slot, Calls, Entry, PlainOps
  <2> QED
    BY <2>1 DEF PlainCalls
<1> DEFINE up == IF IsParent(t) THEN <<>> ELSE <<Slot("subTaskStatusChanged", t, st)>>
           toManager == IF t \in mTasks THEN <<Slot("taskStatusChanged", t, st)>>
                                        ELSE <<>>
<1>2. up \in PlainCalls /\ toManager \in PlainCalls
  BY <1>1, NoPlainCall DEF SlotOps
<1>3. statusChanged(t, st) = up \o toManager
  BY DEF statusChanged
<1> HIDE DEF up, toManager
<1> QED
  BY <1>2, <1>3, PlainConcat

\* QuietStep for a call that neither stops a task nor is made while one is added.
LEMMA OtherStep ==
  ASSUME SaidInv, OrderInv, Steady, NEW t \in Tasks,
         NEW op \in PlainOps \ {"cancelDependent", "cancel", "terminated", "cancelRest",
                                "subTaskStatusChanged", "processSubTasksForTermination"},
         Running(op, t),
         NEW calls \in PlainCalls, agenda' = calls \o Tail(agenda),
         UNCHANGED <<mTasks, mTaskDependencies, added, everAdded, managerExists, succeeded>>,
         events' = events \/ events' = events \o deleteLater(t),
         \A u \in Tasks : mStatus'[u] = mStatus[u] \/ u \in everAdded
  PROVE  OrderInv'
<1>1. /\ agenda # <<>> /\ Head(agenda) \in Calls
      /\ Head(agenda).op = op /\ EntryKnown(Head(agenda)) /\ Head(agenda).task = t
  BY HeadKnown
<1>2. t \in everAdded
  BY <1>1 DEF EntryKnown, PlainOps, SlotOps
<1>3. ASSUME NEW u \in Tasks
      PROVE  /\ Head(agenda) \notin Stops(u)
             /\ Head(agenda) \notin AddingStops(u) \cup AddingHarmless(u)
  BY <1>1 DEF Stops, AddingStops, AddingHarmless, PlainOps, SlotOps
<1>4. /\ calls \in Seq(Calls)
      /\ \A i \in DOMAIN calls : calls[i].op \in PlainOps /\ calls[i].task \in everAdded
  BY DEF PlainCalls
<1> QED
  BY <1>1, <1>2, <1>3, <1>4, QuietStep

LEMMA OtherStepsOrder ==
  ASSUME SaidInv, OrderInv, NEW t \in Tasks,
         \/ ProcessSubTasksForCompletion(t) \/ EndReported(t) \/ Hold(t) \/ SetOnHold(t)
         \/ ProcessSubTasksForHold(t) \/ Unhold(t) \/ CancelForLayer(t)
  PROVE  OrderInv'
<1>1. Steady
  BY MainSteady DEF MainStep
<1>2. StateTyped /\ TasksKnown
  BY DEF SaidInv, OrderInv
<1>3. ASSUME NEW op \in PlainOps, Running(op, t), op # "cancelDependent"
      PROVE  t \in everAdded /\ mSubTasks(t) \in SUBSET Tasks /\ mSubTasks(t) \subseteq everAdded
  BY <1>2, <1>3, HeadKnown DEF EntryKnown, PlainOps, SlotOps, TasksKnown, mSubTasks
<1>4. CASE ProcessSubTasksForCompletion(t)
  <2>1. Running("processSubTasksForCompletion", t) /\ t \in everAdded
    BY <1>3, <1>4 DEF ProcessSubTasksForCompletion, PlainOps
  <2>2. PICK calls \in PlainCalls : agenda' = calls \o Tail(agenda)
    <3>1. /\ statusChanged(t, "Complete") \in PlainCalls
          /\ <<Call("taskCompleted", t)>> \in PlainCalls
      BY <2>1, PlainSignal, OnePlainCall DEF PlainOps, TaskStatus
    <3>2. \/ Continue(<<>>)
          \/ Continue(statusChanged(t, "Complete") \o <<Call("taskCompleted", t)>>)
      BY <1>4 DEF ProcessSubTasksForCompletion
    <3> QED
      BY <3>1, <3>2, NoPlainCall, PlainConcat DEF Continue
  <2> QED
    BY <1>1, <1>4, <2>1, <2>2, OtherStep
       DEF ProcessSubTasksForCompletion, PlainOps, SlotOps, managerVars, historyVars
<1>5. CASE EndReported(t)
  <2>1. PICK op \in {"taskCompleted", "taskTerminated"} : Running(op, t)
    BY <1>5 DEF EndReported
  <2>2. agenda' = <<>> \o Tail(agenda) /\ (events' = events \/ events' = events \o deleteLater(t))
    BY <1>5 DEF EndReported, Continue
  <2>3. op \in PlainOps \ {"cancelDependent", "cancel", "terminated", "cancelRest",
                           "subTaskStatusChanged", "processSubTasksForTermination"}
    BY DEF PlainOps
  <2> QED
    BY <1>1, <1>5, <2>1, <2>2, <2>3, OtherStep, NoPlainCall
       DEF EndReported, managerVars, historyVars
<1>6. CASE Hold(t)
  <2>1. Running("hold", t) /\ t \in everAdded
        /\ mSubTasks(t) \in SUBSET Tasks /\ mSubTasks(t) \subseteq everAdded
    BY <1>3, <1>6 DEF Hold, PlainOps
  <2>2. PICK calls \in PlainCalls : agenda' = calls \o Tail(agenda)
    <3>1. /\ CallEach("hold", mSubTasks(t)) \in PlainCalls
          /\ <<Call("setOnHold", t)>> \in PlainCalls
      BY <2>1, EachPlainCall, OnePlainCall DEF PlainOps
    <3> QED
      BY <1>6, <3>1, NoPlainCall, PlainConcat DEF Hold, Continue
  <2> QED
    BY <1>1, <1>6, <2>1, <2>2, OtherStep
       DEF Hold, PlainOps, SlotOps, taskVars, managerVars, historyVars
<1>7. CASE SetOnHold(t)
  <2>1. Running("setOnHold", t) /\ t \in everAdded
    BY <1>3, <1>7 DEF SetOnHold, PlainOps
  <2>2. PICK calls \in PlainCalls : agenda' = calls \o Tail(agenda)
    BY <1>7, <2>1, OnePlainCall DEF SetOnHold, Continue, PlainOps
  <2>3. \A u \in Tasks : mStatus'[u] = mStatus[u] \/ u \in everAdded
    BY <1>2, <1>7, <2>1 DEF SetOnHold, StateTyped
  <2> QED
    BY <1>1, <1>7, <2>1, <2>2, <2>3, OtherStep
       DEF SetOnHold, PlainOps, SlotOps, managerVars, historyVars
<1>8. CASE ProcessSubTasksForHold(t)
  <2>1. Running("processSubTasksForHold", t) /\ t \in everAdded
    BY <1>3, <1>8 DEF ProcessSubTasksForHold, PlainOps
  <2>2. PICK calls \in PlainCalls : agenda' = calls \o Tail(agenda)
    <3>1. statusChanged(t, "OnHold") \in PlainCalls
      BY <2>1, PlainSignal DEF TaskStatus
    <3> QED
      BY <1>8, <3>1, NoPlainCall DEF ProcessSubTasksForHold, Continue
  <2> QED
    BY <1>1, <1>8, <2>1, <2>2, OtherStep
       DEF ProcessSubTasksForHold, PlainOps, SlotOps, managerVars, historyVars
<1>9. CASE Unhold(t)
  <2>1. Running("unhold", t) /\ t \in everAdded
        /\ mSubTasks(t) \in SUBSET Tasks /\ mSubTasks(t) \subseteq everAdded
    BY <1>3, <1>9 DEF Unhold, PlainOps
  <2>2. PICK calls \in PlainCalls : agenda' = calls \o Tail(agenda)
    <3>1. /\ CallEach("unhold", mSubTasks(t)) \in PlainCalls
          /\ statusChanged(t, "Queued") \in PlainCalls
      BY <2>1, EachPlainCall, PlainSignal DEF PlainOps, TaskStatus
    <3>2. Continue((IF mStatus[t] = "OnHold" THEN statusChanged(t, "Queued") ELSE <<>>)
                     \o CallEach("unhold", mSubTasks(t)))
      BY <1>9 DEF Unhold
    <3> QED
      BY <3>1, <3>2, NoPlainCall, PlainConcat DEF Continue
  <2>3. \A u \in Tasks : mStatus'[u] = mStatus[u] \/ u \in everAdded
    BY <1>2, <1>9, <2>1 DEF Unhold, StateTyped
  <2> QED
    BY <1>1, <1>9, <2>1, <2>2, <2>3, OtherStep
       DEF Unhold, PlainOps, SlotOps, managerVars, historyVars
<1>10. CASE CancelForLayer(t)
  <2>1. Running("cancelForLayer", t) /\ t \in everAdded
    BY <1>3, <1>10 DEF CancelForLayer, PlainOps
  <2>2. PICK calls \in PlainCalls : agenda' = calls \o Tail(agenda)
    <3>1. <<Call("cancel", t)>> \in PlainCalls
      BY <2>1, OnePlainCall DEF PlainOps
    <3> QED
      BY <1>10, <3>1, NoPlainCall DEF CancelForLayer, Continue
  <2> QED
    BY <1>1, <1>10, <2>1, <2>2, OtherStep
       DEF CancelForLayer, PlainOps, SlotOps, taskVars, managerVars, historyVars
<1> QED
  BY <1>4, <1>5, <1>6, <1>7, <1>8, <1>9, <1>10

LEMMA FirstCovers ==
  ASSUME NEW calls \in Seq(Calls), NEW D, NEW S,
         calls # <<>>, calls[1] \in S, calls[1] \notin D
  PROVE  /\ Covered(calls, D, S)
         /\ \E k \in DOMAIN calls : calls[k] \in S
<1>1. Len(calls) \in Nat /\ DOMAIN calls = 1 .. Len(calls) /\ 1 \in DOMAIN calls
  OBVIOUS
<1>2. ASSUME NEW j \in DOMAIN calls, calls[j] \in D
      PROVE  1 \in 1 .. j - 1
  BY <1>1, <1>2
<1> QED
  BY <1>1, <1>2 DEF Covered

JoinOf(s, r, all) ==
  /\ all \in Seq(Calls)
  /\ s # <<>> => all # <<>> /\ all[1] = s[1] /\ 1 \in DOMAIN s
  /\ \A i \in DOMAIN s : \E k \in DOMAIN all : all[k] = s[i]
  /\ \A i \in DOMAIN r : \E k \in DOMAIN all : all[k] = r[i]
  /\ \A k \in DOMAIN all :
       \/ \E i \in DOMAIN s : all[k] = s[i]
       \/ \E i \in DOMAIN r : all[k] = r[i]

LEMMA Joined ==
  ASSUME NEW s \in Seq(Calls), NEW r \in Seq(Calls), NEW all, all = s \o r
  PROVE  JoinOf(s, r, all)
<1>1. /\ all \in Seq(Calls) /\ Len(s) \in Nat /\ Len(r) \in Nat
      /\ Len(all) = Len(s) + Len(r)
      /\ DOMAIN s = 1 .. Len(s) /\ DOMAIN r = 1 .. Len(r) /\ DOMAIN all = 1 .. Len(all)
      /\ \A i \in 1 .. Len(s) : all[i] = s[i]
      /\ \A i \in DOMAIN all : i > Len(s) => all[i] = r[i - Len(s)]
  OBVIOUS
<1>5. \A i \in DOMAIN s : \E k \in DOMAIN all : all[k] = s[i]
  BY <1>1
<1>2. s # <<>> => all # <<>> /\ all[1] = s[1] /\ 1 \in DOMAIN s
  OBVIOUS
<1>3. ASSUME NEW i \in DOMAIN r PROVE \E k \in DOMAIN all : all[k] = r[i]
  <2>1. i + Len(s) \in DOMAIN all /\ i + Len(s) > Len(s) /\ (i + Len(s)) - Len(s) = i
    BY <1>1
  <2>2. all[i + Len(s)] = r[i]
    BY <1>1, <2>1
  <2> QED
    BY <2>1, <2>2
<1>4. ASSUME NEW k \in DOMAIN all
      PROVE  \/ \E i \in DOMAIN s : all[k] = s[i]
             \/ \E i \in DOMAIN r : all[k] = r[i]
  <2>1. CASE k \in 1 .. Len(s)
    BY <1>1, <2>1
  <2>2. CASE k > Len(s)
    <3>1. k - Len(s) \in DOMAIN r
      BY <1>1, <2>2
    <3> QED
      BY <1>1, <2>2, <3>1
  <2>3. k \in 1 .. Len(s) \/ k > Len(s)
    BY <1>1
  <2> QED
    BY <2>1, <2>2, <2>3
<1> QED
  BY <1>1, <1>2, <1>3, <1>4, <1>5 DEF JoinOf

PlacesOf(s, r, all) ==
  /\ Len(s) \in Nat /\ Len(r) \in Nat
  /\ DOMAIN s = 1 .. Len(s) /\ Len(all) = Len(s) + Len(r)
  /\ DOMAIN all = 1 .. Len(s) + Len(r)
  /\ \A i \in 1 .. Len(s) : all[i] = s[i]
  /\ \A i \in 1 .. Len(r) : all[Len(s) + i] = r[i]

LEMMA JoinedPlaces ==
  ASSUME NEW s \in Seq(Calls), NEW r \in Seq(Calls), NEW all, all = s \o r
  PROVE  PlacesOf(s, r, all)
<1>1. /\ Len(s) \in Nat /\ Len(r) \in Nat /\ DOMAIN s = 1 .. Len(s)
      /\ Len(all) = Len(s) + Len(r) /\ DOMAIN all = 1 .. Len(s) + Len(r)
      /\ \A i \in 1 .. Len(s) : all[i] = s[i]
      /\ \A i \in DOMAIN all : i > Len(s) => all[i] = r[i - Len(s)]
  OBVIOUS
<1>2. ASSUME NEW i \in 1 .. Len(r) PROVE all[Len(s) + i] = r[i]
  <2>1. Len(s) + i \in DOMAIN all /\ Len(s) + i > Len(s) /\ (Len(s) + i) - Len(s) = i
    BY <1>1
  <2> QED
    BY <1>1, <2>1
<1> QED
  BY <1>1, <1>2 DEF PlacesOf

EachOf(op, ts, each) ==
  /\ each \in Seq(Calls)
  /\ \A i \in DOMAIN each : each[i].op = op /\ each[i].task \in ts
  /\ \A t \in ts : \E i \in DOMAIN each : each[i] = Call(op, t)

LEMMA EachIs ==
  ASSUME NEW op \in PlainOps \cup ForgettingOps \cup AddingOps,
         NEW ts \in SUBSET Tasks, NEW each, each = CallEach(op, ts)
  PROVE  EachOf(op, ts, each)
BY CallEachCalls DEF EachOf, Call

LEMMA CallIs ==
  ASSUME NEW t \in Tasks, NEW op \in PlainOps \cup ForgettingOps \cup AddingOps
  PROVE  /\ Call(op, t) \in Calls /\ Call(op, t).op = op /\ Call(op, t).task = t
         /\ <<Call(op, t)>> \in Seq(Calls) /\ <<Call(op, t)>>[1] = Call(op, t)
         /\ <<Call(op, t)>> # <<>> /\ DOMAIN <<Call(op, t)>> = {1}
<1>1. Call(op, t) \in Calls /\ Call(op, t).op = op /\ Call(op, t).task = t
  BY CallTyped DEF Call
<1> QED
  BY <1>1

\* A subtask is not its own parent, and has no subtasks.
LEMMA OneLevel ==
  ASSUME NEW t \in Tasks, Parent[t] # NoTask
  PROVE  /\ Parent[t] \in Tasks /\ Parent[t] # t /\ mSubTasks(t) = {}
         /\ t \in mSubTasks(Parent[t]) /\ ~ IsParent(t)
BY StructureAssumption DEF mSubTasks, IsParent

LEMMA CancelOrder ==
  ASSUME SaidInv, OrderInv, NEW t \in Tasks, Cancel(t)
  PROVE  OrderInv'
<1>1. Steady /\ StateTyped /\ TasksKnown /\ StatusesAgree
  BY MainSteady DEF MainStep, SaidInv, OrderInv
<1>2. /\ agenda # <<>> /\ Head(agenda) \in Calls
      /\ Head(agenda).op = "cancel" /\ Head(agenda).task = t
      /\ t \in everAdded
  BY HeadKnown DEF Cancel, EntryKnown
<1> DEFINE stop == Call("terminated", t)
           rest == Call("cancelRest", t)
<1>3. /\ stop \in Calls /\ stop.op = "terminated" /\ stop.task = t
      /\ rest \in Calls /\ rest.op = "cancelRest" /\ rest.task = t
      /\ <<stop>> \in PlainCalls /\ <<rest>> \in PlainCalls
      /\ <<stop>> \in Seq(Calls) /\ <<rest>> \in Seq(Calls)
      /\ <<stop>> # <<>> /\ <<stop>>[1] = stop /\ DOMAIN <<stop>> = {1}
      /\ <<rest>>[1] = rest /\ DOMAIN <<rest>> = {1}
  BY <1>2, CallIs, OnePlainCall DEF PlainOps
<1>4. \/ mOverallStatus[t] \in Finished /\ Continue(<<>>)
      \/ /\ mOverallStatus[t] \notin Finished
         /\ Continue((IF mStatus[t] \in {"Queued", "OnHold"} THEN <<stop>> ELSE <<>>)
                       \o <<rest>>)
  BY DEF Cancel
<1>5. UNCHANGED <<mStatus, mTasks, mTaskDependencies, added, everAdded, managerExists,
                  succeeded, events>>
  BY DEF Cancel, managerVars, historyVars
<1>6. ASSUME NEW u \in Tasks, u = t \/ Parent[u] = t, mOverallStatus[t] \in Finished
      PROVE  ~ Waiting(u)
  BY <1>1, <1>6 DEF StatusesAgree, StatusAgrees, AllSettled, mSubTasks, Settled, Waiting
<1>7. Waiting(t) => mStatus[t] \in {"Queued", "OnHold"}
  BY <1>1 DEF StatusesAgree, StatusAgrees, Waiting
<1>8. ASSUME NEW u \in Tasks,
             Head(agenda) \in Stops(u) \cup AddingStops(u) \cup AddingHarmless(u)
      PROVE  /\ Head(agenda) \in Stops(u) => u = t \/ Parent[u] = t
             /\ Head(agenda) \in AddingStops(u) => u = t
             /\ Head(agenda) \in AddingHarmless(u) => Parent[t] = u
  BY <1>2 DEF Stops, AddingStops, AddingHarmless
<1>9. ASSUME NEW u \in Tasks
      PROVE  /\ stop \in Stops(t) /\ stop \in AddingStops(t) /\ stop \notin AddingOther(t)
             /\ Parent[u] = t => rest \in Stops(u)
             /\ Parent[t] = u => stop \notin AddingOther(u) /\ rest \notin AddingOther(u)
  BY <1>3 DEF Stops, AddingStops, AddingHarmless, AddingOther
<1> HIDE DEF stop, rest
<1>10. CASE mOverallStatus[t] \in Finished
  <2>1. agenda' = <<>> \o Tail(agenda)
    BY <1>4, <1>10 DEF Continue
  <2>2. \A u \in Tasks : Waiting(u) => Head(agenda) \notin Stops(u) \cup AddingStops(u)
    BY <1>6, <1>8, <1>10
  <2>3. \A u \in Tasks : Covered(<<>>, AddingOther(u), AddingStops(u))
    BY DEF Covered
  <2> QED
    BY <1>1, <1>2, <1>5, <2>1, <2>2, <2>3, NoPlainCall, QuietStep
       DEF KeepsResolving, PlainCalls, PlainOps
<1>11. CASE mOverallStatus[t] \notin Finished
  <2>1. PICK first : first = IF mStatus[t] \in {"Queued", "OnHold"} THEN <<stop>> ELSE <<>>
    OBVIOUS
  <2>2. PICK calls : calls = first \o <<rest>>
    OBVIOUS
  <2>3. first \in PlainCalls /\ first \in Seq(Calls) /\ \A i \in DOMAIN first : first[i] = stop
    BY <1>3, <2>1, NoPlainCall
  <2>4. /\ calls \in Seq(Calls)
        /\ first # <<>> => calls # <<>> /\ calls[1] = first[1] /\ 1 \in DOMAIN first
        /\ \E k \in DOMAIN calls : calls[k] = rest
        /\ \A k \in DOMAIN calls : calls[k] = stop \/ calls[k] = rest
    <3>1. PICK last \in Seq(Calls) : last = <<rest>> /\ last[1] = rest /\ DOMAIN last = {1}
      BY <1>3
    <3>2. JoinOf(first, last, calls)
      BY <2>2, <2>3, <3>1, Joined
    <3> QED
      BY <2>3, <3>1, <3>2 DEF JoinOf
  <2>5. calls \in PlainCalls
    BY <1>3, <2>2, <2>3, PlainConcat
  <2>6. agenda' = calls \o Tail(agenda)
    BY <1>4, <1>11, <2>1, <2>2 DEF Continue
  <2>7. Waiting(t) => calls # <<>> /\ calls[1] = stop
    BY <1>3, <1>7, <2>1, <2>4
  <2>8. ASSUME NEW u \in Tasks, Waiting(u), Head(agenda) \in Stops(u)
        PROVE  \E k \in DOMAIN calls : calls[k] \in Stops(u)
    <3>1. CASE u = t
      BY <1>9, <2>4, <2>7, <2>8, <3>1
    <3>2. CASE Parent[u] = t
      BY <1>9, <2>4, <3>2
    <3> QED
      BY <1>8, <2>8, <3>1, <3>2
  <2>9. ASSUME NEW u \in Tasks, Waiting(u),
               Head(agenda) \in AddingStops(u) \cup AddingHarmless(u)
        PROVE  KeepsResolving(u, calls)
    <3>1. CASE u = t
      BY <1>9, <2>4, <2>7, <2>9, <3>1, FirstCovers DEF KeepsResolving
    <3>2. CASE Parent[t] = u /\ u # t
      <4>1. Covered(calls, AddingOther(u), AddingStops(u))
        BY <1>9, <2>4, <3>2, NoneToCover
      <4>2. Head(agenda) \notin AddingStops(u)
        BY <1>8, <3>2
      <4> QED
        BY <4>1, <4>2 DEF KeepsResolving
    <3> QED
      BY <1>8, <2>9, <3>1, <3>2
  <2> QED
    BY <1>1, <1>2, <1>5, <2>4, <2>5, <2>6, <2>8, <2>9, QuietStep DEF PlainCalls, PlainOps
<1> QED
  BY <1>10, <1>11

LEMMA CancelRestOrder ==
  ASSUME SaidInv, OrderInv, NEW t \in Tasks, CancelRest(t)
  PROVE  OrderInv'
<1>1. Steady /\ StateTyped /\ TasksKnown
  BY MainSteady DEF MainStep, SaidInv, OrderInv
<1>2. /\ agenda # <<>> /\ Head(agenda) \in Calls
      /\ Head(agenda).op = "cancelRest" /\ Head(agenda).task = t
      /\ t \in everAdded
  BY HeadKnown DEF CancelRest, EntryKnown
<1>3. mSubTasks(t) \in SUBSET Tasks /\ mSubTasks(t) \subseteq everAdded
  BY <1>1, <1>2 DEF TasksKnown, mSubTasks
<1> DEFINE end == Call("processSubTasksForTermination", t)
<1>4. /\ end \in Calls /\ end.op = "processSubTasksForTermination" /\ end.task = t
      /\ <<end>> \in PlainCalls
  BY <1>2, CallIs, OnePlainCall DEF PlainOps
<1> HIDE DEF end
<1>5. PICK first : first = IF mStatus[t] = "Terminated" THEN <<end>> ELSE <<>>
  OBVIOUS
<1>6. PICK each : each = CallEach("cancel", mSubTasks(t))
  OBVIOUS
<1>7. PICK calls : calls = first \o each
  OBVIOUS
<1>8. agenda' = calls \o Tail(agenda)
  BY <1>5, <1>6, <1>7 DEF CancelRest, Continue, end
<1>9. /\ first \in PlainCalls /\ each \in PlainCalls /\ calls \in PlainCalls
      /\ first \in Seq(Calls) /\ each \in Seq(Calls) /\ calls \in Seq(Calls)
      /\ \A i \in DOMAIN first : first[i] = end
  <2>1. first \in PlainCalls /\ \A i \in DOMAIN first : first[i] = end
    BY <1>4, <1>5, NoPlainCall
  <2>2. each \in PlainCalls
    BY <1>3, <1>6, EachPlainCall DEF PlainOps
  <2>3. calls \in PlainCalls
    BY <1>7, <2>1, <2>2, PlainConcat
  <2> QED
    BY <2>1, <2>2, <2>3 DEF PlainCalls
<1>10. JoinOf(first, each, calls)
  BY <1>7, <1>9, Joined
<1>11. /\ \A s \in mSubTasks(t) : \E i \in DOMAIN each : each[i] = Call("cancel", s)
       /\ \A i \in DOMAIN each : \E s \in mSubTasks(t) : each[i] = Call("cancel", s)
  BY <1>3, <1>6, CallEachCalls DEF PlainOps
<1>12. ASSUME NEW u \in Tasks, Head(agenda) \in Stops(u)
       PROVE  \E k \in DOMAIN calls : calls[k] \in Stops(u)
  <2>1. u \in mSubTasks(t)
    BY <1>2, <1>12 DEF Stops, mSubTasks
  <2>2. Call("cancel", u) \in Stops(u)
    BY CallIs DEF PlainOps, Stops
  <2> QED
    BY <1>10, <1>11, <2>1, <2>2 DEF JoinOf
<1>13. ASSUME NEW u \in Tasks, Head(agenda) \in AddingStops(u) \cup AddingHarmless(u)
       PROVE  KeepsResolving(u, calls)
  <2>1. Parent[t] = u /\ Head(agenda) \notin AddingStops(u)
    BY <1>2, <1>13 DEF AddingStops, AddingHarmless
  <2>2. mSubTasks(t) = {}
    BY <2>1, OneLevel, StructureAssumption
  <2>3. end \notin AddingOther(u)
    BY <1>4, <2>1 DEF AddingOther, AddingHarmless
  <2>4. \A k \in DOMAIN calls : calls[k] = end
    BY <1>9, <1>10, <1>11, <2>2 DEF JoinOf
  <2> QED
    BY <2>1, <2>3, <2>4, NoneToCover DEF KeepsResolving
<1>14. UNCHANGED <<mStatus, mTasks, mTaskDependencies, added, everAdded, managerExists,
                   succeeded, events>>
  BY DEF CancelRest, taskVars, managerVars, historyVars
<1> QED
  BY <1>1, <1>2, <1>8, <1>9, <1>12, <1>13, <1>14, QuietStep DEF PlainCalls, PlainOps

LEMMA SetTerminatedOrder ==
  ASSUME SaidInv, OrderInv, NEW t \in Tasks, SetTerminated(t)
  PROVE  OrderInv'
<1>1. Steady /\ StateTyped
  BY MainSteady DEF MainStep, SaidInv
<1>2. /\ agenda # <<>> /\ Head(agenda) \in Calls
      /\ Head(agenda).op = "terminated" /\ Head(agenda).task = t
      /\ t \in everAdded
  BY HeadKnown DEF SetTerminated, EntryKnown
<1> DEFINE end == Call("processSubTasksForTermination", t)
<1>3. /\ end \in Calls /\ end.op = "processSubTasksForTermination" /\ end.task = t
      /\ <<end>> \in PlainCalls /\ DOMAIN <<end>> = {1} /\ <<end>>[1] = end
  BY <1>2, CallIs, OnePlainCall DEF PlainOps
<1>4. agenda' = <<end>> \o Tail(agenda)
  BY DEF SetTerminated, Continue
<1> HIDE DEF end
<1>5. /\ mStatus'[t] = "Terminated" /\ \A u \in Tasks \ {t} : mStatus'[u] = mStatus[u]
      /\ UNCHANGED <<mTasks, mTaskDependencies, added, everAdded, managerExists,
                     succeeded, events>>
  BY <1>1 DEF SetTerminated, StateTyped, managerVars, historyVars
<1>6. ASSUME NEW u \in Tasks, Waiting(u)' PROVE u # t
  BY <1>5, <1>6 DEF Waiting
<1>7. ASSUME NEW u \in Tasks, u # t PROVE Head(agenda) \notin Stops(u) \cup AddingStops(u)
  BY <1>2, <1>7 DEF Stops, AddingStops
<1>8. ASSUME NEW u \in Tasks, u # t, Head(agenda) \in AddingHarmless(u)
      PROVE  KeepsResolving(u, <<end>>)
  <2>1. Parent[t] = u
    BY <1>2, <1>8 DEF AddingHarmless
  <2>2. end \notin AddingOther(u)
    BY <1>3, <2>1 DEF AddingOther, AddingHarmless
  <2> QED
    BY <1>3, <1>7, <1>8, <2>2, NoneToCover DEF KeepsResolving
<1>9. PICK calls \in PlainCalls : calls = <<end>>
  BY <1>3
<1> QED
  BY <1>1, <1>2, <1>4, <1>5, <1>6, <1>7, <1>8, <1>9, QuietStep DEF PlainCalls, PlainOps

LEMMA TerminationOrder ==
  ASSUME SaidInv, OrderInv, NEW t \in Tasks, ProcessSubTasksForTermination(t)
  PROVE  OrderInv'
<1>1. Steady
  BY MainSteady DEF MainStep
<1>2. /\ agenda # <<>> /\ Head(agenda) \in Calls
      /\ Head(agenda).op = "processSubTasksForTermination" /\ Head(agenda).task = t
      /\ t \in everAdded
  BY HeadKnown DEF ProcessSubTasksForTermination, EntryKnown
<1>3. UNCHANGED <<mStatus, mTasks, mTaskDependencies, added, everAdded, managerExists,
                  succeeded, events>>
  BY DEF ProcessSubTasksForTermination, managerVars, historyVars
<1>4. ASSUME NEW u \in Tasks
      PROVE  /\ Head(agenda) \notin Stops(u) \cup AddingStops(u)
             /\ Head(agenda) \in AddingHarmless(u) => Parent[t] = u
  BY <1>2 DEF Stops, AddingStops, AddingHarmless
<1>5. PICK signal : signal = statusChanged(t, "Terminated")
  OBVIOUS
<1>6. PICK end : end = <<Call("taskTerminated", t)>>
  OBVIOUS
<1>7. signal \in PlainCalls /\ end \in PlainCalls
  BY <1>2, <1>5, <1>6, PlainSignal, OnePlainCall DEF PlainOps, TaskStatus
<1>8. \/ agenda' = <<>> \o Tail(agenda)
      \/ agenda' = (signal \o end) \o Tail(agenda)
  BY <1>5, <1>6 DEF ProcessSubTasksForTermination, Continue
<1>9. CASE agenda' = <<>> \o Tail(agenda)
  <2>1. \A u \in Tasks : Covered(<<>>, AddingOther(u), AddingStops(u))
    BY DEF Covered
  <2> QED
    BY <1>1, <1>2, <1>3, <1>4, <1>9, <2>1, NoPlainCall, QuietStep
       DEF KeepsResolving, PlainCalls, PlainOps
<1>10. CASE agenda' = (signal \o end) \o Tail(agenda)
  <2>1. PICK calls : calls = signal \o end
    OBVIOUS
  <2>2. calls \in PlainCalls
    BY <1>7, <2>1, PlainConcat
  <2>3. ASSUME NEW u \in Tasks, Head(agenda) \in AddingHarmless(u)
        PROVE  KeepsResolving(u, calls)
    <3>1. Parent[t] = u /\ ~ IsParent(t)
      BY <1>4, <2>3, OneLevel, StructureAssumption DEF IsParent
    <3> DEFINE told == Slot("subTaskStatusChanged", t, "Terminated")
               toManager == IF t \in mTasks
                              THEN <<Slot("taskStatusChanged", t, "Terminated")>> ELSE <<>>
    <3>2. told \in AddingStops(u) /\ told \notin AddingOther(u)
      <4>1. told \in Calls
        BY DEF Slot, Calls, Entry, PlainOps, SlotOps, TaskStatus
      <4>2. /\ told.op = "subTaskStatusChanged" /\ told.status = "Terminated"
            /\ told.task = t
        BY DEF Slot
      <4> QED
        BY <3>1, <4>1, <4>2 DEF AddingStops, AddingOther
    <3>3. signal = <<told>> \o toManager
      BY <1>5, <3>1 DEF statusChanged
    <3>4. toManager \in Seq(Calls)
      <4>1. PICK e \in Calls : e = Slot("taskStatusChanged", t, "Terminated")
        BY DEF Slot, Calls, Entry, PlainOps, SlotOps, TaskStatus
      <4> QED
        BY <4>1
    <3> HIDE DEF told, toManager
    <3>5. signal # <<>> /\ signal[1] = told
      BY <3>2, <3>3, <3>4 DEF AddingStops
    <3>6. JoinOf(signal, end, calls)
      BY <1>7, <2>1, Joined DEF PlainCalls
    <3>7. calls # <<>> /\ calls[1] = told
      BY <3>5, <3>6 DEF JoinOf
    <3> QED
      BY <2>2, <3>2, <3>7, FirstCovers DEF KeepsResolving, PlainCalls
  <2> QED
    BY <1>1, <1>2, <1>3, <1>4, <1>10, <2>1, <2>2, <2>3, QuietStep DEF PlainCalls, PlainOps
<1> QED
  BY <1>8, <1>9, <1>10

LEMMA SubTaskOrder ==
  ASSUME SaidInv, OrderInv, NEW t \in Tasks, SubTaskStatusChanged(t)
  PROVE  OrderInv'
<1>1. Steady /\ TasksKnown
  BY MainSteady DEF MainStep, OrderInv
<1>2. /\ agenda # <<>> /\ Head(agenda) \in Calls
      /\ Head(agenda).op = "subTaskStatusChanged" /\ Head(agenda).task = t
      /\ t \in everAdded
  BY HeadKnown DEF SubTaskStatusChanged, EntryKnown
<1>3. PICK p : p = Parent[t]
  OBVIOUS
<1>4. p \in Tasks /\ p \in everAdded
  <2>1. 1 \in DOMAIN agenda /\ agenda[1] = Head(agenda)
    BY <1>2 DEF SaidInv, AgendaSaid
  <2>2. p \in Tasks
    BY <1>2, <1>3, <2>1 DEF SaidInv, AgendaSaid, EntryAgrees
  <2> QED
    BY <1>1, <1>2, <1>3, <2>2, StructureAssumption DEF TasksKnown, IsParent
<1>5. PICK status : status = Head(agenda).status
  OBVIOUS
<1>6. /\ \/ agenda' = <<>> \o Tail(agenda)
         \/ \E op \in {"processSubTasksForCompletion", "processSubTasksForTermination",
                       "processSubTasksForHold", "cancel"} :
              agenda' = <<Call(op, p)>> \o Tail(agenda)
      /\ UNCHANGED <<mStatus, managerVars, events, historyVars>>
  BY <1>3, Zenon DEF SubTaskStatusChanged, Continue
<1>7. status = "Terminated" /\ mStatus[p] = "Queued" =>
        agenda' = <<Call("cancel", p)>> \o Tail(agenda)
  BY <1>3, <1>5 DEF SubTaskStatusChanged, Continue, Finished
<1>8. ASSUME NEW u \in Tasks
      PROVE  /\ Head(agenda) \notin Stops(u) \cup AddingHarmless(u)
             /\ Head(agenda) \in AddingStops(u) => u = p /\ status = "Terminated"
  BY <1>2, <1>3, <1>5 DEF Stops, AddingStops, AddingHarmless
<1>9. UNCHANGED <<mStatus, mTasks, mTaskDependencies, added, everAdded, managerExists,
                  succeeded, events>>
  BY <1>6 DEF managerVars, historyVars
<1>10. PICK calls : calls \in PlainCalls /\ agenda' = calls \o Tail(agenda)
  <2>1. \A op \in {"processSubTasksForCompletion", "processSubTasksForTermination",
                   "processSubTasksForHold", "cancel"} : <<Call(op, p)>> \in PlainCalls
    BY <1>4, OnePlainCall DEF PlainOps
  <2> QED
    BY <1>6, <2>1, NoPlainCall
<1>11. CASE status = "Terminated" /\ mStatus[p] = "Queued"
  <2>1. PICK cancel : cancel = Call("cancel", p)
    OBVIOUS
  <2>2. /\ <<cancel>> \in PlainCalls /\ <<cancel>> \in Seq(Calls)
        /\ <<cancel>>[1] = cancel /\ <<cancel>> # <<>>
        /\ cancel \in AddingStops(p) /\ cancel \notin AddingOther(p)
    BY <1>4, <2>1, CallIs, OnePlainCall DEF AddingStops, AddingOther, PlainOps
  <2>3. KeepsResolving(p, <<cancel>>)
    BY <2>2, FirstCovers DEF KeepsResolving
  <2> QED
    BY <1>1, <1>2, <1>7, <1>8, <1>9, <1>11, <2>1, <2>2, <2>3, QuietStep
       DEF PlainCalls, PlainOps, SlotOps
<1>12. CASE ~ (status = "Terminated" /\ mStatus[p] = "Queued")
  <2>1. ASSUME NEW u \in Tasks, Waiting(u), Resolving(u)
        PROVE  Head(agenda) \notin AddingStops(u)
    <3>1. mStatus[u] = "Queued"
      BY <2>1 DEF OrderInv, WaitingSafe, ResolvedFirst
    <3> QED
      BY <1>8, <1>12, <3>1
  <2> QED
    BY <1>1, <1>2, <1>8, <1>9, <1>10, <2>1, QuietStep DEF PlainCalls, PlainOps, SlotOps
<1> QED
  BY <1>11, <1>12

LEMMA CancelDependentOrder ==
  ASSUME SaidInv, OrderInv, NEW t \in Tasks, CancelDependent(t)
  PROVE  OrderInv'
<1>1. Steady /\ TasksKnown
  BY MainSteady DEF MainStep, OrderInv
<1>2. /\ agenda # <<>> /\ Head(agenda) \in Calls
      /\ Head(agenda).op = "cancelDependent" /\ Head(agenda).task = t
  BY HeadKnown DEF CancelDependent
<1>3. UNCHANGED <<mStatus, mTasks, mTaskDependencies, added, everAdded, managerExists,
                  succeeded, events>>
  BY DEF CancelDependent, taskVars, managerVars, historyVars
<1>4. ASSUME NEW u \in Tasks
      PROVE  /\ Head(agenda) \notin AddingStops(u) \cup AddingHarmless(u)
             /\ Head(agenda) \in Stops(u) => u = t
  BY <1>2 DEF Stops, AddingStops, AddingHarmless
<1>5. CASE t \in mTasks
  <2>1. PICK cancel : cancel = Call("cancel", t)
    OBVIOUS
  <2>2. /\ <<cancel>> \in PlainCalls /\ DOMAIN <<cancel>> = {1} /\ <<cancel>>[1] = cancel
        /\ cancel \in Stops(t)
    BY <1>1, <1>5, <2>1, CallIs, OnePlainCall DEF Stops, PlainOps, TasksKnown
  <2>3. agenda' = <<cancel>> \o Tail(agenda)
    BY <1>5, <2>1 DEF CancelDependent, Continue
  <2>4. \E k \in DOMAIN <<cancel>> : <<cancel>>[k] \in Stops(t)
    BY <2>2
  <2> QED
    BY <1>1, <1>2, <1>3, <1>4, <2>2, <2>3, <2>4, QuietStep DEF PlainCalls, PlainOps
<1>6. CASE t \notin mTasks
  <2>1. agenda' = <<>> \o Tail(agenda)
    BY <1>6 DEF CancelDependent, Continue
  <2> QED
    BY <1>1, <1>2, <1>3, <1>4, <1>6, <2>1, NoPlainCall, QuietStep
       DEF PlainCalls, PlainOps, Waiting
<1> QED
  BY <1>5, <1>6

-----------------------------------------------------------------------------
(***************************************************************************)
(* Calls of QgsTaskManager                                                 *)
(***************************************************************************)

\* Something comes first that stops u, or nothing has to be preceded by it.
LEMMA CoverAfter ==
  ASSUME NEW s \in Seq(Calls), NEW r \in Seq(Calls), NEW all, all = s \o r,
         NEW D, NEW S, \A i \in DOMAIN s : s[i] \notin D,
         (\E i \in DOMAIN s : s[i] \in S) \/ (\A i \in DOMAIN r : r[i] \notin D)
  PROVE  Covered(all, D, S)
<1>1. /\ Len(s) \in Nat /\ Len(r) \in Nat /\ Len(all) = Len(s) + Len(r)
      /\ DOMAIN s = 1 .. Len(s) /\ DOMAIN r = 1 .. Len(r) /\ DOMAIN all = 1 .. Len(all)
      /\ \A i \in 1 .. Len(s) : all[i] = s[i]
      /\ \A i \in DOMAIN all : i > Len(s) => all[i] = r[i - Len(s)]
  OBVIOUS
<1>2. ASSUME NEW j \in DOMAIN all, all[j] \in D
      PROVE  \E k \in 1 .. j - 1 : all[k] \in S
  <2>1. j > Len(s) /\ j - Len(s) \in DOMAIN r /\ r[j - Len(s)] \in D
    <3>1. j > Len(s)
      BY <1>1, <1>2
    <3>2. j - Len(s) \in DOMAIN r
      BY <1>1, <3>1
    <3> QED
      BY <1>1, <1>2, <3>1, <3>2
  <2>2. PICK k \in DOMAIN s : s[k] \in S
    BY <2>1
  <2>3. k \in 1 .. j - 1 /\ all[k] \in S
    BY <1>1, <2>1, <2>2
  <2> QED
    BY <2>3
<1> QED
  BY <1>2 DEF Covered

LEMMA TaskStatusOrder ==
  ASSUME SaidInv, OrderInv, NEW t \in Tasks, TaskStatusChanged(t)
  PROVE  OrderInv'
<1>1. Steady /\ TasksKnown /\ StateTyped
  BY MainSteady DEF MainStep, OrderInv, SaidInv
<1>2. /\ agenda # <<>> /\ Head(agenda) \in Calls
      /\ Head(agenda).op = "taskStatusChanged" /\ Head(agenda).task = t
      /\ t \in everAdded
  BY HeadKnown DEF TaskStatusChanged, EntryKnown
<1>3. PICK st : st = Head(agenda).status
  OBVIOUS
<1>4. (st \in Finished => AllSettled(t)) /\ (st = "Complete" => WhollySucceeded(t))
  <2>1. 1 \in DOMAIN agenda /\ agenda[1] = Head(agenda)
    BY <1>2 DEF SaidInv, AgendaSaid
  <2> QED
    BY <1>2, <1>3, <2>1 DEF SaidInv, AgendaSaid, EntryAgrees, SlotOps
<1>5. PICK dependents : dependents = {u \in Tasks : t \in mTaskDependencies[u]}
  OBVIOUS
<1> DEFINE queue == Call("processQueue", t)
           clean == Call("cleanup", t)
<1>6. /\ queue \in Calls /\ queue.op = "processQueue" /\ queue.task = t
      /\ <<queue>> \in Seq(Calls) /\ DOMAIN <<queue>> = {1} /\ <<queue>>[1] = queue
      /\ clean \in Calls /\ clean.op = "cleanup" /\ clean.task = t
      /\ <<clean>> \in Seq(Calls) /\ DOMAIN <<clean>> = {1} /\ <<clean>>[1] = clean
  BY CallIs DEF PlainOps, ForgettingOps
<1>7. /\ \/ agenda' = <<>> \o Tail(agenda)
         \/ agenda' = ((IF st = "Terminated" THEN CallEach("cancelDependent", dependents)
                                             ELSE <<>>)
                        \o <<queue>> \o (IF st \in Finished THEN <<clean>> ELSE <<>>))
                      \o Tail(agenda)
      /\ UNCHANGED <<mStatus, mTasks, mTaskDependencies, added, everAdded, managerExists,
                     succeeded, events>>
  BY <1>3, <1>5 DEF TaskStatusChanged, Continue, taskVars, managerVars
<1> HIDE DEF queue, clean
<1>8. \A u \in Tasks : /\ Head(agenda) \notin Stops(u)
                       /\ Head(agenda) \notin AddingStops(u) \cup AddingHarmless(u)
  BY <1>2 DEF Stops, AddingStops, AddingHarmless
<1>9. EventsKnown' /\ TasksKnown' /\ AddedAfter'
  <2>1. EventsKnown'
    BY <1>1, <1>7, SameEventsKnown DEF SaidInv, OrderInv, StateTyped
  <2>2. TasksKnown'
    BY <1>1, <1>7 DEF TasksKnown, mSubTasks, IsParent
  <2> QED
    BY <1>7, <2>1, <2>2
       DEF OrderInv, AddedAfter, WhollySucceeded, AllDependencies, mSubTasks
<1>10. CASE agenda' = <<>> \o Tail(agenda)
  <2>0. PICK calls \in PlainCalls : calls = <<>>
    BY NoPlainCall
  <2>1. ASSUME NEW u \in Tasks PROVE StillWaiting(u) /\ KeepsStopping(u, calls)
    BY <1>7, <1>8, <2>0 DEF StillWaiting, KeepsStopping, Covered
  <2>2. calls \in Seq(Calls) /\ \A i \in DOMAIN calls : FALSE
    BY <2>0 DEF PlainCalls
  <2>3. Head(agenda).op \notin AddingOps \cup {"cleanupAll"}
    BY <1>2 DEF AddingOps
  <2>4. agenda' = calls \o Tail(agenda)
    BY <1>10, <2>0
  <2> QED
    BY <1>1, <1>2, <1>7, <1>8, <1>9, <2>1, <2>2, <2>3, <2>4, PushStep
<1>11. CASE agenda' # <<>> \o Tail(agenda)
  <2>1. PICK stops : stops = IF st = "Terminated" THEN CallEach("cancelDependent", dependents)
                                                  ELSE <<>>
    OBVIOUS
  <2>2. PICK last : last = IF st \in Finished THEN <<clean>> ELSE <<>>
    OBVIOUS
  <2>3. PICK first : first = stops \o <<queue>>
    OBVIOUS
  <2>4. PICK calls : calls = first \o last
    OBVIOUS
  <2>5. agenda' = calls \o Tail(agenda)
    BY <1>7, <1>11, <2>1, <2>2, <2>3, <2>4
  <2>6. /\ stops \in Seq(Calls)
        /\ \A i \in DOMAIN stops : stops[i].op = "cancelDependent"
        /\ st = "Terminated" => \A u \in dependents :
             \E i \in DOMAIN stops : stops[i] = Call("cancelDependent", u)
    <3>1. dependents \in SUBSET Tasks
      BY <1>5
    <3>2. CASE st = "Terminated"
      <4>1. EachOf("cancelDependent", dependents, stops)
        BY <2>1, <3>1, <3>2, EachIs DEF PlainOps
      <4> QED
        BY <4>1 DEF EachOf
    <3>3. CASE st # "Terminated"
      BY <2>1, <3>3
    <3> QED
      BY <3>2, <3>3
  <2>7. /\ last \in Seq(Calls)
        /\ \A i \in DOMAIN last : last[i] = clean /\ st \in Finished
    BY <1>6, <2>2
  <2>8. PICK one \in Seq(Calls) : one = <<queue>> /\ DOMAIN one = {1} /\ one[1] = queue
    BY <1>6
  <2>9. JoinOf(stops, one, first)
    BY <2>3, <2>6, <2>8, Joined
  <2>10. /\ first \in Seq(Calls)
         /\ \A i \in DOMAIN first : \/ \E k \in DOMAIN stops : first[i] = stops[k]
                                    \/ first[i] = queue
    BY <2>8, <2>9 DEF JoinOf
  <2>11. JoinOf(first, last, calls)
    BY <2>4, <2>7, <2>10, Joined
  <2>12. \A i \in DOMAIN first : first[i].op \in {"cancelDependent", "processQueue"}
    BY <1>6, <2>6, <2>10
  <2>13. ASSUME NEW i \in DOMAIN calls
         PROVE  calls[i].op \in LocalOps /\ EntryKnown(calls[i])
    <3>1. \/ \E k \in DOMAIN stops : calls[i] = stops[k]
          \/ calls[i] = queue
          \/ calls[i] = clean /\ st \in Finished
      <4>1. (\E k \in DOMAIN first : calls[i] = first[k])
            \/ (\E k \in DOMAIN last : calls[i] = last[k])
        BY <2>11 DEF JoinOf
      <4>2. CASE \E k \in DOMAIN first : calls[i] = first[k]
        BY <2>10, <4>2
      <4>3. CASE \E k \in DOMAIN last : calls[i] = last[k]
        BY <2>7, <4>3
      <4> QED
        BY <4>1, <4>2, <4>3
    <3>2. calls[i].op = "cancelDependent" \/ calls[i] = queue
          \/ (calls[i] = clean /\ st \in Finished)
      BY <2>6, <3>1
    <3> QED
      BY <1>2, <1>4, <1>6, <3>2 DEF EntryKnown, LocalOps, PlainOps, AddingOps
  <2>14. ASSUME NEW u \in Tasks, NEW x \in mTaskDependencies[u], ~ WhollySucceeded(x)
         PROVE  Covered(calls, Forgets(x), Stops(u))
    <3>1. \A i \in DOMAIN first : first[i] \notin Forgets(x)
      BY <2>12 DEF Forgets
    <3>2. CASE x # t \/ st \notin Finished
      <4>1. \A i \in DOMAIN last : last[i] \notin Forgets(x)
        BY <1>6, <2>7, <3>2 DEF Forgets
      <4> QED
        BY <2>4, <2>7, <2>10, <3>1, <4>1, CoverAfter
    <3>3. CASE x = t /\ st \in Finished
      <4>1. st = "Terminated" /\ u \in dependents
        BY <1>4, <1>5, <2>14, <3>3 DEF Finished
      <4>2. PICK k \in DOMAIN stops : stops[k] = Call("cancelDependent", u)
        BY <2>6, <4>1
      <4>3. stops[k] \in Stops(u)
        BY <4>2, CallIs DEF Stops, PlainOps
      <4>4. \E i \in DOMAIN first : first[i] \in Stops(u)
        BY <2>9, <4>3 DEF JoinOf
      <4> QED
        BY <2>4, <2>7, <2>10, <3>1, <4>4, CoverAfter
    <3> QED
      BY <3>2, <3>3
  <2>15. \A u \in Tasks : StillWaiting(u) /\ KeepsStopping(u, calls)
    BY <1>7, <1>8, <2>14 DEF StillWaiting, KeepsStopping
  <2>16. Head(agenda).op \notin AddingOps \cup {"cleanupAll"} /\ calls \in Seq(Calls)
    BY <1>2, <2>11 DEF AddingOps, JoinOf
  <2> QED
    BY <1>1, <1>2, <1>7, <1>8, <1>9, <2>5, <2>13, <2>15, <2>16, PushStep
<1> QED
  BY <1>10, <1>11

LEMMA NoCallPushed ==
  ASSUME agenda' = <<>> \o Tail(agenda)
  PROVE  \E calls \in Seq(Calls) :
           /\ agenda' = calls \o Tail(agenda)
           /\ \A i \in DOMAIN calls : FALSE
           /\ \A D, S : Covered(calls, D, S)
<1>1. PICK calls \in Seq(Calls) : calls = <<>>
  BY NoPlainCall DEF PlainCalls
<1>2. \A i \in DOMAIN calls : FALSE
  BY <1>1
<1>3. \A D, S : Covered(calls, D, S)
  BY <1>2 DEF Covered
<1> QED
  BY <1>1, <1>2, <1>3

\* A list of two calls.
PairOf(a, b, calls) ==
  /\ calls \in Seq(Calls) /\ calls # <<>> /\ calls[1] = a
  /\ \A i \in DOMAIN calls : calls[i] = a \/ calls[i] = b
  /\ \E i \in DOMAIN calls : calls[i] = b

LEMMA PairIs ==
  ASSUME NEW a \in Calls, NEW b \in Calls, NEW calls, calls = <<a, b>>
  PROVE  PairOf(a, b, calls)
<1>1. /\ calls \in Seq(Calls) /\ calls # <<>> /\ DOMAIN calls = {1, 2}
      /\ calls[1] = a /\ calls[2] = b
  OBVIOUS
<1> QED
  BY <1>1 DEF PairOf

LEMMA ProcessQueueOrder ==
  ASSUME SaidInv, OrderInv, NEW t \in Tasks, ProcessQueue(t)
  PROVE  OrderInv'
<1>1. Steady /\ TasksKnown /\ StateTyped /\ StatusesAgree
  BY MainSteady DEF MainStep, OrderInv, SaidInv
<1>2. /\ agenda # <<>> /\ Head(agenda) \in Calls
      /\ Head(agenda).op = "processQueue" /\ Head(agenda).task = t
      /\ agenda \in Seq(Calls)
  BY HeadKnown DEF ProcessQueue, SaidInv, AgendaSaid
<1>3. /\ \E ready \in SUBSET mTasks :
           /\ added' = added \cup ready
           /\ \A u \in ready : /\ mStatus[u] = "Queued" /\ u \notin added
                               /\ dependenciesSatisfied(u)
      /\ agenda' = <<>> \o Tail(agenda)
      /\ UNCHANGED <<mStatus, mTasks, mTaskDependencies, everAdded, managerExists,
                     succeeded, events>>
  BY DEF ProcessQueue, Continue, taskVars, historyVars
<1>4. PICK ready \in SUBSET mTasks :
        /\ added' = added \cup ready
        /\ \A u \in ready : /\ mStatus[u] = "Queued" /\ u \notin added
                            /\ dependenciesSatisfied(u)
  BY <1>3
<1>5. \A u \in Tasks : /\ Head(agenda) \notin Stops(u)
                       /\ Head(agenda) \notin AddingStops(u) \cup AddingHarmless(u)
  BY <1>2 DEF Stops, AddingStops, AddingHarmless
<1>6. EventsKnown' /\ TasksKnown'
  <2>1. EventsKnown'
    BY <1>1, <1>3, SameEventsKnown DEF SaidInv, OrderInv, StateTyped
  <2>2. TasksKnown'
    BY <1>1, <1>3, <1>4 DEF TasksKnown, mSubTasks, IsParent
  <2> QED
    BY <2>1, <2>2
<1>7. ASSUME NEW u \in ready, NEW d \in AllDependencies(u)
      PROVE  WhollySucceeded(d)
  <2>1. u \in Tasks /\ Waiting(u)
    BY <1>1, <1>4 DEF StateTyped, Waiting
  <2>2. ResolvedFirst(u) /\ DependenciesKept(u)
    BY <2>1 DEF OrderInv, WaitingSafe
  <2>3. ~ Resolving(u)
    <3>1. Head(agenda) \in AddingOther(u)
      BY <1>2, <1>5, <2>1 DEF AddingOther
    <3> QED
      BY <1>2, <2>2, <3>1, HeadUncovered DEF ResolvedFirst
  <2>4. d \in mTaskDependencies[u] \/ WhollySucceeded(d)
    BY <1>7, <2>2, <2>3 DEF DependenciesKept
  <2>5. CASE d \in mTaskDependencies[u]
    <3>1. d \in Tasks /\ mOverallStatus[d] = "Complete"
      BY <1>1, <1>4, <2>1, <2>5 DEF StateTyped, dependenciesSatisfied
    <3> QED
      BY <1>1, <3>1 DEF StatusesAgree, StatusAgrees
  <2> QED
    BY <2>4, <2>5
<1>8. AddedAfter'
  <2>1. ASSUME NEW u \in added', NEW d \in AllDependencies(u)
        PROVE  WhollySucceeded(d)
    BY <1>4, <1>7, <2>1 DEF OrderInv, AddedAfter
  <2> QED
    BY <1>3, <2>1 DEF AddedAfter, WhollySucceeded, AllDependencies, mSubTasks
<1>9. PICK calls \in Seq(Calls) :
        /\ agenda' = calls \o Tail(agenda)
        /\ \A i \in DOMAIN calls : FALSE
        /\ \A D, S : Covered(calls, D, S)
  BY <1>3, NoCallPushed
<1>10. \A u \in Tasks : StillWaiting(u) /\ KeepsStopping(u, calls)
  BY <1>3, <1>5, <1>9 DEF StillWaiting, KeepsStopping
<1>11. Head(agenda).op \notin AddingOps \cup {"cleanupAll"}
  BY <1>2 DEF AddingOps
<1> QED
  BY <1>1, <1>2, <1>3, <1>5, <1>6, <1>8, <1>9, <1>10, <1>11, PushStep

\* A task that is forgotten while another waits for it has succeeded.
LEMMA ForgottenSucceeded ==
  ASSUME SaidInv, OrderInv, NEW t \in Tasks, NEW u \in Tasks, Waiting(u),
         Running("cleanup", t) \/ Running("forget", t),
         t \in mTaskDependencies[u]
  PROVE  WhollySucceeded(t)
<1>1. /\ agenda # <<>> /\ Head(agenda) \in Calls /\ agenda \in Seq(Calls)
      /\ Head(agenda).op \in {"cleanup", "forget"} /\ Head(agenda).task = t
  BY HeadKnown DEF SaidInv, AgendaSaid
<1>2. Head(agenda) \in Forgets(t)
  BY <1>1 DEF Forgets
<1>3. ~ Covered(agenda, Forgets(t), Stops(u))
  BY <1>1, <1>2, HeadUncovered
<1> QED
  BY <1>3 DEF OrderInv, WaitingSafe, StoppedBefore

LEMMA CleanupOrder ==
  ASSUME SaidInv, OrderInv, NEW t \in Tasks, CleanupAndDeleteTask(t)
  PROVE  OrderInv'
<1>1. Steady /\ TasksKnown /\ StateTyped
  BY MainSteady DEF MainStep, OrderInv, SaidInv
<1>2. /\ agenda # <<>> /\ Head(agenda) \in Calls
      /\ Head(agenda).op = "cleanup" /\ Head(agenda).task = t
      /\ t \in everAdded /\ AllSettled(t)
      /\ Running("cleanup", t)
  BY HeadKnown DEF CleanupAndDeleteTask, EntryKnown
<1>3. /\ mTasks' \subseteq mTasks /\ mTasks \ mTasks' \subseteq {t}
      /\ \A u \in Tasks : u \in mTasks' => mTaskDependencies'[u] = mTaskDependencies[u]
      /\ events' = events \/ events' = events \o deleteLater(t)
      /\ UNCHANGED <<mStatus, added, everAdded, managerExists, succeeded>>
  <2>1. CASE t \notin mTasks
    BY <2>1 DEF CleanupAndDeleteTask, historyVars
  <2>2. CASE t \in mTasks
    BY <1>1, <2>2 DEF CleanupAndDeleteTask, historyVars, StateTyped
  <2> QED
    BY <2>1, <2>2
<1> DEFINE cancel == Call("cancel", t)
           forget == Call("forget", t)
<1>4. /\ cancel \in Calls /\ cancel.op = "cancel" /\ cancel.task = t
      /\ forget \in Calls /\ forget.op = "forget" /\ forget.task = t
  BY CallIs DEF PlainOps, ForgettingOps
<1>5. \/ Continue(<<>>) \/ Continue(<<forget>>) \/ Continue(<<cancel, forget>>)
  BY DEF CleanupAndDeleteTask
<1> HIDE DEF cancel, forget
<1>6. PICK calls \in Seq(Calls) :
        /\ agenda' = calls \o Tail(agenda)
        /\ \A i \in DOMAIN calls : calls[i] = cancel \/ calls[i] = forget
  <2>1. CASE Continue(<<>>)
    <3>1. agenda' = <<>> \o Tail(agenda)
      BY <2>1 DEF Continue
    <3> QED
      BY <3>1, NoCallPushed
  <2>2. CASE Continue(<<forget>>)
    <3>1. PICK calls : calls = <<forget>>
      OBVIOUS
    <3>2. calls \in Seq(Calls) /\ \A i \in DOMAIN calls : calls[i] = forget
      BY <1>4, <3>1
    <3>3. agenda' = calls \o Tail(agenda)
      BY <2>2, <3>1 DEF Continue
    <3> QED
      BY <3>2, <3>3
  <2>3. CASE Continue(<<cancel, forget>>)
    <3>1. PICK calls : calls = <<cancel, forget>>
      OBVIOUS
    <3>2. agenda' = calls \o Tail(agenda) /\ PairOf(cancel, forget, calls)
      BY <1>4, <2>3, <3>1, PairIs DEF Continue
    <3> QED
      BY <3>2 DEF PairOf
  <2> QED
    BY <1>5, <2>1, <2>2, <2>3
<1>7. \A i \in DOMAIN calls : calls[i].op \in LocalOps /\ EntryKnown(calls[i])
  BY <1>2, <1>4, <1>6 DEF EntryKnown, LocalOps, PlainOps, AddingOps
<1>8. \A u \in Tasks : /\ Head(agenda) \notin Stops(u)
                       /\ Head(agenda) \notin AddingStops(u) \cup AddingHarmless(u)
  BY <1>2 DEF Stops, AddingStops, AddingHarmless
<1>9. ASSUME NEW u \in Tasks, Waiting(u), Waiting(u)'
      PROVE  StillWaiting(u) /\ KeepsStopping(u, calls)
  <2>1. mTaskDependencies'[u] = mTaskDependencies[u]
    BY <1>3, <1>9 DEF Waiting
  <2>2. ASSUME NEW x \in mTaskDependencies[u]
        PROVE  WhollySucceeded(x) \/ Covered(calls, Forgets(x), Stops(u))
    <3>1. CASE x = t
      BY <1>2, <1>9, <2>2, <3>1, ForgottenSucceeded
    <3>2. CASE x # t
      BY <1>4, <1>6, <3>2, NoneToCover DEF Forgets
    <3> QED
      BY <3>1, <3>2
  <2> QED
    BY <1>8, <2>1, <2>2 DEF StillWaiting, KeepsStopping
<1>10. EventsKnown' /\ TasksKnown' /\ AddedAfter'
  <2>1. EventsKnown'
    BY <1>1, <1>2, <1>3, SameEventsKnown DEF SaidInv, OrderInv, StateTyped
  <2>2. TasksKnown'
    BY <1>1, <1>3 DEF TasksKnown, mSubTasks, IsParent
  <2> QED
    BY <1>3, <2>1, <2>2
       DEF OrderInv, AddedAfter, WhollySucceeded, AllDependencies, mSubTasks
<1>11. Head(agenda).op \notin AddingOps \cup {"cleanupAll"}
  BY <1>2 DEF AddingOps
<1>12. \A v \in mTasks \ mTasks' : AllSettled(v)
  BY <1>2, <1>3
<1> QED
  BY <1>1, <1>2, <1>3, <1>6, <1>7, <1>8, <1>9, <1>10, <1>11, <1>12, PushStep

LEMMA ForgetOrder ==
  ASSUME SaidInv, OrderInv, NEW t \in Tasks, ForgetDependency(t)
  PROVE  OrderInv'
<1>1. Steady /\ TasksKnown /\ StateTyped
  BY MainSteady DEF MainStep, OrderInv, SaidInv
<1>2. /\ agenda # <<>> /\ Head(agenda) \in Calls
      /\ Head(agenda).op = "forget" /\ Head(agenda).task = t
      /\ Running("forget", t)
  BY HeadKnown DEF ForgetDependency
<1>3. /\ mTaskDependencies' = [u \in Tasks |-> mTaskDependencies[u] \ {t}]
      /\ agenda' = <<>> \o Tail(agenda)
      /\ UNCHANGED <<mStatus, mTasks, added, everAdded, managerExists, succeeded, events>>
  BY DEF ForgetDependency, Continue, taskVars, historyVars
<1>4. PICK calls \in Seq(Calls) :
        /\ agenda' = calls \o Tail(agenda)
        /\ \A i \in DOMAIN calls : FALSE
        /\ \A D, S : Covered(calls, D, S)
  BY <1>3, NoCallPushed
<1>5. \A u \in Tasks : /\ Head(agenda) \notin Stops(u)
                       /\ Head(agenda) \notin AddingStops(u) \cup AddingHarmless(u)
  BY <1>2 DEF Stops, AddingStops, AddingHarmless
<1>6. ASSUME NEW u \in Tasks, Waiting(u)
      PROVE  StillWaiting(u) /\ KeepsStopping(u, calls)
  <2>1. mTaskDependencies'[u] = mTaskDependencies[u] \ {t}
    BY <1>3
  <2>2. t \in mTaskDependencies[u] => WhollySucceeded(t)
    BY <1>2, <1>6, ForgottenSucceeded
  <2> QED
    BY <1>4, <1>5, <2>1, <2>2 DEF StillWaiting, KeepsStopping
<1>7. EventsKnown' /\ TasksKnown' /\ AddedAfter'
  <2>1. EventsKnown'
    BY <1>1, <1>3, SameEventsKnown DEF SaidInv, OrderInv, StateTyped
  <2>2. TasksKnown'
    BY <1>1, <1>3 DEF TasksKnown, mSubTasks, IsParent
  <2> QED
    BY <1>3, <2>1, <2>2
       DEF OrderInv, AddedAfter, WhollySucceeded, AllDependencies, mSubTasks
<1>8. Head(agenda).op \notin AddingOps \cup {"cleanupAll"}
  BY <1>2 DEF AddingOps
<1> QED
  BY <1>1, <1>2, <1>3, <1>4, <1>5, <1>6, <1>7, <1>8, PushStep

\* A subtask is inserted, or the dependencies of a parent are recorded.
LEMMA RecordOrder ==
  ASSUME SaidInv, OrderInv, NEW t \in Tasks, AddSubTask(t) \/ ResolveDependencies(t)
  PROVE  OrderInv'
<1>1. /\ Steady /\ TasksKnown /\ StateTyped /\ agenda \in Seq(Calls)
      /\ AgendaKnown /\ AgendaOrdered
  BY MainSteady DEF MainStep, OrderInv, SaidInv, AgendaSaid
<1>2. PICK op \in AddingOps :
        /\ Running(op, t)
        /\ op = "addSubTask" => t \in mTasks'
  BY DEF AddSubTask, ResolveDependencies, AddingOps
<1>3. /\ agenda # <<>> /\ Head(agenda) \in Calls
      /\ Head(agenda).op = op /\ Head(agenda).task = t
      /\ t \in everAdded /\ managerExists
      /\ op = "addSubTask" => ~ IsParent(t)
      /\ Head(agenda) = agenda[1] /\ 1 \in DOMAIN agenda
  <2>1. /\ agenda # <<>> /\ Head(agenda) \in Calls
        /\ Head(agenda).op = op /\ Head(agenda).task = t /\ EntryKnown(Head(agenda))
    BY <1>2, HeadKnown
  <2>2. Head(agenda) = agenda[1] /\ 1 \in DOMAIN agenda
    BY <1>1, <2>1
  <2> QED
    BY <2>1, <2>2 DEF EntryKnown, AddingOps
<1>4. ASSUME NEW j \in DOMAIN agenda, j > 1
      PROVE  /\ agenda[j].op \in AddingOps \cup {"processQueue"}
             /\ op = "resolveDependencies" => agenda[j].op = "processQueue"
  BY <1>1, <1>3, <1>4 DEF AgendaOrdered, AddingOps
<1>5. /\ mTasks \subseteq mTasks' /\ mTasks' \subseteq mTasks \cup {t}
      /\ mTaskDependencies'[t] = AllDependencies(t)
      /\ \A u \in Tasks \ {t} : mTaskDependencies'[u] = mTaskDependencies[u]
      /\ Continue(<<>>) \/ Continue(<<Call("cancel", t)>>)
      /\ UNCHANGED <<mStatus, added, everAdded, managerExists, succeeded, events>>
  BY <1>1 DEF AddSubTask, ResolveDependencies, RecordDependencies, StateTyped,
              taskVars, historyVars
<1>6. PICK calls \in Seq(Calls) :
        /\ agenda' = calls \o Tail(agenda)
        /\ \A i \in DOMAIN calls : calls[i].op = "cancel" /\ calls[i].task = t
  <2>1. CASE Continue(<<>>)
    <3>1. agenda' = <<>> \o Tail(agenda)
      BY <2>1 DEF Continue
    <3> QED
      BY <3>1, NoCallPushed
  <2>2. CASE Continue(<<Call("cancel", t)>>)
    <3>1. PICK calls : calls = <<Call("cancel", t)>>
      OBVIOUS
    <3>2. calls \in Seq(Calls) /\ \A i \in DOMAIN calls : calls[i] = Call("cancel", t)
      BY <3>1, CallIs DEF PlainOps
    <3>3. agenda' = calls \o Tail(agenda)
      BY <2>2, <3>1 DEF Continue
    <3> QED
      BY <3>2, <3>3 DEF Call
  <2> QED
    BY <1>5, <2>1, <2>2
<1>7. Replaced(agenda, calls, agenda')
  BY <1>1, <1>3, <1>6, RestStays
<1>8. AgendaKnown' /\ AgendaOrdered'
  <2>1. \A i \in DOMAIN calls : calls[i].op \in LocalOps /\ EntryKnown(calls[i])
    BY <1>3, <1>6 DEF EntryKnown, LocalOps, PlainOps, AddingOps
  <2> QED
    BY <1>1, <1>3, <1>5, <1>6, <2>1, KnownPush
<1>9. EventsKnown' /\ TasksKnown' /\ AddedAfter'
  <2>1. EventsKnown'
    BY <1>1, <1>5, SameEventsKnown DEF SaidInv, OrderInv, StateTyped
  <2>2. TasksKnown'
    BY <1>1, <1>3, <1>5 DEF TasksKnown, mSubTasks, IsParent
  <2> QED
    BY <1>5, <2>1, <2>2
       DEF OrderInv, AddedAfter, WhollySucceeded, AllDependencies, mSubTasks
<1>10. NotForgotten'
  <2>1. ASSUME NEW v \in everAdded' \ mTasks'
        PROVE  \/ AllSettled(v)'
               \/ \E i \in DOMAIN agenda' :
                    agenda'[i].op = "addSubTask" /\ agenda'[i].task = v
    <3>1. v \in everAdded \ mTasks /\ (op = "addSubTask" => v # t)
      BY <1>2, <1>5, <2>1
    <3>2. CASE AllSettled(v)
      BY <1>1, <3>1, <3>2, SteadyAll DEF StateTyped
    <3>3. CASE ~ AllSettled(v)
      <4>1. PICK i \in DOMAIN agenda : agenda[i].op = "addSubTask" /\ agenda[i].task = v
        BY <3>1, <3>3 DEF OrderInv, NotForgotten
      <4>2. agenda[i] # Head(agenda)
        BY <1>3, <3>1, <4>1
      <4> QED
        BY <1>7, <4>1, <4>2 DEF Replaced
    <3> QED
      BY <3>2, <3>3
  <2> QED
    BY <2>1 DEF NotForgotten
<1>11. \A j \in DOMAIN agenda' : agenda'[j].op \in AddingOps \cup {"processQueue", "cancel"}
  BY <1>4, <1>6, <1>7, SMTT(20) DEF Replaced
<1>12. ASSUME NEW u \in Tasks, Resolving(u)'
       PROVE  Resolving(u) /\ u # t /\ op = "addSubTask"
  <2>1. PICK j \in DOMAIN agenda' :
          agenda'[j].op = "resolveDependencies" /\ agenda'[j].task = u
    BY <1>12 DEF Resolving
  <2>2. PICK i \in DOMAIN agenda : i > 1 /\ agenda'[j] = agenda[i]
    BY <1>6, <1>7, <2>1 DEF Replaced
  <2>3. op = "addSubTask"
    BY <1>2, <1>4, <2>1, <2>2 DEF AddingOps
  <2>4. IsParent(u)
    BY <1>1, <2>1, <2>2 DEF AgendaKnown, EntryKnown
  <2> QED
    BY <1>3, <2>1, <2>2, <2>3, <2>4 DEF Resolving
<1>13. ASSUME NEW u \in Tasks, u # t, Resolving(u)
       PROVE  Resolving(u)'
  <2>1. PICK i \in DOMAIN agenda :
          agenda[i].op = "resolveDependencies" /\ agenda[i].task = u
    BY <1>13 DEF Resolving
  <2>2. PICK j \in DOMAIN agenda' : agenda'[j] = agenda[i]
    BY <1>3, <1>7, <1>13, <2>1 DEF Replaced
  <2> QED
    BY <2>1, <2>2 DEF Resolving
<1>14. ASSUME NEW u \in Tasks, Waiting(u)'
       PROVE  (StoppedBefore(u) /\ ResolvedFirst(u) /\ DependenciesKept(u))'
  <2>1. u # t => Waiting(u) /\ ResolvedFirst(u) /\ DependenciesKept(u)
    BY <1>5, <1>14 DEF Waiting, OrderInv, WaitingSafe
  <2>2. StoppedBefore(u)'
    <3>1. \A x : Covered(agenda', Forgets(x), Stops(u))
      BY <1>11, NoneToCover DEF Forgets, AddingOps
    <3>2. Covered(agenda', ForgetsAll, Stops(u))
      BY <1>11, NoneToCover DEF ForgetsAll, AddingOps
    <3> QED
      BY <1>3, <1>5, <3>1, <3>2 DEF StoppedBefore, Covered
  <2>3. ASSUME Resolving(u)'
        PROVE  /\ mStatus'[u] = "Queued"
               /\ Covered(agenda', AddingOther(u), AddingStops(u))
    <3>1. Resolving(u) /\ u # t /\ op = "addSubTask"
      BY <1>12, <2>3
    <3>2. mStatus[u] = "Queued" /\ Covered(agenda, AddingOther(u), AddingStops(u))
      BY <2>1, <3>1 DEF ResolvedFirst
    <3>3. Head(agenda) \notin AddingOther(u) /\ Head(agenda) \notin AddingStops(u)
      BY <1>1, <1>3, <3>1, <3>2, HeadUncovered DEF AddingStops
    <3>4. Parent[t] = u
      BY <1>3, <3>3 DEF AddingOther, AddingHarmless
    <3>5. ASSUME NEW i \in DOMAIN calls PROVE calls[i] \notin AddingOther(u)
      BY <1>6, <3>4 DEF AddingOther, AddingHarmless
    <3>6. Covered(calls, AddingOther(u), AddingStops(u))
      BY <3>5, NoneToCover
    <3>7. Covered(agenda', AddingOther(u), AddingStops(u))
      BY <1>1, <1>3, <1>6, <3>2, <3>3, <3>6, CoverPush
    <3> QED
      BY <1>5, <3>2, <3>7
  <2>4. DependenciesKept(u)'
    <3>1. CASE u = t
      BY <1>5, <3>1 DEF DependenciesKept, AllDependencies, mSubTasks
    <3>2. CASE u # t
      BY <1>5, <1>13, <2>1, <3>2
         DEF DependenciesKept, AllDependencies, mSubTasks, WhollySucceeded
    <3> QED
      BY <3>1, <3>2
  <2> QED
    BY <2>2, <2>3, <2>4 DEF ResolvedFirst, Covered
<1> QED
  BY <1>8, <1>9, <1>10, <1>14 DEF OrderInv, WaitingSafe

\* When everything is cleaned up no task waits any more.
LEMMA CleanupAllOrder ==
  ASSUME SaidInv, OrderInv, NEW t \in Tasks, CleanupAll(t)
  PROVE  OrderInv'
<1>1. /\ Steady /\ TasksKnown /\ StateTyped /\ agenda \in Seq(Calls) /\ AgendaOrdered
      /\ NotForgotten /\ WaitingSafe
  BY MainSteady DEF MainStep, OrderInv, SaidInv, AgendaSaid
<1>2. /\ agenda # <<>> /\ Head(agenda) \in Calls
      /\ Head(agenda).op = "cleanupAll"
      /\ Head(agenda) = agenda[1] /\ DOMAIN agenda = {1}
  <2>1. agenda # <<>> /\ Head(agenda) \in Calls /\ Head(agenda).op = "cleanupAll"
    BY HeadKnown DEF CleanupAll
  <2>2. Head(agenda) = agenda[1] /\ DOMAIN agenda = 1 .. Len(agenda) /\ 1 \in DOMAIN agenda
    BY <1>1, <2>1
  <2>3. Len(agenda) = 1
    BY <1>1, <2>1, <2>2 DEF AgendaOrdered
  <2> QED
    BY <2>1, <2>2, <2>3
<1>3. UNCHANGED <<mStatus, mTasks, mTaskDependencies, added, everAdded, succeeded, events>>
  BY DEF CleanupAll, taskVars, historyVars
<1>4. PICK calls : calls = CallEach("cleanup", mTasks)
  OBVIOUS
<1>5. EachOf("cleanup", mTasks, calls)
  BY <1>1, <1>4, EachIs DEF StateTyped, ForgettingOps
<1>6. agenda' = calls \o Tail(agenda) /\ calls \in Seq(Calls)
  BY <1>4, <1>5 DEF CleanupAll, Continue, EachOf
<1>7. \A i \in DOMAIN agenda' : agenda'[i].op = "cleanup" /\ agenda'[i].task \in mTasks
  <2>1. Replaced(agenda, calls, agenda')
    BY <1>1, <1>2, <1>6, RestStays
  <2> QED
    BY <1>2, <1>5, <2>1 DEF Replaced, EachOf
<1>8. ASSUME NEW u \in Tasks PROVE ~ Waiting(u)
  <2>1. Head(agenda) \in ForgetsAll
    BY <1>2 DEF ForgetsAll
  <2>2. ~ Covered(agenda, ForgetsAll, Stops(u))
    BY <1>1, <1>2, <2>1, HeadUncovered
  <2> QED
    BY <1>1, <2>2 DEF WaitingSafe, StoppedBefore
<1>9. ASSUME NEW v \in everAdded \ mTasks PROVE AllSettled(v)
  BY <1>1, <1>2 DEF NotForgotten
<1>10. ASSUME NEW v \in mTasks PROVE AllSettled(v)
  <2>1. ASSUME NEW w \in {v} \cup mSubTasks(v) PROVE Settled(w)
    <3>1. w \in everAdded /\ w \in Tasks
      BY <1>1 DEF TasksKnown, StateTyped
    <3>2. CASE w \in mTasks
      BY <1>8, <3>1, <3>2 DEF Waiting, Settled
    <3>3. CASE w \notin mTasks
      BY <1>9, <3>1, <3>3 DEF AllSettled
    <3> QED
      BY <3>2, <3>3
  <2> QED
    BY <2>1 DEF AllSettled
<1>11. AgendaKnown'
  <2>1. ASSUME NEW i \in DOMAIN agenda' PROVE EntryKnown(agenda[i])'
    <3>1. PICK e : e = agenda'[i]
      OBVIOUS
    <3>2. e.op = "cleanup" /\ e.task \in everAdded /\ AllSettled(e.task)
      BY <1>1, <1>7, <1>10, <3>1 DEF TasksKnown
    <3>3. EntryKnown(e)'
      BY <1>3, <3>2 DEF EntryKnown, AddingOps, AllSettled, Settled, mSubTasks
    <3> QED
      BY <3>1, <3>3 DEF EntryKnown, AllSettled, Settled
  <2> QED
    BY <2>1 DEF AgendaKnown
<1>12. AgendaOrdered'
  BY <1>7 DEF AgendaOrdered
<1>13. NotForgotten' /\ WaitingSafe'
  BY <1>3, <1>8, <1>9 DEF NotForgotten, WaitingSafe, Waiting, AllSettled, Settled
<1>14. EventsKnown' /\ TasksKnown' /\ AddedAfter'
  <2>1. EventsKnown'
    BY <1>1, <1>3, SameEventsKnown DEF SaidInv, OrderInv, StateTyped
  <2>2. TasksKnown'
    BY <1>1, <1>3 DEF TasksKnown, mSubTasks, IsParent
  <2> QED
    BY <1>3, <2>1, <2>2
       DEF OrderInv, AddedAfter, WhollySucceeded, AllDependencies, mSubTasks
<1> QED
  BY <1>11, <1>12, <1>13, <1>14 DEF OrderInv

LEMMA MainStepOrder ==
  ASSUME SaidInv, OrderInv, NEW t \in Tasks, MainStep(t)
  PROVE  OrderInv'
BY CancelOrder, CancelRestOrder, SetTerminatedOrder, TerminationOrder, SubTaskOrder,
   CancelDependentOrder, OtherStepsOrder, TaskStatusOrder, ProcessQueueOrder,
   CleanupOrder, ForgetOrder, RecordOrder, CleanupAllOrder
   DEF MainStep

-----------------------------------------------------------------------------
(***************************************************************************)
(* Pool threads                                                            *)
(***************************************************************************)

\* A step that leaves the manager and the call stack alone.
LEMMA AsideStep ==
  ASSUME SaidInv, OrderInv, Steady,
         UNCHANGED <<agenda, mTasks, mTaskDependencies, added, everAdded, managerExists>>,
         \A u \in Tasks : mStatus'[u] = mStatus[u] \/ u \in added,
         NEW posted \in Seq(Events), events' = events \o posted,
         \A i \in DOMAIN posted : posted[i].task \in everAdded
  PROVE  OrderInv'
<1>1. /\ TasksKnown /\ StateTyped /\ agenda \in Seq(Calls) /\ AgendaKnown
      /\ NotForgotten /\ WaitingSafe /\ EventsKnown /\ EventsSaid
  BY DEF OrderInv, SaidInv, AgendaSaid
<1>2. EventsKnown'
  BY <1>1, EventsStayKnown
<1>3. AgendaKnown'
  <2>1. ASSUME NEW i \in DOMAIN agenda' PROVE EntryKnown(agenda[i])'
    <3>1. PICK e : e = agenda'[i]
      OBVIOUS
    <3>2. e.task \in Tasks /\ EntryKnown(e)
      BY <1>1, <3>1, EntryTyped DEF AgendaKnown
    <3>3. EntryKnown(e)'
      BY <3>2, EntryStaysKnown DEF EntryKnown
    <3> QED
      BY <3>1, <3>3 DEF EntryKnown, AllSettled, Settled
  <2> QED
    BY <2>1 DEF AgendaKnown
<1>4. AgendaOrdered'
  BY DEF OrderInv, AgendaOrdered
<1>5. TasksKnown'
  BY <1>1 DEF TasksKnown, mSubTasks, IsParent
<1>6. NotForgotten'
  <2>1. \A v \in everAdded : AllSettled(v) => AllSettled(v)'
    BY <1>1, SteadyAll DEF StateTyped
  <2> QED
    BY <1>1, <2>1 DEF NotForgotten
<1>7. ASSUME NEW u \in Tasks, Waiting(u)'
      PROVE  (StoppedBefore(u) /\ ResolvedFirst(u) /\ DependenciesKept(u))'
  <2>1. mStatus'[u] = mStatus[u] /\ Waiting(u)
    BY <1>7 DEF Waiting
  <2>2. StoppedBefore(u) /\ ResolvedFirst(u) /\ DependenciesKept(u)
    BY <1>1, <2>1 DEF WaitingSafe
  <2>3. mTaskDependencies[u] \subseteq Tasks /\ AllDependencies(u) \subseteq Tasks
    BY <1>1, StructureAssumption DEF StateTyped, AllDependencies, mSubTasks
  <2>4. \A x \in Tasks : WhollySucceeded(x) => WhollySucceeded(x)'
    BY SteadyAll
  <2>5. StoppedBefore(u)'
    BY <2>2, <2>3, <2>4 DEF StoppedBefore, Covered
  <2>6. Resolving(u)' <=> Resolving(u)
    BY DEF Resolving
  <2>7. ResolvedFirst(u)'
    BY <2>1, <2>2, <2>6 DEF ResolvedFirst, Covered
  <2>8. DependenciesKept(u)'
    BY <2>2, <2>3, <2>4, <2>6 DEF DependenciesKept, AllDependencies, mSubTasks
  <2> QED
    BY <2>5, <2>7, <2>8
<1>8. WaitingSafe'
  BY <1>7 DEF WaitingSafe
<1>9. AddedAfter'
  <2>1. ASSUME NEW v \in added, NEW d \in AllDependencies(v)
        PROVE  WhollySucceeded(d)'
    <3>1. d \in Tasks
      BY <1>1, <2>1, StructureAssumption DEF StateTyped, AllDependencies, mSubTasks
    <3>2. WhollySucceeded(d)
      BY <2>1 DEF OrderInv, AddedAfter
    <3> QED
      BY <3>1, <3>2, SteadyAll
  <2> QED
    BY <2>1 DEF AddedAfter, AllDependencies, mSubTasks, WhollySucceeded
<1> QED
  BY <1>2, <1>3, <1>4, <1>5, <1>6, <1>8, <1>9 DEF OrderInv

LEMMA PoolStepOrder ==
  ASSUME SaidInv, OrderInv, NEW t \in Tasks, PoolStep(t)
  PROVE  OrderInv'
<1>1. StateTyped /\ StatusAgrees(t) /\ TasksKnown /\ events \in Seq(Events)
  BY DEF SaidInv, StatusesAgree, OrderInv, EventsSaid
<1>2. t \in added /\ t \in everAdded
  <2>1. t \in poolQueue \/ at[t] # "outside"
    BY DEF PoolStep, TakeRunnable, Start, StartRunning, RunReturns, EndOfRun, EmitEnd,
           ReleaseMutex, ReturnFromDeleted, InPool
  <2> QED
    BY <1>1, <2>1 DEF StatusAgrees, TasksKnown
<1>3. /\ UNCHANGED <<agenda, mTasks, mTaskDependencies, added, everAdded, managerExists>>
      /\ \A u \in Tasks : mStatus'[u] = mStatus[u] \/ u \in added
      /\ succeeded \subseteq succeeded'
  BY <1>1, <1>2
     DEF PoolStep, TakeRunnable, Start, StartRunning, RunReturns, EndOfRun, EmitEnd,
         ReleaseMutex, ReturnFromDeleted, taskVars, managerVars, historyVars, StateTyped
<1>4. Steady
  BY <1>3 DEF Steady, Settled
<1>5. \/ events' = events
      \/ at[t] = "setRunning" /\ events' = events \o statusChanged(t, "Running")
      \/ at[t] = "emitComplete" /\ events' = events \o statusChanged(t, "Complete")
      \/ at[t] = "emitTerminated" /\ events' = events \o statusChanged(t, "Terminated")
      \/ events' = events \o deleteLater(t)
  BY DEF PoolStep, TakeRunnable, Start, StartRunning, RunReturns, EndOfRun, EmitEnd,
         ReleaseMutex, ReturnFromDeleted
<1>6. PICK posted \in Seq(Events) :
        /\ events' = events \o posted
        /\ \A i \in DOMAIN posted : posted[i].task \in everAdded
  <2>1. CASE events' = events
    <3>1. PICK posted \in Seq(Events) : posted = <<>>
      <4>1. <<>> \in Seq(Events)
        OBVIOUS
      <4> QED
        BY <4>1
    <3>2. events' = events \o posted /\ DOMAIN posted = {}
      BY <1>1, <2>1, <3>1
    <3> QED
      BY <3>2
  <2>2. ASSUME NEW st \in {"Running", "Complete", "Terminated"},
               events' = events \o statusChanged(t, st),
               st = "Complete" => at[t] = "emitComplete",
               st = "Terminated" => at[t] = "emitTerminated"
        PROVE  \E posted \in Seq(Events) :
                 /\ events' = events \o posted
                 /\ \A i \in DOMAIN posted : posted[i].task \in everAdded
    <3>1. PICK posted : posted = statusChanged(t, st)
      OBVIOUS
    <3>2. /\ st \in Finished => AllSettled(t)
          /\ st = "Complete" => WhollySucceeded(t)
      BY <1>1, <2>2 DEF StatusAgrees, Finished
    <3>3. posted \in Seq(Events)
      BY <3>1, <3>2, TrueSignal DEF TaskStatus
    <3>4. posted \in PlainCalls
      BY <1>2, <3>1, PlainSignal DEF TaskStatus
    <3> QED
      BY <2>2, <3>1, <3>3, <3>4 DEF PlainCalls
  <2>3. CASE events' = events \o deleteLater(t)
    <3>1. PICK posted : posted = deleteLater(t)
      OBVIOUS
    <3>2. posted \in Seq(Events)
      BY <3>1, DeletionPosted
    <3>3. \A i \in DOMAIN posted : posted[i].task = t
      BY <3>1 DEF deleteLater, Call
    <3> QED
      BY <1>2, <2>3, <3>1, <3>2, <3>3
  <2> QED
    BY <1>5, <2>1, <2>2, <2>3
<1> QED
  BY <1>3, <1>4, <1>6, AsideStep

-----------------------------------------------------------------------------
(***************************************************************************)
(* Calls from the event loop                                               *)
(***************************************************************************)

\* The calls of the application and of the event loop that add nothing.
LEMMA LoopStep ==
  ASSUME SaidInv, OrderInv, agenda = <<>>, Steady,
         UNCHANGED <<mStatus, mTasks, mTaskDependencies, added, everAdded, managerExists,
                     succeeded>>,
         events' = events \/ (events # <<>> /\ events' = Tail(events)),
         NEW calls \in PlainCalls, agenda' = calls
  PROVE  OrderInv'
<1>1. /\ TasksKnown /\ StateTyped /\ NotForgotten /\ WaitingSafe /\ EventsKnown /\ EventsSaid
      /\ AddedAfter
  BY DEF OrderInv, SaidInv
<1>2. DOMAIN agenda = {}
  OBVIOUS
<1>3. \A i \in DOMAIN agenda' : agenda'[i].op \in PlainOps /\ agenda'[i].task \in everAdded
  BY DEF PlainCalls
<1>4. \A i \in DOMAIN agenda' :
        agenda'[i].op \notin AddingOps \cup {"cleanup", "forget", "cleanupAll"}
  BY <1>3 DEF PlainOps, SlotOps, AddingOps
<1>5. AgendaKnown' /\ AgendaOrdered'
  BY <1>3, <1>4 DEF AgendaKnown, AgendaOrdered, EntryKnown, AddingOps
<1>6. EventsKnown'
  BY <1>1, SameEventsKnown DEF StateTyped
<1>7. TasksKnown' /\ AddedAfter'
  BY <1>1 DEF TasksKnown, mSubTasks, IsParent, AddedAfter, WhollySucceeded, AllDependencies
<1>8. NotForgotten'
  BY <1>1, <1>2 DEF NotForgotten, AllSettled, Settled
<1>9. ASSUME NEW u \in Tasks, Waiting(u)'
      PROVE  (StoppedBefore(u) /\ ResolvedFirst(u) /\ DependenciesKept(u))'
  <2>1. Waiting(u) /\ StoppedBefore(u) /\ DependenciesKept(u)
    BY <1>1, <1>9 DEF Waiting, WaitingSafe
  <2>2. ~ Resolving(u) /\ ~ Resolving(u)'
    BY <1>2, <1>4 DEF Resolving, AddingOps
  <2>3. StoppedBefore(u)'
    <3>1. \A x : Covered(agenda', Forgets(x), Stops(u))
      BY <1>4, NoneToCover DEF Forgets
    <3>2. Covered(agenda', ForgetsAll, Stops(u))
      BY <1>4, NoneToCover DEF ForgetsAll
    <3> QED
      BY <2>1, <3>1, <3>2 DEF StoppedBefore, Covered
  <2>4. DependenciesKept(u)'
    BY <2>1, <2>2 DEF DependenciesKept, AllDependencies, mSubTasks, WhollySucceeded
  <2> QED
    BY <2>2, <2>3, <2>4 DEF ResolvedFirst
<1> QED
  BY <1>5, <1>6, <1>7, <1>8, <1>9 DEF OrderInv, WaitingSafe

LEMMA LoopStepsOrder ==
  ASSUME SaidInv, OrderInv,
         \/ \E t \in Tasks : UserCancel(t) \/ UserHold(t) \/ UserUnhold(t)
         \/ CancelAll \/ DeliverEvent
         \/ \E layer \in UNION {Layers[t] : t \in Tasks} : LayersWillBeRemoved(layer)
  PROVE  OrderInv'
<1>1. /\ StateTyped /\ TasksKnown /\ EventsKnown /\ EventsSaid
      /\ mTasks \subseteq everAdded /\ mTasks \subseteq Tasks
  BY DEF SaidInv, OrderInv, TasksKnown, StateTyped
<1>2. /\ agenda = <<>>
      /\ UNCHANGED <<mStatus, mTasks, mTaskDependencies, added, everAdded, managerExists,
                     succeeded>>
      /\ events' = events \/ (events # <<>> /\ events' = Tail(events))
  BY DEF UserCancel, UserHold, UserUnhold, Callable, CancelAll, LayersWillBeRemoved,
         DeliverEvent, EventLoop, taskVars, managerVars, historyVars
<1>3. Steady
  BY <1>2 DEF Steady, Settled
<1>4. agenda' \in PlainCalls
  <2>1. ASSUME NEW t \in Tasks, UserCancel(t) \/ UserHold(t) \/ UserUnhold(t)
        PROVE  agenda' \in PlainCalls
    BY <2>1, OnePlainCall DEF UserCancel, UserHold, UserUnhold, Callable, PlainOps
  <2>2. CASE CancelAll
    BY <1>1, <2>2, EachPlainCall DEF CancelAll, PlainOps
  <2>3. ASSUME NEW layer, LayersWillBeRemoved(layer)
        PROVE  agenda' \in PlainCalls
    BY <1>1, <2>3, EachPlainCall DEF LayersWillBeRemoved, PlainOps
  <2>4. CASE DeliverEvent
    <3>1. PICK event : event = Head(events)
      OBVIOUS
    <3>2. event \in Events /\ EntryKnown(event)
      <4>1. events # <<>> /\ events \in Seq(Events)
        BY <1>1, <2>4 DEF EventsSaid, DeliverEvent
      <4>2. 1 \in DOMAIN events /\ event = events[1] /\ event \in Events
        BY <3>1, <4>1
      <4> QED
        BY <1>1, <4>2 DEF EventsKnown
    <3>3. event.task \in everAdded
      BY <3>2 DEF EntryKnown, Events, Entry, SlotOps
    <3>4. CASE event.op = "delete"
      BY <1>2, <2>4, <3>1, <3>4, NoPlainCall DEF DeliverEvent
    <3>5. CASE event.op # "delete"
      <4>1. event \in Calls /\ event.op \in PlainOps
        BY <3>2, <3>5 DEF Events, Calls, Entry, PlainOps
      <4>2. PICK calls : calls = <<event>>
        OBVIOUS
      <4>3. calls \in Seq(Calls) /\ \A i \in DOMAIN calls : calls[i] = event
        BY <4>1, <4>2
      <4>4. calls \in PlainCalls
        BY <3>3, <4>1, <4>3 DEF PlainCalls
      <4>5. agenda' = calls \/ agenda' = <<>>
        BY <2>4, <3>1, <3>5, <4>2 DEF DeliverEvent
      <4> QED
        BY <4>4, <4>5, NoPlainCall
    <3> QED
      BY <3>4, <3>5
  <2> QED
    BY <2>1, <2>2, <2>3, <2>4
<1>5. PICK calls \in PlainCalls : calls = agenda'
  BY <1>4
<1> QED
  BY <1>2, <1>3, <1>5, LoopStep

LEMMA DestroyOrder ==
  ASSUME SaidInv, OrderInv, DestroyManager
  PROVE  OrderInv'
<1>1. /\ TasksKnown /\ StateTyped /\ NotForgotten /\ WaitingSafe /\ EventsKnown /\ EventsSaid
      /\ AddedAfter /\ mTasks \subseteq everAdded /\ mTasks \subseteq Tasks
  BY DEF OrderInv, SaidInv, TasksKnown, StateTyped
<1>2. /\ agenda = <<>> /\ managerExists
      /\ UNCHANGED <<mStatus, mTasks, mTaskDependencies, added, everAdded, managerExists,
                     succeeded, events>>
  BY DEF DestroyManager, EventLoop, taskVars, managerVars, historyVars
<1>3. DOMAIN agenda = {} /\ Steady
  BY <1>2 DEF Steady, Settled
<1>4. PICK parents : parents = {t \in mTasks : IsParent(t)}
  OBVIOUS
<1>5. PICK each : each = CallEach("cancel", parents)
  OBVIOUS
<1>6. EachOf("cancel", parents, each)
  BY <1>1, <1>4, <1>5, EachIs DEF PlainOps
<1>7. PICK last \in Calls : last = Call("cleanupAll", CHOOSE t \in Tasks : TRUE)
  BY StructureAssumption, CallIs DEF ForgettingOps
<1>8. last.op = "cleanupAll"
  BY <1>7 DEF Call
<1>9. PICK end : end = <<last>>
  OBVIOUS
<1>10. end \in Seq(Calls) /\ DOMAIN end = {1} /\ end[1] = last /\ Len(end) = 1
  BY <1>9
<1>11. agenda' = each \o end
  BY <1>4, <1>5, <1>7, <1>9 DEF DestroyManager
<1>12. /\ Len(each) \in Nat
       /\ DOMAIN agenda' = 1 .. Len(each) + 1 /\ Len(agenda') = Len(each) + 1
       /\ \A i \in 1 .. Len(each) :
            agenda'[i].op = "cancel" /\ agenda'[i].task \in parents
       /\ agenda'[Len(each) + 1] = last
  <2>1. PICK all : all = agenda'
    OBVIOUS
  <2>2. each \in Seq(Calls) /\ 1 \in 1 .. Len(end)
    BY <1>6, <1>10 DEF EachOf
  <2>3. all = each \o end
    BY <1>11, <2>1
  <2>4. PlacesOf(each, end, all)
    BY <1>10, <2>2, <2>3, JoinedPlaces
  <2>5. /\ DOMAIN all = 1 .. Len(each) + 1 /\ Len(all) = Len(each) + 1
        /\ all[Len(each) + 1] = last
    BY <1>10, <2>2, <2>4 DEF PlacesOf
  <2> QED
    BY <1>6, <1>10, <2>1, <2>4, <2>5 DEF EachOf, PlacesOf
<1>13. ASSUME NEW i \in DOMAIN agenda'
       PROVE  \/ /\ i \in 1 .. Len(each) /\ agenda'[i].op = "cancel"
                 /\ agenda'[i].task \in everAdded
              \/ i = Len(agenda') /\ agenda'[i].op = "cleanupAll"
  BY <1>1, <1>4, <1>8, <1>12
<1>14. AgendaKnown' /\ AgendaOrdered'
  BY <1>2, <1>13 DEF AgendaKnown, AgendaOrdered, EntryKnown, AddingOps
<1>15. EventsKnown' /\ TasksKnown' /\ AddedAfter' /\ NotForgotten'
  <2>1. EventsKnown'
    BY <1>1, <1>2, <1>3, SameEventsKnown DEF StateTyped
  <2>2. TasksKnown' /\ AddedAfter'
    BY <1>1, <1>2 DEF TasksKnown, mSubTasks, IsParent, AddedAfter, WhollySucceeded,
                      AllDependencies
  <2>3. NotForgotten'
    BY <1>1, <1>2, <1>3 DEF NotForgotten, AllSettled, Settled
  <2> QED
    BY <2>1, <2>2, <2>3
<1>16. ASSUME NEW u \in Tasks, Waiting(u)
       PROVE  \E i \in DOMAIN each : each[i] \in Stops(u)
  <2>1. \E p \in parents : p = u \/ p = Parent[u]
    <3>1. u \in mTasks /\ u \in everAdded /\ ~ Settled(u)
      BY <1>1, <1>16 DEF Waiting, Settled
    <3>2. CASE IsParent(u)
      BY <1>4, <3>1, <3>2
    <3>3. CASE ~ IsParent(u)
      <4>1. PICK p : p = Parent[u]
        OBVIOUS
      <4>2. p \in everAdded /\ p \in Tasks /\ IsParent(p) /\ u \in mSubTasks(p)
        BY <1>1, <3>1, <3>3, <4>1, OneLevel, StructureAssumption
           DEF TasksKnown, IsParent, mSubTasks
      <4>3. p \in mTasks
        BY <1>1, <1>3, <3>1, <4>2 DEF NotForgotten, AllSettled
      <4> QED
        BY <1>4, <4>1, <4>2, <4>3
    <3> QED
      BY <3>2, <3>3
  <2>2. PICK p \in parents : p = u \/ p = Parent[u]
    BY <2>1
  <2>3. p \in Tasks
    BY <1>1, <1>4
  <2>4. PICK i \in DOMAIN each : each[i] = Call("cancel", p)
    BY <1>6 DEF EachOf
  <2> QED
    BY <2>2, <2>3, <2>4, CallIs DEF Stops, PlainOps
<1>17. ASSUME NEW u \in Tasks, Waiting(u)'
       PROVE  (StoppedBefore(u) /\ ResolvedFirst(u) /\ DependenciesKept(u))'
  <2>1. Waiting(u) /\ StoppedBefore(u) /\ DependenciesKept(u)
    BY <1>1, <1>2, <1>17 DEF Waiting, WaitingSafe
  <2>2. ~ Resolving(u) /\ ~ Resolving(u)'
    BY <1>3, <1>13 DEF Resolving
  <2>3. StoppedBefore(u)'
    <3>1. \A x : Covered(agenda', Forgets(x), Stops(u))
      BY <1>13, NoneToCover DEF Forgets
    <3>2. Covered(agenda', ForgetsAll, Stops(u))
      <4>1. each \in Seq(Calls) /\ \A i \in DOMAIN each : each[i] \notin ForgetsAll
        BY <1>6 DEF EachOf, ForgetsAll
      <4> QED
        BY <1>10, <1>11, <1>16, <2>1, <4>1, CoverAfter
    <3> QED
      BY <1>2, <3>1, <3>2 DEF StoppedBefore, Covered
  <2>4. DependenciesKept(u)'
    BY <1>2, <2>1, <2>2 DEF DependenciesKept, AllDependencies, mSubTasks, WhollySucceeded
  <2> QED
    BY <2>2, <2>3, <2>4 DEF ResolvedFirst
<1> QED
  BY <1>14, <1>15, <1>17 DEF OrderInv, WaitingSafe

\* The subtasks of a new task are new, and its dependencies are recorded before
\* the queue is processed.
LEMMA AddTaskOrder ==
  ASSUME SaidInv, OrderInv, NEW t \in Tasks, AddTask(t)
  PROVE  OrderInv'
<1>1. /\ TasksKnown /\ StateTyped /\ NotForgotten /\ WaitingSafe /\ EventsKnown /\ EventsSaid
      /\ AddedAfter
  BY DEF OrderInv, SaidInv
<1>2. /\ agenda = <<>> /\ managerExists /\ IsParent(t) /\ t \notin everAdded
      /\ mTasks' = mTasks \cup {t}
      /\ everAdded' = everAdded \cup {t} \cup mSubTasks(t)
      /\ UNCHANGED <<mStatus, mTaskDependencies, added, managerExists, succeeded, events>>
  BY DEF AddTask, EventLoop, taskVars
<1>3. DOMAIN agenda = {} /\ Steady
  BY <1>2 DEF Steady, Settled
<1>4. PICK subs : subs = mSubTasks(t)
  OBVIOUS
<1>5. /\ subs \in SUBSET Tasks /\ t \notin subs
      /\ \A s \in subs : Parent[s] = t /\ ~ IsParent(s) /\ mSubTasks(s) = {}
  <2>1. ASSUME NEW s \in subs
        PROVE  s \in Tasks /\ Parent[s] = t /\ ~ IsParent(s) /\ mSubTasks(s) = {}
    BY <1>4, OneLevel, StructureAssumption DEF mSubTasks
  <2> QED
    BY <1>2, <2>1
<1>6. PICK each : each = CallEach("addSubTask", subs)
  OBVIOUS
<1>7. EachOf("addSubTask", subs, each)
  BY <1>5, <1>6, EachIs DEF AddingOps
<1>8. PICK resolve \in Calls, queue \in Calls :
        resolve = Call("resolveDependencies", t) /\ queue = Call("processQueue", t)
  BY CallIs DEF AddingOps, PlainOps
<1>9. /\ resolve.op = "resolveDependencies" /\ resolve.task = t
      /\ queue.op = "processQueue" /\ queue.task = t
  BY <1>8 DEF Call
<1>10. PICK end : end = <<resolve, queue>>
  OBVIOUS
<1>11. /\ end \in Seq(Calls) /\ Len(end) = 2 /\ end[1] = resolve /\ end[2] = queue
       /\ 1 \in 1 .. Len(end) /\ 2 \in 1 .. Len(end)
  BY <1>10
<1>12. agenda' = each \o end
  BY <1>4, <1>6, <1>8, <1>10 DEF AddTask
<1> DEFINE n == Len(each)
<1>13. /\ n \in Nat /\ DOMAIN each = 1 .. n
       /\ DOMAIN agenda' = 1 .. n + 2
       /\ \A i \in 1 .. n : agenda'[i] = each[i]
       /\ agenda'[n + 1] = resolve /\ agenda'[n + 2] = queue
  <2>1. each \in Seq(Calls)
    BY <1>7 DEF EachOf
  <2>2. PICK all : all = agenda'
    OBVIOUS
  <2> HIDE DEF n
  <2>3. all = each \o end
    BY <1>12, <2>2
  <2>4. PlacesOf(each, end, all)
    BY <1>11, <2>1, <2>3, JoinedPlaces
  <2>5. all[Len(each) + 1] = resolve /\ all[Len(each) + 2] = queue
    BY <1>11, <2>4 DEF PlacesOf
  <2> QED
    BY <1>11, <2>2, <2>4, <2>5 DEF n, PlacesOf
<1> HIDE DEF n
<1>14. ASSUME NEW i \in DOMAIN agenda'
       PROVE  \/ /\ i \in 1 .. n /\ agenda'[i].op = "addSubTask"
                 /\ agenda'[i].task \in subs /\ agenda'[i] \in Calls
              \/ i = n + 1 /\ agenda'[i] = resolve
              \/ i = n + 2 /\ agenda'[i] = queue
  <2>1. \A k \in DOMAIN each : /\ each[k].op = "addSubTask" /\ each[k].task \in subs
                               /\ each[k] \in Calls
    BY <1>7 DEF EachOf
  <2> QED
    BY <1>13, <2>1
<1>15. \A i \in DOMAIN agenda' : agenda'[i].op \in AddingOps \cup {"processQueue"}
  BY <1>9, <1>14 DEF AddingOps
<1>16. AgendaKnown'
  <2>1. ASSUME NEW i \in DOMAIN agenda' PROVE EntryKnown(agenda[i])'
    <3>1. CASE agenda'[i].op = "addSubTask" /\ agenda'[i].task \in subs
      BY <1>2, <1>4, <1>5, <3>1 DEF EntryKnown, AddingOps, IsParent
    <3>2. CASE agenda'[i] = resolve \/ agenda'[i] = queue
      BY <1>2, <1>9, <3>2 DEF EntryKnown, AddingOps, IsParent
    <3> QED
      BY <1>14, <3>1, <3>2
  <2> QED
    BY <2>1 DEF AgendaKnown
<1>17. AgendaOrdered'
  <2>1. ASSUME NEW i \in DOMAIN agenda', NEW j \in DOMAIN agenda', j > i,
               agenda'[i].op = "resolveDependencies"
        PROVE  agenda'[j].op = "processQueue"
    <3>1. i = n + 1
      BY <1>9, <1>14, <2>1
    <3>2. j = n + 2
      BY <1>13, <2>1, <3>1
    <3> QED
      BY <1>9, <1>13, <3>2
  <2> QED
    BY <1>15, <2>1 DEF AgendaOrdered, AddingOps
<1>18. EventsKnown'
  BY <1>1, <1>2, <1>3, SameEventsKnown DEF StateTyped
<1>19. TasksKnown'
  <2>1. ASSUME NEW v \in everAdded'
        PROVE  mSubTasks(v) \subseteq everAdded' /\ (~ IsParent(v) => Parent[v] \in everAdded')
    <3>1. CASE v \in everAdded
      BY <1>1, <1>2, <3>1 DEF TasksKnown
    <3>2. CASE v = t
      BY <1>2, <3>2
    <3>3. CASE v \in subs
      BY <1>2, <1>5, <3>3
    <3> QED
      BY <1>2, <1>4, <2>1, <3>1, <3>2, <3>3
  <2> QED
    BY <1>1, <1>2, <2>1 DEF TasksKnown, mSubTasks, IsParent
<1>20. AddedAfter'
  BY <1>1, <1>2 DEF AddedAfter, WhollySucceeded, AllDependencies, mSubTasks
<1>21. NotForgotten'
  <2>1. ASSUME NEW v \in everAdded' \ mTasks'
        PROVE  \/ AllSettled(v)'
               \/ \E i \in DOMAIN agenda' :
                    agenda'[i].op = "addSubTask" /\ agenda'[i].task = v
    <3>1. CASE v \in everAdded
      <4>1. AllSettled(v) /\ v \in Tasks
        BY <1>1, <1>2, <1>3, <2>1, <3>1 DEF NotForgotten, StateTyped
      <4> QED
        BY <1>3, <4>1, SteadyAll
    <3>2. CASE v \notin everAdded
      <4>1. v \in subs
        BY <1>2, <1>4, <2>1, <3>2
      <4>2. PICK i \in DOMAIN each : each[i] = Call("addSubTask", v)
        BY <1>7, <4>1 DEF EachOf
      <4>3. i \in DOMAIN agenda' /\ agenda'[i] = Call("addSubTask", v)
        BY <1>13, <4>2
      <4> QED
        BY <4>3 DEF Call
    <3> QED
      BY <3>1, <3>2
  <2> QED
    BY <2>1 DEF NotForgotten
<1>22. ASSUME NEW u \in Tasks
       PROVE  Resolving(u)' <=> u = t
  <2>1. Resolving(u)' => u = t
    BY <1>9, <1>14 DEF Resolving
  <2>2. n + 1 \in DOMAIN agenda'
    BY <1>13
  <2> QED
    BY <1>9, <1>13, <2>1, <2>2 DEF Resolving
<1>23. Covered(agenda', AddingOther(t), AddingStops(t))
  <2>1. ASSUME NEW j \in DOMAIN agenda', agenda'[j] \in AddingOther(t)
        PROVE  \E k \in 1 .. j - 1 : agenda'[k] \in AddingStops(t)
    <3>1. resolve \in AddingStops(t)
      BY <1>9 DEF AddingStops
    <3>2. j = n + 2
      <4>1. agenda'[j] # resolve
        BY <2>1, <3>1 DEF AddingOther
      <4>2. CASE agenda'[j].op = "addSubTask" /\ agenda'[j].task \in subs
        BY <1>5, <2>1, <4>2 DEF AddingOther, AddingHarmless
      <4> QED
        BY <1>14, <4>1, <4>2
    <3>3. n + 1 \in 1 .. j - 1
      BY <1>13, <3>2
    <3> QED
      BY <1>13, <3>1, <3>3
  <2> QED
    BY <2>1 DEF Covered
<1>24. ASSUME NEW u \in Tasks, Waiting(u)'
       PROVE  (StoppedBefore(u) /\ ResolvedFirst(u) /\ DependenciesKept(u))'
  <2>1. StoppedBefore(u)'
    <3>1. \A x : Covered(agenda', Forgets(x), Stops(u))
      BY <1>15, NoneToCover DEF Forgets, AddingOps
    <3>2. Covered(agenda', ForgetsAll, Stops(u))
      BY <1>15, NoneToCover DEF ForgetsAll, AddingOps
    <3> QED
      BY <1>2, <3>1, <3>2 DEF StoppedBefore, Covered
  <2>2. CASE u = t
    <3>1. mStatus'[t] = "Queued"
      BY <1>1, <1>2 DEF TasksKnown
    <3> QED
      BY <1>22, <1>23, <2>1, <2>2, <3>1 DEF ResolvedFirst, DependenciesKept, Covered
  <2>3. CASE u # t
    <3>1. Waiting(u)
      BY <1>2, <1>24, <2>3 DEF Waiting
    <3>2. DependenciesKept(u) /\ ~ Resolving(u)
      BY <1>1, <1>3, <3>1 DEF WaitingSafe, Resolving
    <3>3. DependenciesKept(u)'
      BY <1>2, <3>2 DEF DependenciesKept, AllDependencies, mSubTasks, WhollySucceeded
    <3> QED
      BY <1>22, <2>1, <2>3, <3>3 DEF ResolvedFirst
  <2> QED
    BY <2>2, <2>3
<1> QED
  BY <1>16, <1>17, <1>18, <1>19, <1>20, <1>21, <1>24 DEF OrderInv, WaitingSafe

LEMMA InitOrder == Init => OrderInv
<1> SUFFICES ASSUME Init PROVE OrderInv
  OBVIOUS
<1>1. AgendaKnown /\ EventsKnown /\ AgendaOrdered
  BY DEF Init, AgendaKnown, EventsKnown, AgendaOrdered
<1>2. TasksKnown /\ NotForgotten /\ WaitingSafe /\ AddedAfter
  BY DEF Init, TasksKnown, NotForgotten, WaitingSafe, Waiting, AddedAfter
<1> QED
  BY <1>1, <1>2 DEF OrderInv

LEMMA StutterOrder ==
  ASSUME SaidInv, OrderInv, UNCHANGED vars
  PROVE  OrderInv'
<1>1. UNCHANGED <<agenda, mTasks, mTaskDependencies, added, everAdded, managerExists,
                  mStatus, succeeded, events>>
  BY DEF vars, taskVars, managerVars, historyVars
<1>2. events \in Seq(Events) /\ Steady
  BY <1>1 DEF SaidInv, EventsSaid, Steady, Settled
<1>3. PICK posted \in Seq(Events) : posted = <<>>
  <2>1. <<>> \in Seq(Events)
    OBVIOUS
  <2> QED
    BY <2>1
<1>4. events' = events \o posted /\ DOMAIN posted = {}
  BY <1>1, <1>2, <1>3
<1> QED
  BY <1>1, <1>2, <1>4, AsideStep

-----------------------------------------------------------------------------
(***************************************************************************)
(* The theorems                                                            *)
(***************************************************************************)

\* Whatever the order of calls, events and threads: the manager forgets nothing
\* that a waiting task has to wait for, and a new task waits until its
\* dependencies are recorded.
THEOREM OrderInductive == Spec => []OrderInv
<1>1. SaidInv /\ OrderInv /\ [Next]_vars => OrderInv'
  BY PoolStepOrder, MainStepOrder, AddTaskOrder, LoopStepsOrder, DestroyOrder, StutterOrder
     DEF Next, UserStep
<1> QED
  BY <1>1, InitOrder, SaidInductive, PTL DEF Spec

\* run() of a task is entered only after every task it depends on, with its
\* subtasks, has run successfully.
THEOREM RunsAfterDependenciesHolds == Spec => []RunsAfterDependencies
<1>1. SaidInv /\ OrderInv => RunsAfterDependencies
  <2> SUFFICES ASSUME SaidInv, OrderInv,
                      NEW t \in Tasks, at[t] \notin {"outside", "start", "returned"},
                      NEW d \in AllDependencies(t)
               PROVE  WhollySucceeded(d)
    BY DEF RunsAfterDependencies
  <2>1. t \in added
    BY DEF SaidInv, StatusesAgree, StatusAgrees
  <2> QED
    BY <2>1 DEF OrderInv, AddedAfter
<1> QED
  BY <1>1, SaidInductive, OrderInductive, PTL

-----------------------------------------------------------------------------
(***************************************************************************)
(* Proof that the tasks waiting for one that was terminated are told to    *)
(* terminate.                                                              *)
(*                                                                         *)
(* The manager calls finished( false ) for a task and then cancels those   *)
(* that depend on it, as it knows them at that moment.  What it may not    *)
(* know are the tasks that are being added: a subtask that is found to     *)
(* depend on itself ends its parent, and with it its siblings, while some  *)
(* of these are not inserted yet.  The invariant says that these are       *)
(* stopped before they are inserted, and that a task that was reported is  *)
(* forgotten before the main thread returns to its event loop.             *)
(***************************************************************************)

\* finished( false ) has been called for the task.
Reported(d) == FALSE \in ToSet(finishedCalls[d])

\* The main thread has still to return to this call of the task.
OnStack(op, t) ==
  \E i \in DOMAIN agenda : agenda[i].op = op /\ agenda[i].task = t

\* The subtask is still to be inserted.
Pending(s) == OnStack("addSubTask", s)
Adds(s) == {e \in Calls : e.op = "addSubTask" /\ e.task = s}

\* The calls that terminate s, inserted or not.
NewStops(s) ==
  {e \in Calls :
    \/ e.op \in {"cancel", "terminated"} /\ e.task = s
    \/ e.op \in {"cancel", "cancelRest"} /\ e.task = Parent[s]}

\* The task waits and no call is about to terminate it.
Spared(p) == Waiting(p) /\ ~ OnStack("terminated", p)

-----------------------------------------------------------------------------
(***************************************************************************)
(* The inductive invariant                                                 *)
(***************************************************************************)

\* A task that never ran is terminated only after it was told so.
TerminatedTold ==
  /\ \A t \in Tasks \ added : mStatus[t] = "Terminated" => t \in mShouldTerminate
  /\ \A i \in DOMAIN agenda :
       agenda[i].op = "terminated" => agenda[i].task \in mShouldTerminate

\* A subtask is inserted once, before its parent's dependencies are recorded.
PendingOnce ==
  \A i \in DOMAIN agenda : agenda[i].op = "addSubTask" =>
    /\ agenda[i].task \notin mTasks \cup added
    /\ Resolving(Parent[agenda[i].task])
    /\ \A j \in DOMAIN agenda :
         agenda[j].op = "addSubTask" /\ agenda[j].task = agenda[i].task => i = j

\* Nobody depends on d any more, but for a new task that must still record it.
Unneeded(d) ==
  \A u \in Tasks : Waiting(u) /\ ~ Resolving(u) => d \notin mTaskDependencies[u]

\* A task that was reported is about to be forgotten.
ReportsKnown ==
  \A d \in Tasks : Reported(d) =>
    /\ d \in everAdded
    /\ ~ Pending(d)
    /\ d \in mTasks => OnStack("cleanup", d)
    /\ d \notin mTasks => OnStack("forget", d) \/ Unneeded(d)

\* What a new task is to depend on has not been reported.
NewNotReported ==
  \A u \in Tasks : Waiting(u) /\ Resolving(u) =>
    \A d \in AllDependencies(u) : ~ Reported(d)

\* The same of a subtask that is still to be inserted, unless it will be
\* terminated by then.
PendingStopped ==
  \A s \in Tasks : Pending(s) /\ mStatus[s] # "Terminated" =>
    \/ Covered(agenda, Adds(s), NewStops(s))
    \/ Spared(Parent[s]) /\ \A d \in Dependencies[s] : ~ Reported(d)

CancelInv ==
  /\ TerminatedTold
  /\ PendingOnce
  /\ ReportsKnown
  /\ NewNotReported
  /\ PendingStopped

-----------------------------------------------------------------------------
(***************************************************************************)
(* What a call must do for the invariant                                   *)
(***************************************************************************)

HeadIs(op, t) == Head(agenda).op = op /\ Head(agenda).task = t
Makes(calls, op, t) == \E i \in DOMAIN calls : calls[i].op = op /\ calls[i].task = t

\* It adds nothing, and terminates only the task that is cancelled.
CallsMild(calls) ==
  /\ Head(agenda).op \notin AddingOps
  /\ \A i \in DOMAIN calls :
       /\ calls[i].op \notin AddingOps
       /\ calls[i].op = "terminated" =>
            calls[i].task \in mShouldTerminate' /\ HeadIs("cancel", calls[i].task)

\* It only takes from what is waited for.
TakesOnly ==
  /\ everAdded' = everAdded
  /\ mTasks' \subseteq mTasks
  /\ \A u \in Tasks : mTaskDependencies'[u] \subseteq mTaskDependencies[u]
  /\ mShouldTerminate \subseteq mShouldTerminate'
  /\ added \subseteq added' /\ added' \subseteq added \cup mTasks
  /\ Head(agenda).op \notin {"cleanup", "processQueue"} =>
       mTasks' = mTasks /\ added' = added

\* Only terminated() ends a task that never ran.
EndsFew ==
  \A u \in Tasks \ added' : mStatus'[u] = "Terminated" =>
    mStatus[u] = "Terminated" \/ HeadIs("terminated", u)

\* A task that is reported is cleaned up, and then forgotten.
ReportsFew(calls) ==
  \A d \in Tasks : Reported(d)' =>
    \/ Reported(d)
    \/ /\ HeadIs("taskStatusChanged", d)
       /\ d \in mTasks
       /\ Makes(calls, "cleanup", d)
Forgetful(calls) ==
  \A d \in Tasks :
    /\ d \in mTasks \ mTasks' => Makes(calls, "forget", d)
    /\ HeadIs("cleanup", d) => d \notin mTasks'
    /\ HeadIs("forget", d) => \A u \in Tasks : d \notin mTaskDependencies'[u]

\* A subtask still to be inserted goes on to be stopped.
KeepsEnding(calls) ==
  \A s \in Tasks :
    Pending(s) /\ mStatus'[s] # "Terminated" /\ Head(agenda) \in NewStops(s) =>
      \E k \in DOMAIN calls : calls[k] \in NewStops(s)

\* Calls stay on the stack, and are joined by those that are made.
LEMMA StackPushed ==
  ASSUME agenda \in Seq(Calls), agenda # <<>>, NEW calls \in Seq(Calls),
         agenda' = calls \o Tail(agenda), NEW op, NEW t
  PROVE  /\ OnStack(op, t) /\ ~ HeadIs(op, t) => OnStack(op, t)'
         /\ Makes(calls, op, t) => OnStack(op, t)'
         /\ OnStack(op, t)' => OnStack(op, t) \/ Makes(calls, op, t)
<1>1. Replaced(agenda, calls, agenda')
  BY RestStays
<1>2. /\ DOMAIN calls = 1 .. Len(calls) /\ DOMAIN agenda' = 1 .. Len(agenda')
      /\ Len(agenda') = Len(calls) + Len(agenda) - 1
      /\ Len(calls) \in Nat /\ Len(agenda) \in Nat
      /\ 1 \in DOMAIN agenda /\ DOMAIN agenda = 1 .. Len(agenda)
      /\ \A i \in 1 .. Len(calls) : agenda'[i] = calls[i]
  <2>1. PICK all : all = agenda'
    OBVIOUS
  <2>2. all = calls \o Tail(agenda)
    BY <2>1
  <2> QED
    BY <2>1, <2>2, PushedCalls
<1>3. ASSUME OnStack(op, t), ~ HeadIs(op, t) PROVE OnStack(op, t)'
  <2>1. PICK i \in DOMAIN agenda : agenda[i].op = op /\ agenda[i].task = t
    BY <1>3 DEF OnStack
  <2>2. agenda[i] # Head(agenda)
    BY <1>3, <2>1, Zenon DEF HeadIs
  <2>3. PICK j \in DOMAIN agenda' : agenda'[j] = agenda[i]
    BY <1>1, <2>2, Zenon DEF Replaced
  <2> QED
    BY <2>1, <2>3, Zenon DEF OnStack
<1>4. ASSUME Makes(calls, op, t) PROVE OnStack(op, t)'
  <2>1. PICK i \in DOMAIN calls : calls[i].op = op /\ calls[i].task = t
    BY <1>4 DEF Makes
  <2>2. i \in DOMAIN agenda' /\ agenda'[i] = calls[i]
    BY <1>2, <2>1
  <2> QED
    BY <2>1, <2>2 DEF OnStack
<1>5. OnStack(op, t)' => OnStack(op, t) \/ Makes(calls, op, t)
  BY <1>1 DEF OnStack, Makes, Replaced
<1> QED
  BY <1>3, <1>4, <1>5

LEMMA ResolvingIsCall ==
  ASSUME NEW u
  PROVE  /\ Resolving(u) <=> OnStack("resolveDependencies", u)
         /\ Resolving(u)' <=> OnStack("resolveDependencies", u)'
BY DEF Resolving, OnStack

LEMMA PendingPush ==
  ASSUME SaidInv, OrderInv, PendingOnce, agenda # <<>>,
         NEW calls \in Seq(Calls), agenda' = calls \o Tail(agenda),
         CallsMild(calls), TakesOnly
  PROVE  PendingOnce'
<1>1. agenda \in Seq(Calls)
  BY DEF SaidInv, AgendaSaid
<1> DEFINE n == Len(calls)
<1>2. /\ n \in Nat /\ DOMAIN calls = 1 .. n
      /\ DOMAIN agenda' = 1 .. Len(agenda') /\ Len(agenda') \in Nat
      /\ \A i \in 1 .. n : agenda'[i] = calls[i]
      /\ \A i \in DOMAIN agenda' : i > n =>
           i - n + 1 \in DOMAIN agenda /\ agenda'[i] = agenda[i - n + 1]
  <2>1. PICK all : all = agenda'
    OBVIOUS
  <2>2. all = calls \o Tail(agenda)
    BY <2>1
  <2>3. all \in Seq(Calls)
    BY <1>1, <2>2, PushedCalls
  <2>4. Len(all) \in Nat
    BY <2>3
  <2> QED
    BY <1>1, <2>1, <2>2, <2>4, PushedCalls
<1> HIDE DEF n
<1>3. ASSUME NEW i \in DOMAIN agenda', agenda'[i].op = "addSubTask"
      PROVE  i > n
  <2>1. i \in 1 .. n => calls[i].op \notin AddingOps
    BY <1>2 DEF CallsMild
  <2> QED
    BY <1>2, <1>3, <2>1 DEF AddingOps
<1>4. ASSUME NEW i \in DOMAIN agenda', agenda'[i].op = "addSubTask"
      PROVE  /\ agenda'[i].task \notin mTasks' \cup added'
             /\ Resolving(Parent[agenda[i].task])'
             /\ \A j \in DOMAIN agenda' :
                  agenda'[j].op = "addSubTask" /\ agenda'[j].task = agenda'[i].task => i = j
  <2>1. PICK k \in DOMAIN agenda : k = i - n + 1 /\ agenda'[i] = agenda[k]
    BY <1>2, <1>3, <1>4
  <2>2. agenda[k].task \notin mTasks \cup added /\ Resolving(Parent[agenda[k].task])
    BY <1>4, <2>1 DEF PendingOnce
  <2>3. Resolving(Parent[agenda[i].task])'
    <3>1. PICK p : p = Parent[agenda'[i].task]
      OBVIOUS
    <3>2. Resolving(p)
      BY <2>1, <2>2, <3>1
    <3>3. ~ HeadIs("resolveDependencies", p)
      BY DEF HeadIs, CallsMild, AddingOps
    <3>4. Resolving(p)'
      BY <1>1, <3>2, <3>3, ResolvingIsCall, StackPushed
    <3> QED
      BY <3>1, <3>4 DEF Resolving
  <2>4. ASSUME NEW j \in DOMAIN agenda',
               agenda'[j].op = "addSubTask", agenda'[j].task = agenda'[i].task
        PROVE  i = j
    <3>1. PICK m \in DOMAIN agenda : m = j - n + 1 /\ agenda'[j] = agenda[m]
      BY <1>2, <1>3, <2>4
    <3>2. k = m
      BY <1>4, <2>1, <2>4, <3>1 DEF PendingOnce
    <3> QED
      BY <1>2, <2>1, <3>1, <3>2
  <2>5. agenda'[i].task \notin mTasks' \cup added'
    BY <2>1, <2>2 DEF TakesOnly
  <2> QED
    BY <2>1, <2>3, <2>4, <2>5
<1> QED
  BY <1>4 DEF PendingOnce

LEMMA ToldPush ==
  ASSUME SaidInv, TerminatedTold, agenda # <<>>,
         NEW calls \in Seq(Calls), agenda' = calls \o Tail(agenda),
         CallsMild(calls), TakesOnly, EndsFew
  PROVE  TerminatedTold'
<1>1. agenda \in Seq(Calls)
  BY DEF SaidInv, AgendaSaid
<1>2. agenda[1] = Head(agenda) /\ 1 \in DOMAIN agenda
  BY <1>1
<1>3. ASSUME NEW u \in Tasks \ added', mStatus'[u] = "Terminated"
      PROVE  u \in mShouldTerminate'
  <2>1. u \in Tasks \ added
    BY <1>3 DEF TakesOnly
  <2> QED
    BY <1>2, <1>3, <2>1 DEF EndsFew, HeadIs, TerminatedTold, TakesOnly
<1>4. Replaced(agenda, calls, agenda')
  BY <1>1, RestStays
<1>5. ASSUME NEW j \in DOMAIN agenda', agenda'[j].op = "terminated"
      PROVE  agenda'[j].task \in mShouldTerminate'
  BY <1>4, <1>5, SMTT(20) DEF Replaced, CallsMild, TakesOnly, TerminatedTold
<1> QED
  BY <1>3, <1>5 DEF TerminatedTold

LEMMA ReportsPush ==
  ASSUME SaidInv, OrderInv, CancelInv, Steady, agenda # <<>>,
         NEW calls \in Seq(Calls), agenda' = calls \o Tail(agenda),
         CallsMild(calls), TakesOnly, ReportsFew(calls), Forgetful(calls)
  PROVE  ReportsKnown'
<1>1. agenda \in Seq(Calls) /\ mTasks \subseteq everAdded
  BY DEF SaidInv, AgendaSaid, OrderInv, TasksKnown
<1>2. ASSUME NEW d PROVE Pending(d)' => Pending(d)
  <2>1. ~ Makes(calls, "addSubTask", d)
    BY DEF Makes, CallsMild, AddingOps
  <2> QED
    BY <1>1, <2>1, StackPushed DEF Pending
<1>3. ASSUME NEW u \in Tasks, Waiting(u)', ~ Resolving(u)'
      PROVE  Waiting(u) /\ ~ Resolving(u)
  <2>1. Waiting(u)
    BY <1>3, WaitedBefore DEF TakesOnly
  <2>2. ~ HeadIs("resolveDependencies", u)
    BY DEF HeadIs, CallsMild, AddingOps
  <2> QED
    BY <1>1, <1>3, <2>1, <2>2, ResolvingIsCall, StackPushed
<1>4. ASSUME NEW d \in Tasks, Reported(d)'
      PROVE  /\ d \in everAdded'
             /\ ~ Pending(d)'
             /\ d \in mTasks' => OnStack("cleanup", d)'
             /\ d \notin mTasks' => OnStack("forget", d)' \/ Unneeded(d)'
  <2>1. CASE Reported(d)
    <3>1. /\ d \in everAdded /\ ~ Pending(d)
          /\ d \in mTasks => OnStack("cleanup", d)
          /\ d \notin mTasks => OnStack("forget", d) \/ Unneeded(d)
      BY <2>1 DEF CancelInv, ReportsKnown
    <3>2. ASSUME d \in mTasks' PROVE OnStack("cleanup", d)'
      BY <1>1, <3>1, <3>2, StackPushed DEF TakesOnly, Forgetful
    <3>3. ASSUME d \notin mTasks' PROVE OnStack("forget", d)' \/ Unneeded(d)'
      <4>1. CASE d \in mTasks
        BY <1>1, <3>3, <4>1, StackPushed DEF Forgetful
      <4>2. CASE d \notin mTasks /\ OnStack("forget", d) /\ ~ HeadIs("forget", d)
        BY <1>1, <4>2, StackPushed
      <4>3. CASE HeadIs("forget", d)
        BY <4>3 DEF Forgetful, Unneeded
      <4>4. CASE Unneeded(d)
        BY <1>3, <4>4 DEF Unneeded, TakesOnly
      <4> QED
        BY <3>1, <4>1, <4>2, <4>3, <4>4
    <3> QED
      BY <1>2, <3>1, <3>2, <3>3 DEF TakesOnly
  <2>2. CASE /\ HeadIs("taskStatusChanged", d)
             /\ d \in mTasks
             /\ Makes(calls, "cleanup", d)
    <3>1. d \in mTasks'
      BY <2>2 DEF HeadIs, TakesOnly
    <3>2. OnStack("cleanup", d)'
      BY <1>1, <2>2, StackPushed
    <3>3. ~ Pending(d)
      BY <2>2 DEF CancelInv, PendingOnce, Pending, OnStack
    <3> QED
      BY <1>1, <1>2, <2>2, <3>1, <3>2, <3>3 DEF TakesOnly
  <2> QED
    BY <1>4, <2>1, <2>2 DEF ReportsFew
<1> QED
  BY <1>4 DEF ReportsKnown

\* While u waits for its dependencies to be recorded, no task is reported,
\* forgotten or given to the pool.
LEMMA ResolvingHead ==
  ASSUME SaidInv, OrderInv, agenda # <<>>, NEW u \in Tasks, Waiting(u), Resolving(u)
  PROVE  Head(agenda).op \notin {"taskStatusChanged", "cleanup", "processQueue"}
<1>1. agenda \in Seq(Calls) /\ Head(agenda) \in Calls
  BY DEF SaidInv, AgendaSaid
<1>2. Head(agenda) \notin AddingOther(u)
  BY <1>1, HeadUncovered DEF OrderInv, WaitingSafe, ResolvedFirst
<1> QED
  BY <1>1, <1>2 DEF AddingOther, AddingStops, AddingHarmless

LEMMA NewPush ==
  ASSUME SaidInv, OrderInv, NewNotReported, Steady, agenda # <<>>,
         NEW calls \in Seq(Calls), agenda' = calls \o Tail(agenda),
         CallsMild(calls), TakesOnly, ReportsFew(calls)
  PROVE  NewNotReported'
<1>1. agenda \in Seq(Calls)
  BY DEF SaidInv, AgendaSaid
<1>2. ASSUME NEW u \in Tasks, Waiting(u)', Resolving(u)', NEW d \in AllDependencies(u)
      PROVE  ~ Reported(d)'
  <2>1. Waiting(u)
    BY <1>2, WaitedBefore DEF TakesOnly
  <2>2. ~ Makes(calls, "resolveDependencies", u)
    BY DEF Makes, CallsMild, AddingOps
  <2>3. Resolving(u)
    BY <1>1, <1>2, <2>2, ResolvingIsCall, StackPushed
  <2>4. d \in Tasks
    BY StructureAssumption DEF AllDependencies, mSubTasks
  <2>5. ~ Reported(d) /\ ~ HeadIs("taskStatusChanged", d)
    BY <1>2, <2>1, <2>3, ResolvingHead DEF NewNotReported, HeadIs
  <2> QED
    BY <2>4, <2>5 DEF ReportsFew
<1> QED
  BY <1>2 DEF NewNotReported, AllDependencies, mSubTasks

LEMMA StoppedPush ==
  ASSUME SaidInv, OrderInv, CancelInv, Steady, agenda # <<>>,
         NEW calls \in Seq(Calls), agenda' = calls \o Tail(agenda),
         CallsMild(calls), TakesOnly, EndsFew, ReportsFew(calls), KeepsEnding(calls)
  PROVE  PendingStopped'
<1>1. /\ agenda \in Seq(Calls) /\ Head(agenda) \in Calls
      /\ Head(agenda) = agenda[1] /\ 1 \in DOMAIN agenda
  BY DEF SaidInv, AgendaSaid
<1>2. PICK below \in Seq(Calls) : below = Tail(agenda)
  <2>1. Tail(agenda) \in Seq(Calls)
    BY <1>1
  <2> QED
    BY <2>1
<1>3. ASSUME NEW s \in Tasks, Pending(s)', mStatus'[s] # "Terminated"
      PROVE  \/ Covered(agenda', Adds(s), NewStops(s))
             \/ Spared(Parent[s])' /\ \A d \in Dependencies[s] : ~ Reported(d)'
  <2>1. Pending(s)
    <3>1. ~ Makes(calls, "addSubTask", s)
      BY DEF Makes, CallsMild, AddingOps
    <3> QED
      BY <1>1, <1>3, <3>1, StackPushed DEF Pending
  <2>2. PICK p : p = Parent[s]
    OBVIOUS
  <2>3. s \notin mTasks \cup added /\ Resolving(p)
    BY <2>1, <2>2 DEF CancelInv, PendingOnce, Pending, OnStack
  <2>4. mStatus[s] # "Terminated"
    BY <1>3, <2>3 DEF Steady, Settled, TakesOnly
  <2>5. \A k \in DOMAIN calls : calls[k] \notin Adds(s)
    BY DEF CallsMild, Adds, AddingOps
  <2>6. CASE \E k \in DOMAIN calls : calls[k] \in NewStops(s)
    BY <1>2, <2>5, <2>6, CoverAfter
  <2>7. CASE Covered(agenda, Adds(s), NewStops(s)) /\ Head(agenda) \notin NewStops(s)
    <3>1. Covered(calls, Adds(s), NewStops(s))
      BY <2>5, NoneToCover
    <3> QED
      BY <1>1, <2>7, <3>1, CoverPush
  <2>8. CASE /\ Spared(p) /\ \A d \in Dependencies[s] : ~ Reported(d)
             /\ Head(agenda) \notin NewStops(s)
    <3>1. p \in Tasks /\ Waiting(p) /\ ~ OnStack("terminated", p)
      BY <2>8 DEF Spared, Waiting, SaidInv, StateTyped
    <3>2. Head(agenda).op \notin {"taskStatusChanged", "cleanup", "processQueue"}
      BY <2>3, <3>1, ResolvingHead
    <3>3. Waiting(p)'
      <4>1. mTasks' = mTasks /\ added' = added
        BY <3>2 DEF TakesOnly
      <4>2. ~ HeadIs("terminated", p)
        BY <1>1, <3>1 DEF HeadIs, OnStack
      <4> QED
        BY <3>1, <4>1, <4>2 DEF EndsFew, Waiting
    <3>4. ~ OnStack("terminated", p)'
      <4>1. ~ HeadIs("cancel", p)
        BY <1>1, <2>2, <2>8 DEF HeadIs, NewStops
      <4>2. ~ Makes(calls, "terminated", p)
        BY <4>1 DEF CallsMild, Makes
      <4> QED
        BY <1>1, <3>1, <4>2, StackPushed
    <3>5. ASSUME NEW d \in Dependencies[s] PROVE ~ Reported(d)'
      <4>1. d \in Tasks
        BY <3>5, StructureAssumption
      <4> QED
        BY <2>8, <3>2, <3>5, <4>1 DEF ReportsFew, HeadIs
    <3> QED
      BY <2>2, <3>3, <3>4, <3>5 DEF Spared
  <2> QED
    BY <1>3, <2>1, <2>2, <2>4, <2>6, <2>7, <2>8
       DEF CancelInv, PendingStopped, KeepsEnding
<1> QED
  BY <1>3 DEF PendingStopped, Covered

LEMMA CancelPush ==
  ASSUME SaidInv, OrderInv, CancelInv, Steady, agenda # <<>>,
         NEW calls \in Seq(Calls), agenda' = calls \o Tail(agenda),
         CallsMild(calls), TakesOnly, EndsFew, ReportsFew(calls), Forgetful(calls),
         KeepsEnding(calls)
  PROVE  CancelInv'
<1>1. TerminatedTold' /\ PendingOnce'
  BY ToldPush, PendingPush DEF CancelInv
<1>2. ReportsKnown' /\ NewNotReported' /\ PendingStopped'
  BY ReportsPush, NewPush, StoppedPush DEF CancelInv
<1> QED
  BY <1>1, <1>2 DEF CancelInv

-----------------------------------------------------------------------------
(***************************************************************************)
(* Calls that neither end, report nor forget a task                        *)
(***************************************************************************)

\* Lists of calls that add nothing and do not end a task at once.
MildOps == (PlainOps \ {"terminated"}) \cup ForgettingOps
MildCalls == {calls \in Seq(Calls) : \A i \in DOMAIN calls : calls[i].op \in MildOps}

LEMMA NoMildCall == <<>> \in MildCalls
BY DEF MildCalls

LEMMA OneMildCall ==
  ASSUME NEW t \in Tasks, NEW op \in MildOps
  PROVE  <<Call(op, t)>> \in MildCalls
<1>1. <<Call(op, t)>> \in Seq(Calls) /\ DOMAIN <<Call(op, t)>> = {1}
      /\ <<Call(op, t)>>[1] = Call(op, t) /\ Call(op, t).op = op
  BY CallIs DEF MildOps
<1> QED
  BY <1>1 DEF MildCalls

LEMMA EachMildCall ==
  ASSUME NEW ts \in SUBSET Tasks, NEW op \in MildOps
  PROVE  CallEach(op, ts) \in MildCalls
<1>1. PICK each : each = CallEach(op, ts)
  OBVIOUS
<1>2. EachOf(op, ts, each)
  BY <1>1, EachIs DEF MildOps
<1> QED
  BY <1>1, <1>2 DEF EachOf, MildCalls

LEMMA MildConcat ==
  ASSUME NEW s \in MildCalls, NEW r \in MildCalls
  PROVE  s \o r \in MildCalls
<1>1. PICK all : all = s \o r
  OBVIOUS
<1>2. JoinOf(s, r, all)
  BY <1>1, Joined DEF MildCalls
<1>3. ASSUME NEW k \in DOMAIN all PROVE all[k].op \in MildOps
  <2>1. /\ \A i \in DOMAIN s : s[i].op \in MildOps
        /\ \A i \in DOMAIN r : r[i].op \in MildOps
    BY DEF MildCalls
  <2> QED
    BY <1>2, <2>1 DEF JoinOf
<1> QED
  BY <1>1, <1>2, <1>3 DEF JoinOf, MildCalls

LEMMA MildSignal ==
  ASSUME NEW t \in Tasks, NEW st \in TaskStatus
  PROVE  statusChanged(t, st) \in MildCalls
<1>1. ASSUME NEW op \in SlotOps PROVE <<Slot(op, t, st)>> \in MildCalls
  <2>1. Slot(op, t, st) \in Calls /\ Slot(op, t, st).op = op /\ op \in MildOps
    BY DEF Slot, Calls, Entry, PlainOps, MildOps, SlotOps
  <2> QED
    BY <2>1 DEF MildCalls
<1> DEFINE up == IF IsParent(t) THEN <<>> ELSE <<Slot("subTaskStatusChanged", t, st)>>
           toManager == IF t \in mTasks THEN <<Slot("taskStatusChanged", t, st)>>
                                        ELSE <<>>
<1>2. up \in MildCalls /\ toManager \in MildCalls
  BY <1>1, NoMildCall DEF SlotOps
<1>3. statusChanged(t, st) = up \o toManager
  BY DEF statusChanged
<1> HIDE DEF up, toManager
<1> QED
  BY <1>2, <1>3, MildConcat

\* The calls of QgsTask and QgsTaskManager that leave the manager's lists, and
\* what is to be terminated, alone.
MildStep(t) ==
  \/ ProcessSubTasksForTermination(t) \/ ProcessSubTasksForCompletion(t)
  \/ EndReported(t) \/ Hold(t) \/ SetOnHold(t) \/ ProcessSubTasksForHold(t)
  \/ Unhold(t) \/ SubTaskStatusChanged(t) \/ CancelDependent(t)
  \/ CancelForLayer(t) \/ CleanupAll(t)

LEMMA MildStepCalls ==
  ASSUME SaidInv, NEW t \in Tasks, MildStep(t)
  PROVE  \E calls \in MildCalls : agenda' = calls \o Tail(agenda)
<1>1. /\ mSubTasks(t) \in SUBSET Tasks /\ mTasks \in SUBSET Tasks
      /\ AgendaSaid
  BY DEF mSubTasks, SaidInv, StateTyped
<1>2. /\ {"processSubTasksForTermination", "taskTerminated", "taskCompleted", "hold",
          "setOnHold", "processSubTasksForHold", "unhold", "cancel", "cleanup",
          "processSubTasksForCompletion"} \subseteq MildOps
      /\ {"Terminated", "Complete", "OnHold", "Queued"} \subseteq TaskStatus
  BY DEF MildOps, PlainOps, ForgettingOps, TaskStatus
<1> SUFFICES \E calls \in MildCalls : Continue(calls)
  BY DEF Continue
<1>3. CASE ProcessSubTasksForTermination(t)
  <2>1. \/ Continue(<<>>)
        \/ Continue(statusChanged(t, "Terminated") \o <<Call("taskTerminated", t)>>)
    BY <1>3 DEF ProcessSubTasksForTermination
  <2>2. /\ statusChanged(t, "Terminated") \in MildCalls
        /\ <<Call("taskTerminated", t)>> \in MildCalls
    BY <1>2, MildSignal, OneMildCall
  <2> QED
    BY <2>1, <2>2, NoMildCall, MildConcat
<1>4. CASE ProcessSubTasksForCompletion(t)
  <2>1. \/ Continue(<<>>)
        \/ Continue(statusChanged(t, "Complete") \o <<Call("taskCompleted", t)>>)
    BY <1>4 DEF ProcessSubTasksForCompletion
  <2>2. /\ statusChanged(t, "Complete") \in MildCalls
        /\ <<Call("taskCompleted", t)>> \in MildCalls
    BY <1>2, MildSignal, OneMildCall
  <2> QED
    BY <2>1, <2>2, NoMildCall, MildConcat
<1>5. CASE EndReported(t)
  BY <1>5, NoMildCall DEF EndReported
<1>6. CASE Hold(t)
  <2>1. \/ Continue(<<>> \o CallEach("hold", mSubTasks(t)))
        \/ Continue(<<Call("setOnHold", t)>> \o CallEach("hold", mSubTasks(t)))
    BY <1>6 DEF Hold
  <2>2. /\ CallEach("hold", mSubTasks(t)) \in MildCalls
        /\ <<Call("setOnHold", t)>> \in MildCalls
    BY <1>1, <1>2, EachMildCall, OneMildCall
  <2> QED
    BY <2>1, <2>2, NoMildCall, MildConcat
<1>7. CASE SetOnHold(t)
  BY <1>2, <1>7, OneMildCall DEF SetOnHold
<1>8. CASE ProcessSubTasksForHold(t)
  <2>1. Continue(<<>>) \/ Continue(statusChanged(t, "OnHold"))
    BY <1>8 DEF ProcessSubTasksForHold
  <2> QED
    BY <1>2, <2>1, NoMildCall, MildSignal
<1>9. CASE Unhold(t)
  <2>1. \/ Continue(<<>> \o CallEach("unhold", mSubTasks(t)))
        \/ Continue(statusChanged(t, "Queued") \o CallEach("unhold", mSubTasks(t)))
    BY <1>9 DEF Unhold
  <2>2. /\ CallEach("unhold", mSubTasks(t)) \in MildCalls
        /\ statusChanged(t, "Queued") \in MildCalls
    BY <1>1, <1>2, EachMildCall, MildSignal
  <2> QED
    BY <2>1, <2>2, NoMildCall, MildConcat
<1>10. CASE SubTaskStatusChanged(t)
  <2>1. PICK p : p = Parent[t]
    OBVIOUS
  <2>2. \/ Continue(<<>>)
        \/ \E op \in {"processSubTasksForCompletion", "processSubTasksForTermination",
                      "processSubTasksForHold", "cancel"} : Continue(<<Call(op, p)>>)
    BY <1>10, <2>1, Zenon DEF SubTaskStatusChanged
  <2>3. p \in Tasks
    <3>1. 1 \in DOMAIN agenda /\ agenda[1].op = "subTaskStatusChanged" /\ agenda[1].task = t
      BY <1>1, <1>10 DEF SubTaskStatusChanged, Running, AgendaSaid
    <3> QED
      BY <1>1, <2>1, <3>1 DEF AgendaSaid, EntryAgrees
  <2> QED
    BY <1>2, <2>2, <2>3, NoMildCall, OneMildCall
<1>11. CASE CancelDependent(t) \/ CancelForLayer(t)
  <2>1. Continue(<<>>) \/ Continue(<<Call("cancel", t)>>)
    BY <1>11 DEF CancelDependent, CancelForLayer
  <2> QED
    BY <1>2, <2>1, NoMildCall, OneMildCall
<1>12. CASE CleanupAll(t)
  BY <1>1, <1>2, <1>12, EachMildCall DEF CleanupAll
<1> QED
  BY <1>3, <1>4, <1>5, <1>6, <1>7, <1>8, <1>9, <1>10, <1>11, <1>12 DEF MildStep

LEMMA MildCancel ==
  ASSUME SaidInv, OrderInv, CancelInv, NEW t \in Tasks, MildStep(t)
  PROVE  CancelInv'
<1>1. Steady /\ StateTyped
  BY MainSteady DEF MainStep, MildStep, SaidInv
<1>2. PICK calls \in MildCalls : agenda' = calls \o Tail(agenda)
  BY MildStepCalls
<1>3. calls \in Seq(Calls) /\ \A i \in DOMAIN calls : calls[i].op \in MildOps
  BY DEF MildCalls
<1>4. /\ agenda # <<>>
      /\ Head(agenda).op \in
           {"processSubTasksForTermination", "processSubTasksForCompletion",
            "taskCompleted", "taskTerminated", "hold", "setOnHold",
            "processSubTasksForHold", "unhold", "subTaskStatusChanged",
            "cancelDependent", "cancelForLayer", "cleanupAll"}
  BY DEF MildStep, ProcessSubTasksForTermination, ProcessSubTasksForCompletion,
         EndReported, Hold, SetOnHold, ProcessSubTasksForHold, Unhold,
         SubTaskStatusChanged, CancelDependent, CancelForLayer, CleanupAll, Running
<1>5. CallsMild(calls)
  <2>1. ASSUME NEW i \in DOMAIN calls
        PROVE  calls[i].op \notin AddingOps \cup {"terminated"}
    BY <1>3 DEF MildOps, PlainOps, SlotOps, ForgettingOps, AddingOps
  <2> QED
    BY <1>4, <2>1 DEF CallsMild, AddingOps
<1>6. UNCHANGED <<mShouldTerminate, mTasks, mTaskDependencies, added, everAdded,
                  finishedCalls>>
  BY DEF MildStep, ProcessSubTasksForTermination, ProcessSubTasksForCompletion,
         EndReported, Hold, SetOnHold, ProcessSubTasksForHold, Unhold,
         SubTaskStatusChanged, CancelDependent, CancelForLayer, CleanupAll,
         taskVars, managerVars, historyVars
<1>7. \A u \in Tasks : mStatus'[u] = "Terminated" => mStatus[u] = "Terminated"
  <2>1. CASE SetOnHold(t)
    BY <1>1, <2>1 DEF SetOnHold, StateTyped
  <2>2. CASE Unhold(t)
    BY <1>1, <2>2 DEF Unhold, StateTyped
  <2>3. CASE ~ SetOnHold(t) /\ ~ Unhold(t)
    BY <2>3
       DEF MildStep, ProcessSubTasksForTermination, ProcessSubTasksForCompletion,
           EndReported, Hold, ProcessSubTasksForHold, SubTaskStatusChanged,
           CancelDependent, CancelForLayer, CleanupAll, taskVars
  <2> QED
    BY <2>1, <2>2, <2>3
<1>8. TakesOnly /\ EndsFew
  BY <1>6, <1>7 DEF TakesOnly, EndsFew
<1>9. ReportsFew(calls) /\ Forgetful(calls) /\ KeepsEnding(calls)
  BY <1>4, <1>6 DEF ReportsFew, Reported, Forgetful, HeadIs, KeepsEnding, NewStops
<1> QED
  BY <1>1, <1>2, <1>3, <1>4, <1>5, <1>8, <1>9, CancelPush

-----------------------------------------------------------------------------
(***************************************************************************)
(* cancel() and terminated()                                               *)
(***************************************************************************)

\* A call that changes no list and reports nothing.
LEMMA SilentCancel ==
  ASSUME SaidInv, OrderInv, CancelInv, Steady, agenda # <<>>,
         Head(agenda).op \in {"cancel", "cancelRest", "terminated"},
         NEW calls \in Seq(Calls), agenda' = calls \o Tail(agenda),
         CallsMild(calls), EndsFew, KeepsEnding(calls),
         mShouldTerminate \subseteq mShouldTerminate',
         UNCHANGED <<mTasks, mTaskDependencies, added, everAdded, finishedCalls>>
  PROVE  CancelInv'
<1>1. TakesOnly
  BY DEF TakesOnly
<1>2. ReportsFew(calls) /\ Forgetful(calls)
  BY DEF ReportsFew, Reported, Forgetful, HeadIs
<1> QED
  BY <1>1, <1>2, CancelPush

LEMMA SetTerminatedCancel ==
  ASSUME SaidInv, OrderInv, CancelInv, NEW t \in Tasks, SetTerminated(t)
  PROVE  CancelInv'
<1>1. Steady /\ StateTyped
  BY MainSteady DEF MainStep, SaidInv
<1>2. /\ agenda # <<>> /\ Head(agenda) \in Calls
      /\ Head(agenda).op = "terminated" /\ Head(agenda).task = t
  BY HeadKnown DEF SetTerminated
<1> DEFINE end == Call("processSubTasksForTermination", t)
<1>0. /\ <<end>> \in Seq(Calls) /\ DOMAIN <<end>> = {1} /\ <<end>>[1] = end
      /\ end.op = "processSubTasksForTermination"
  BY CallIs DEF PlainOps
<1>3. PICK calls \in Seq(Calls) :
        /\ calls = <<end>>
        /\ \A i \in DOMAIN calls : calls[i].op = "processSubTasksForTermination"
  <2> HIDE DEF end
  <2> QED
    BY <1>0
<1>4. agenda' = calls \o Tail(agenda)
  BY <1>3 DEF SetTerminated, Continue
<1> HIDE DEF end
<1>5. /\ mStatus'[t] = "Terminated" /\ \A u \in Tasks \ {t} : mStatus'[u] = mStatus[u]
      /\ UNCHANGED <<mShouldTerminate, mTasks, mTaskDependencies, added, everAdded,
                     finishedCalls>>
  BY <1>1 DEF SetTerminated, StateTyped, managerVars, historyVars
<1>6. CallsMild(calls)
  BY <1>2, <1>3 DEF CallsMild, AddingOps
<1>7. EndsFew
  BY <1>2, <1>5 DEF EndsFew, HeadIs
<1>8. KeepsEnding(calls)
  BY <1>2, <1>5 DEF KeepsEnding, NewStops
<1> QED
  BY <1>1, <1>2, <1>4, <1>5, <1>6, <1>7, <1>8, SilentCancel

LEMMA CancelCancel ==
  ASSUME SaidInv, OrderInv, CancelInv, NEW t \in Tasks, Cancel(t)
  PROVE  CancelInv'
<1>1. Steady /\ StateTyped /\ StatusesAgree
  BY MainSteady DEF MainStep, SaidInv
<1>2. /\ agenda # <<>> /\ Head(agenda) \in Calls
      /\ Head(agenda).op = "cancel" /\ Head(agenda).task = t
  BY HeadKnown DEF Cancel
<1> DEFINE stop == Call("terminated", t)
           rest == Call("cancelRest", t)
<1>3. /\ stop \in Calls /\ stop.op = "terminated" /\ stop.task = t
      /\ rest \in Calls /\ rest.op = "cancelRest" /\ rest.task = t
      /\ <<stop>> \in Seq(Calls) /\ <<rest>> \in Seq(Calls)
      /\ <<stop>> # <<>> /\ <<stop>>[1] = stop /\ DOMAIN <<stop>> = {1}
      /\ <<rest>>[1] = rest /\ DOMAIN <<rest>> = {1}
  BY CallIs DEF PlainOps
<1>4. \/ mOverallStatus[t] \in Finished /\ Continue(<<>>) /\ UNCHANGED mShouldTerminate
      \/ /\ mOverallStatus[t] \notin Finished
         /\ mShouldTerminate' = mShouldTerminate \cup {t}
         /\ Continue((IF mStatus[t] \in {"Queued", "OnHold"} THEN <<stop>> ELSE <<>>)
                       \o <<rest>>)
  BY DEF Cancel
<1>5. /\ UNCHANGED <<mStatus, mTasks, mTaskDependencies, added, everAdded, finishedCalls>>
      /\ mShouldTerminate \subseteq mShouldTerminate'
  BY <1>4 DEF Cancel, managerVars, historyVars
<1>6. EndsFew
  BY <1>5 DEF EndsFew
<1>7. ASSUME NEW s \in Tasks, Pending(s), mStatus[s] # "Terminated",
             Head(agenda) \in NewStops(s)
      PROVE  /\ mOverallStatus[t] \notin Finished
             /\ s = t => mStatus[t] \in {"Queued", "OnHold"} /\ stop \in NewStops(s)
             /\ s # t => rest \in NewStops(s)
  <2>1. s \notin added
    BY <1>7 DEF CancelInv, PendingOnce, Pending, OnStack
  <2>2. s = t \/ Parent[s] = t
    BY <1>2, <1>7 DEF NewStops
  <2>3. mOverallStatus[t] \notin Finished
    BY <1>1, <1>7, <2>1, <2>2 DEF StatusesAgree, StatusAgrees, AllSettled, mSubTasks, Settled
  <2>4. s = t => mStatus[t] \in {"Queued", "OnHold"}
    BY <1>1, <1>7, <2>1 DEF StatusesAgree, StatusAgrees
  <2> QED
    BY <1>3, <2>2, <2>3, <2>4 DEF NewStops
<1> HIDE DEF stop, rest
<1>8. CASE mOverallStatus[t] \in Finished
  <2>1. agenda' = <<>> \o Tail(agenda)
    BY <1>4, <1>8 DEF Continue
  <2>2. CallsMild(<<>>)
    BY <1>2 DEF CallsMild, AddingOps
  <2>3. KeepsEnding(<<>>)
    BY <1>5, <1>7, <1>8 DEF KeepsEnding
  <2>4. PICK none \in Seq(Calls) : none = <<>>
    BY NoMildCall DEF MildCalls
  <2> QED
    BY <1>1, <1>2, <1>5, <1>6, <2>1, <2>2, <2>3, <2>4, SilentCancel
<1>9. CASE mOverallStatus[t] \notin Finished
  <2>1. PICK first : first = IF mStatus[t] \in {"Queued", "OnHold"} THEN <<stop>> ELSE <<>>
    OBVIOUS
  <2>2. PICK calls : calls = first \o <<rest>>
    OBVIOUS
  <2>3. first \in Seq(Calls) /\ \A i \in DOMAIN first : first[i] = stop
    BY <1>3, <2>1
  <2>4. PICK last \in Seq(Calls) : last = <<rest>> /\ last[1] = rest /\ DOMAIN last = {1}
    BY <1>3
  <2>5. JoinOf(first, last, calls)
    BY <2>2, <2>3, <2>4, Joined
  <2>6. agenda' = calls \o Tail(agenda) /\ calls \in Seq(Calls)
    BY <1>4, <1>9, <2>1, <2>2, <2>5 DEF Continue, JoinOf
  <2>7. CallsMild(calls)
    <3>1. \A k \in DOMAIN calls : calls[k] = stop \/ calls[k] = rest
      BY <2>3, <2>4, <2>5 DEF JoinOf
    <3>2. t \in mShouldTerminate'
      BY <1>4, <1>9
    <3> QED
      BY <1>2, <1>3, <3>1, <3>2 DEF CallsMild, AddingOps, HeadIs
  <2>8. KeepsEnding(calls)
    <3>1. \E k \in DOMAIN calls : calls[k] = rest
      BY <2>4, <2>5 DEF JoinOf
    <3>2. mStatus[t] \in {"Queued", "OnHold"} => \E k \in DOMAIN calls : calls[k] = stop
      <4>1. ASSUME mStatus[t] \in {"Queued", "OnHold"}
            PROVE  1 \in DOMAIN first /\ first[1] = stop
        BY <1>3, <2>1, <4>1
      <4> QED
        BY <2>5, <4>1 DEF JoinOf
    <3> QED
      BY <1>5, <1>7, <3>1, <3>2 DEF KeepsEnding
  <2> QED
    BY <1>1, <1>2, <1>5, <1>6, <2>6, <2>7, <2>8, SilentCancel
<1> QED
  BY <1>8, <1>9

LEMMA CancelRestCancel ==
  ASSUME SaidInv, OrderInv, CancelInv, NEW t \in Tasks, CancelRest(t)
  PROVE  CancelInv'
<1>1. Steady
  BY MainSteady DEF MainStep
<1>2. /\ agenda # <<>> /\ Head(agenda) \in Calls
      /\ Head(agenda).op = "cancelRest" /\ Head(agenda).task = t
  BY HeadKnown DEF CancelRest
<1>3. mSubTasks(t) \in SUBSET Tasks
  BY DEF mSubTasks
<1> DEFINE end == Call("processSubTasksForTermination", t)
<1>4. /\ end \in Calls /\ end.op = "processSubTasksForTermination"
      /\ <<end>> \in Seq(Calls) /\ <<end>>[1] = end /\ DOMAIN <<end>> = {1}
  BY CallIs DEF PlainOps
<1> HIDE DEF end
<1>5. PICK first : first = IF mStatus[t] = "Terminated" THEN <<end>> ELSE <<>>
  OBVIOUS
<1>6. PICK each : each = CallEach("cancel", mSubTasks(t))
  OBVIOUS
<1>7. PICK calls : calls = first \o each
  OBVIOUS
<1>8. agenda' = calls \o Tail(agenda)
  BY <1>5, <1>6, <1>7 DEF CancelRest, Continue, end
<1>9. first \in Seq(Calls) /\ \A i \in DOMAIN first : first[i] = end
  BY <1>4, <1>5
<1>10. EachOf("cancel", mSubTasks(t), each)
  BY <1>3, <1>6, EachIs DEF PlainOps
<1>11. JoinOf(first, each, calls)
  BY <1>7, <1>9, <1>10, Joined DEF EachOf
<1>12. CallsMild(calls) /\ calls \in Seq(Calls)
  <2>1. ASSUME NEW k \in DOMAIN calls
        PROVE  calls[k].op \in {"processSubTasksForTermination", "cancel"}
    <3>1. \/ \E i \in DOMAIN first : calls[k] = first[i]
          \/ \E i \in DOMAIN each : calls[k] = each[i]
      BY <1>11 DEF JoinOf
    <3> QED
      BY <1>4, <1>9, <1>10, <3>1 DEF EachOf
  <2> QED
    BY <1>2, <1>11, <2>1 DEF CallsMild, AddingOps, JoinOf
<1>13. KeepsEnding(calls)
  <2>1. ASSUME NEW s \in Tasks, Head(agenda) \in NewStops(s)
        PROVE  \E k \in DOMAIN calls : calls[k] \in NewStops(s)
    <3>1. s \in mSubTasks(t)
      BY <1>2, <2>1 DEF NewStops, mSubTasks
    <3>2. Call("cancel", s) \in NewStops(s)
      BY CallIs DEF PlainOps, NewStops
    <3>3. PICK i \in DOMAIN each : each[i] = Call("cancel", s)
      BY <1>10, <3>1 DEF EachOf
    <3> QED
      BY <1>11, <3>2, <3>3 DEF JoinOf
  <2> QED
    BY <2>1 DEF KeepsEnding
<1>14. UNCHANGED <<mStatus, mShouldTerminate, mTasks, mTaskDependencies, added,
                   everAdded, finishedCalls>>
  BY DEF CancelRest, taskVars, managerVars, historyVars
<1>15. EndsFew
  BY <1>14 DEF EndsFew
<1> QED
  BY <1>1, <1>2, <1>8, <1>12, <1>13, <1>14, <1>15, SilentCancel

-----------------------------------------------------------------------------
(***************************************************************************)
(* Calls of QgsTaskManager                                                 *)
(***************************************************************************)

LEMMA ProcessQueueCancel ==
  ASSUME SaidInv, OrderInv, CancelInv, NEW t \in Tasks, ProcessQueue(t)
  PROVE  CancelInv'
<1>1. Steady
  BY MainSteady DEF MainStep
<1>2. /\ agenda # <<>> /\ Head(agenda) \in Calls
      /\ Head(agenda).op = "processQueue" /\ Head(agenda).task = t
  BY HeadKnown DEF ProcessQueue
<1>3. /\ \E ready \in SUBSET mTasks : added' = added \cup ready
      /\ agenda' = <<>> \o Tail(agenda)
      /\ UNCHANGED <<mStatus, mShouldTerminate, mTasks, mTaskDependencies, everAdded,
                     finishedCalls>>
  BY DEF ProcessQueue, Continue, taskVars, historyVars
<1>4. PICK calls \in Seq(Calls) :
        /\ agenda' = calls \o Tail(agenda)
        /\ \A i \in DOMAIN calls : FALSE
        /\ \A D, S : Covered(calls, D, S)
  BY <1>3, NoCallPushed
<1>5. CallsMild(calls) /\ KeepsEnding(calls)
  BY <1>2, <1>4 DEF CallsMild, AddingOps, KeepsEnding, NewStops
<1>6. TakesOnly /\ EndsFew
  BY <1>2, <1>3 DEF TakesOnly, EndsFew
<1>7. ReportsFew(calls) /\ Forgetful(calls)
  BY <1>2, <1>3 DEF ReportsFew, Reported, Forgetful, HeadIs
<1> QED
  BY <1>1, <1>2, <1>4, <1>5, <1>6, <1>7, CancelPush

LEMMA ForgetCancel ==
  ASSUME SaidInv, OrderInv, CancelInv, NEW t \in Tasks, ForgetDependency(t)
  PROVE  CancelInv'
<1>1. Steady
  BY MainSteady DEF MainStep
<1>2. /\ agenda # <<>> /\ Head(agenda) \in Calls
      /\ Head(agenda).op = "forget" /\ Head(agenda).task = t
  BY HeadKnown DEF ForgetDependency
<1>3. /\ mTaskDependencies' = [u \in Tasks |-> mTaskDependencies[u] \ {t}]
      /\ agenda' = <<>> \o Tail(agenda)
      /\ UNCHANGED <<mStatus, mShouldTerminate, mTasks, added, everAdded, finishedCalls>>
  BY DEF ForgetDependency, Continue, taskVars, historyVars
<1>4. PICK calls \in Seq(Calls) :
        /\ agenda' = calls \o Tail(agenda)
        /\ \A i \in DOMAIN calls : FALSE
        /\ \A D, S : Covered(calls, D, S)
  BY <1>3, NoCallPushed
<1>5. CallsMild(calls) /\ KeepsEnding(calls)
  BY <1>2, <1>4 DEF CallsMild, AddingOps, KeepsEnding, NewStops
<1>6. TakesOnly /\ EndsFew
  BY <1>2, <1>3 DEF TakesOnly, EndsFew
<1>7. ReportsFew(calls) /\ Forgetful(calls)
  BY <1>2, <1>3 DEF ReportsFew, Reported, Forgetful, HeadIs
<1> QED
  BY <1>1, <1>2, <1>4, <1>5, <1>6, <1>7, CancelPush

LEMMA CleanupCancel ==
  ASSUME SaidInv, OrderInv, CancelInv, NEW t \in Tasks, CleanupAndDeleteTask(t)
  PROVE  CancelInv'
<1>1. Steady /\ StateTyped
  BY MainSteady DEF MainStep, SaidInv
<1>2. /\ agenda # <<>> /\ Head(agenda) \in Calls
      /\ Head(agenda).op = "cleanup" /\ Head(agenda).task = t
  BY HeadKnown DEF CleanupAndDeleteTask
<1>3. /\ mTasks' = mTasks \ {t}
      /\ \A u \in Tasks : mTaskDependencies'[u] \subseteq mTaskDependencies[u]
      /\ UNCHANGED <<mStatus, mShouldTerminate, added, everAdded, finishedCalls>>
  <2>1. CASE t \notin mTasks
    BY <2>1 DEF CleanupAndDeleteTask, historyVars
  <2>2. CASE t \in mTasks
    BY <1>1, <2>2 DEF CleanupAndDeleteTask, historyVars, StateTyped
  <2> QED
    BY <2>1, <2>2
<1> DEFINE cancel == Call("cancel", t)
           forget == Call("forget", t)
<1>4. /\ cancel \in Calls /\ cancel.op = "cancel" /\ cancel.task = t
      /\ forget \in Calls /\ forget.op = "forget" /\ forget.task = t
  BY CallIs DEF PlainOps, ForgettingOps
<1>5. \/ Continue(<<>>) /\ t \notin mTasks
      \/ Continue(<<forget>>) \/ Continue(<<cancel, forget>>)
  BY DEF CleanupAndDeleteTask
<1> HIDE DEF cancel, forget
<1>6. PICK calls \in Seq(Calls) :
        /\ agenda' = calls \o Tail(agenda)
        /\ \A i \in DOMAIN calls : calls[i] = cancel \/ calls[i] = forget
        /\ t \in mTasks => \E i \in DOMAIN calls : calls[i] = forget
  <2>1. CASE Continue(<<>>) /\ t \notin mTasks
    <3>1. agenda' = <<>> \o Tail(agenda)
      BY <2>1 DEF Continue
    <3> QED
      BY <2>1, <3>1, NoCallPushed
  <2>2. CASE Continue(<<forget>>)
    <3>1. PICK calls : calls = <<forget>>
      OBVIOUS
    <3>2. /\ calls \in Seq(Calls) /\ \A i \in DOMAIN calls : calls[i] = forget
          /\ 1 \in DOMAIN calls
      BY <1>4, <3>1
    <3>3. agenda' = calls \o Tail(agenda)
      BY <2>2, <3>1 DEF Continue
    <3> QED
      BY <3>2, <3>3
  <2>3. CASE Continue(<<cancel, forget>>)
    <3>1. PICK calls : calls = <<cancel, forget>>
      OBVIOUS
    <3>2. agenda' = calls \o Tail(agenda) /\ PairOf(cancel, forget, calls)
      BY <1>4, <2>3, <3>1, PairIs DEF Continue
    <3> QED
      BY <3>2 DEF PairOf
  <2> QED
    BY <1>5, <2>1, <2>2, <2>3
<1>7. CallsMild(calls) /\ KeepsEnding(calls)
  <2>1. \A i \in DOMAIN calls : calls[i].op \in {"cancel", "forget"}
    BY <1>4, <1>6
  <2> QED
    BY <1>2, <2>1 DEF CallsMild, AddingOps, KeepsEnding, NewStops
<1>8. TakesOnly /\ EndsFew
  BY <1>2, <1>3 DEF TakesOnly, EndsFew
<1>9. ReportsFew(calls) /\ Forgetful(calls)
  <2>1. t \in mTasks => Makes(calls, "forget", t)
    BY <1>4, <1>6 DEF Makes
  <2> QED
    BY <1>2, <1>3, <2>1 DEF ReportsFew, Reported, Forgetful, HeadIs
<1> QED
  BY <1>1, <1>2, <1>6, <1>7, <1>8, <1>9, CancelPush

LEMMA TaskStatusCancel ==
  ASSUME SaidInv, OrderInv, CancelInv, NEW t \in Tasks, TaskStatusChanged(t)
  PROVE  CancelInv'
<1>1. Steady /\ StateTyped
  BY MainSteady DEF MainStep, SaidInv
<1>2. /\ agenda # <<>> /\ Head(agenda) \in Calls
      /\ Head(agenda).op = "taskStatusChanged" /\ Head(agenda).task = t
  BY HeadKnown DEF TaskStatusChanged
<1>3. PICK st : st = Head(agenda).status
  OBVIOUS
<1>4. PICK dependents \in SUBSET Tasks : dependents = {u \in Tasks : t \in mTaskDependencies[u]}
  OBVIOUS
<1> DEFINE queue == Call("processQueue", t)
           clean == Call("cleanup", t)
<1>5. UNCHANGED <<mStatus, mShouldTerminate, mTasks, mTaskDependencies, added, everAdded>>
  BY DEF TaskStatusChanged, taskVars, managerVars
<1>6. /\ <<queue>> \in MildCalls /\ <<clean>> \in MildCalls
      /\ <<clean>>[1] = clean /\ DOMAIN <<clean>> = {1}
      /\ clean.op = "cleanup" /\ clean.task = t
      /\ CallEach("cancelDependent", dependents) \in MildCalls
  BY OneMildCall, EachMildCall, CallIs DEF MildOps, PlainOps, ForgettingOps
<1>7. \/ /\ agenda' = <<>> \o Tail(agenda)
         /\ finishedCalls' = finishedCalls
      \/ /\ agenda' = ((IF st = "Terminated" THEN CallEach("cancelDependent", dependents)
                                             ELSE <<>>)
                        \o <<queue>> \o (IF st \in Finished THEN <<clean>> ELSE <<>>))
                      \o Tail(agenda)
         /\ t \in mTasks
         /\ finishedCalls' = [finishedCalls EXCEPT ![t] =
              IF st \in Finished THEN Append(@, st = "Complete") ELSE @]
  BY <1>3, <1>4 DEF TaskStatusChanged, Continue
<1> HIDE DEF queue, clean
<1>8. PICK calls \in MildCalls :
        /\ agenda' = calls \o Tail(agenda)
        /\ \/ finishedCalls' = finishedCalls
           \/ /\ t \in mTasks
              /\ st \in Finished => \E i \in DOMAIN calls : calls[i] = clean
              /\ finishedCalls' = [finishedCalls EXCEPT ![t] =
                   IF st \in Finished THEN Append(@, st = "Complete") ELSE @]
  <2>1. CASE agenda' = <<>> \o Tail(agenda) /\ finishedCalls' = finishedCalls
    BY <2>1, NoMildCall
  <2>2. CASE ~ (agenda' = <<>> \o Tail(agenda) /\ finishedCalls' = finishedCalls)
    <3>1. PICK stops : stops = IF st = "Terminated"
                                 THEN CallEach("cancelDependent", dependents) ELSE <<>>
      OBVIOUS
    <3>2. PICK last : last = IF st \in Finished THEN <<clean>> ELSE <<>>
      OBVIOUS
    <3>3. PICK first : first = stops \o <<queue>>
      OBVIOUS
    <3>4. PICK calls : calls = first \o last
      OBVIOUS
    <3>5. agenda' = calls \o Tail(agenda)
      BY <1>7, <2>2, <3>1, <3>2, <3>3, <3>4
    <3>6. stops \in MildCalls /\ last \in MildCalls
      BY <1>6, <3>1, <3>2, NoMildCall
    <3>7. first \in MildCalls /\ calls \in MildCalls
      BY <1>6, <3>3, <3>4, <3>6, MildConcat
    <3>8. st \in Finished => \E i \in DOMAIN calls : calls[i] = clean
      <4>1. JoinOf(first, last, calls)
        BY <3>4, <3>6, <3>7, Joined DEF MildCalls
      <4>2. st \in Finished => 1 \in DOMAIN last /\ last[1] = clean
        BY <1>6, <3>2
      <4> QED
        BY <4>1, <4>2 DEF JoinOf
    <3> QED
      BY <1>7, <2>2, <3>5, <3>7, <3>8
  <2> QED
    BY <2>1, <2>2
<1>9. calls \in Seq(Calls) /\ CallsMild(calls)
  <2>1. ASSUME NEW i \in DOMAIN calls
        PROVE  calls[i].op \notin AddingOps \cup {"terminated"}
    BY DEF MildCalls, MildOps, PlainOps, SlotOps, ForgettingOps, AddingOps
  <2> QED
    BY <1>2, <2>1 DEF CallsMild, AddingOps, MildCalls
<1>10. TakesOnly /\ EndsFew
  BY <1>5 DEF TakesOnly, EndsFew
<1>11. KeepsEnding(calls) /\ Forgetful(calls)
  BY <1>2, <1>5 DEF KeepsEnding, NewStops, Forgetful, HeadIs
<1>12. ReportsFew(calls)
  <2>1. ASSUME NEW d \in Tasks, Reported(d)', ~ Reported(d)
        PROVE  d = t /\ t \in mTasks /\ st \in Finished
    <3>1. finishedCalls'[d] # finishedCalls[d]
      BY <2>1 DEF Reported
    <3> QED
      BY <1>1, <1>8, <3>1 DEF StateTyped
  <2>2. ASSUME NEW d \in Tasks, Reported(d)', ~ Reported(d)
        PROVE  Makes(calls, "cleanup", d)
    <3>1. finishedCalls' # finishedCalls
      BY <2>2 DEF Reported
    <3> QED
      BY <1>6, <1>8, <2>1, <2>2, <3>1 DEF Makes
  <2> QED
    BY <1>2, <2>1, <2>2 DEF ReportsFew, HeadIs
<1> QED
  BY <1>1, <1>2, <1>8, <1>9, <1>10, <1>11, <1>12, CancelPush

-----------------------------------------------------------------------------
(***************************************************************************)
(* Tasks are added                                                         *)
(***************************************************************************)

\* The calls of CallEach are about different tasks.
LEMMA EachOnce ==
  ASSUME NEW op \in PlainOps \cup ForgettingOps \cup AddingOps,
         NEW ts \in SUBSET Tasks, NEW each, each = CallEach(op, ts)
  PROVE  \A i, j \in DOMAIN each : each[i].task = each[j].task => i = j
<1> DEFINE n == Cardinality(ts)
           inOrder == SetToSeq(ts)
<1>1. IsFiniteSet(ts) /\ n \in Nat
  <2>1. IsFiniteSet(ts)
    BY StructureAssumption, FS_Subset
  <2> QED
    BY <2>1, FS_CardinalityType
<1>2. inOrder \in [1 .. n -> ts] /\ IsInjective(inOrder)
  <2>1. \E f \in [1 .. n -> ts] : IsInjective(f)
    <3>1. PICK m \in Nat : ExistsBijection(1 .. m, ts)
      BY <1>1, FS_NatBijection
    <3>2. m = n
      BY <3>1, FS_CountingElements
    <3> QED
      BY <3>1, <3>2 DEF ExistsBijection, Bijection, Injection
  <2> QED
    BY <2>1 DEF SetToSeq
<1>3. each = [i \in 1 .. n |-> Call(op, inOrder[i])]
  BY DEF CallEach
<1> HIDE DEF inOrder, n
<1>4. \A i \in DOMAIN each : i \in 1 .. n /\ each[i].task = inOrder[i]
  BY <1>3 DEF Call
<1> QED
  BY <1>2, <1>4 DEF IsInjective

\* While a task is added, what was reported is forgotten altogether.
LEMMA ReportedForgotten ==
  ASSUME CancelInv, NEW d \in Tasks, Reported(d),
         \A i \in DOMAIN agenda : agenda[i].op \notin {"cleanup", "forget"}
  PROVE  d \in everAdded /\ d \notin mTasks /\ ~ Pending(d) /\ Unneeded(d)
BY DEF CancelInv, ReportsKnown, OnStack

LEMMA RecordCancel ==
  ASSUME SaidInv, OrderInv, CancelInv, NEW t \in Tasks,
         AddSubTask(t) \/ ResolveDependencies(t)
  PROVE  CancelInv'
<1>1. /\ TasksKnown /\ StateTyped /\ agenda \in Seq(Calls)
      /\ AgendaKnown /\ AgendaOrdered
  BY DEF OrderInv, SaidInv, AgendaSaid
<1>2. PICK op \in AddingOps :
        /\ Running(op, t)
        /\ op = "resolveDependencies" => mTasks' = mTasks
  BY DEF AddSubTask, ResolveDependencies, AddingOps
<1>3. /\ agenda # <<>> /\ Head(agenda) \in Calls
      /\ Head(agenda).op = op /\ Head(agenda).task = t
      /\ op = "addSubTask" => ~ IsParent(t)
      /\ Head(agenda) = agenda[1] /\ 1 \in DOMAIN agenda
  <2>1. /\ agenda # <<>> /\ Head(agenda) \in Calls
        /\ Head(agenda).op = op /\ Head(agenda).task = t /\ EntryKnown(Head(agenda))
    BY <1>2, HeadKnown
  <2>2. Head(agenda) = agenda[1] /\ 1 \in DOMAIN agenda
    BY <1>1, <2>1
  <2> QED
    BY <2>1, <2>2 DEF EntryKnown, AddingOps
<1>4. ASSUME NEW j \in DOMAIN agenda, j > 1
      PROVE  /\ agenda[j].op \in AddingOps \cup {"processQueue"}
             /\ op = "resolveDependencies" => agenda[j].op = "processQueue"
  BY <1>1, <1>3, <1>4 DEF AgendaOrdered, AddingOps
<1>5. /\ mTasks \subseteq mTasks' /\ mTasks' \subseteq mTasks \cup {t}
      /\ mTaskDependencies'[t] = AllDependencies(t)
      /\ \A u \in Tasks \ {t} : mTaskDependencies'[u] = mTaskDependencies[u]
      /\ Continue(<<>>) \/ Continue(<<Call("cancel", t)>>)
      /\ UNCHANGED <<mStatus, mShouldTerminate, added, everAdded, finishedCalls>>
  BY <1>1 DEF AddSubTask, ResolveDependencies, RecordDependencies, StateTyped,
              taskVars, historyVars
<1>6. PICK calls \in Seq(Calls) :
        /\ agenda' = calls \o Tail(agenda)
        /\ \A i \in DOMAIN calls : calls[i].op = "cancel" /\ calls[i].task = t
  <2>1. CASE Continue(<<>>)
    <3>1. agenda' = <<>> \o Tail(agenda)
      BY <2>1 DEF Continue
    <3> QED
      BY <3>1, NoCallPushed
  <2>2. CASE Continue(<<Call("cancel", t)>>)
    <3>1. PICK calls : calls = <<Call("cancel", t)>>
      OBVIOUS
    <3>2. calls \in Seq(Calls) /\ \A i \in DOMAIN calls : calls[i] = Call("cancel", t)
      BY <3>1, CallIs DEF PlainOps
    <3>3. agenda' = calls \o Tail(agenda)
      BY <2>2, <3>1 DEF Continue
    <3> QED
      BY <3>2, <3>3 DEF Call
  <2> QED
    BY <1>5, <2>1, <2>2
<1> DEFINE n == Len(calls)
<1>7. /\ n \in Nat /\ DOMAIN calls = 1 .. n
      /\ DOMAIN agenda' = 1 .. Len(agenda') /\ Len(agenda') \in Nat
      /\ DOMAIN agenda = 1 .. Len(agenda) /\ Len(agenda) \in Nat
      /\ \A i \in 1 .. n : agenda'[i] = calls[i]
      /\ \A i \in DOMAIN agenda' : i > n =>
           /\ i - n + 1 \in DOMAIN agenda /\ i - n + 1 > 1
           /\ agenda'[i] = agenda[i - n + 1]
  <2>1. PICK all : all = agenda'
    OBVIOUS
  <2>2. all = calls \o Tail(agenda)
    BY <1>6, <2>1
  <2>3. all \in Seq(Calls)
    BY <1>1, <1>3, <2>2, PushedCalls
  <2>4. Len(all) \in Nat
    BY <2>3
  <2> QED
    BY <1>1, <1>3, <2>1, <2>2, <2>4, PushedCalls
<1> HIDE DEF n
<1>8. ASSUME NEW i \in DOMAIN agenda', agenda'[i].op # "cancel"
      PROVE  /\ i > n /\ i - n + 1 \in DOMAIN agenda /\ i - n + 1 > 1
             /\ agenda'[i] = agenda[i - n + 1]
             /\ agenda'[i].op \in AddingOps \cup {"processQueue"}
             /\ agenda'[i].op \in AddingOps => op = "addSubTask"
  <2>1. i > n
    BY <1>6, <1>7, <1>8
  <2>2. PICK j \in DOMAIN agenda : j = i - n + 1 /\ j > 1 /\ agenda'[i] = agenda[j]
    BY <1>7, <2>1
  <2>3. /\ agenda[j].op \in AddingOps \cup {"processQueue"}
        /\ op = "resolveDependencies" => agenda[j].op = "processQueue"
    BY <1>4, <2>2
  <2> QED
    BY <1>2, <2>1, <2>2, <2>3 DEF AddingOps
<1>9. ASSUME NEW u, Resolving(u)'
      PROVE  Resolving(u) /\ u # t
  <2>1. PICK j \in DOMAIN agenda' :
          agenda'[j].op = "resolveDependencies" /\ agenda'[j].task = u
    BY <1>9 DEF Resolving
  <2>2. PICK i \in DOMAIN agenda : agenda'[j] = agenda[i] /\ op = "addSubTask"
    BY <1>8, <2>1 DEF AddingOps
  <2>3. IsParent(u)
    BY <1>1, <2>1, <2>2 DEF AgendaKnown, EntryKnown
  <2> QED
    BY <1>3, <2>1, <2>2, <2>3 DEF Resolving
<1>10. ASSUME NEW u, u # t, Resolving(u)
       PROVE  Resolving(u)'
  <2>1. ~ HeadIs("resolveDependencies", u)
    BY <1>3, <1>10 DEF HeadIs
  <2> QED
    BY <1>1, <1>3, <1>6, <1>10, <2>1, ResolvingIsCall, StackPushed
<1>11. ASSUME NEW i \in DOMAIN agenda', agenda'[i].op = "addSubTask"
       PROVE  /\ i - n + 1 \in DOMAIN agenda /\ agenda'[i] = agenda[i - n + 1]
              /\ op = "addSubTask" /\ agenda'[i].task # t
  <2>1. PICK j \in DOMAIN agenda : j = i - n + 1 /\ j > 1 /\ agenda'[i] = agenda[j]
    BY <1>8, <1>11
  <2>2. op = "addSubTask"
    BY <1>8, <1>11 DEF AddingOps
  <2>3. agenda[j].task # agenda[1].task
    BY <1>3, <1>11, <2>1, <2>2 DEF CancelInv, PendingOnce
  <2> QED
    BY <1>3, <2>1, <2>2, <2>3
<1>12. ASSUME NEW s, Pending(s)'
       PROVE  Pending(s) /\ op = "addSubTask" /\ s # t
  BY <1>11, <1>12 DEF Pending, OnStack
<1>13. TerminatedTold'
  <2>1. \A i \in DOMAIN agenda' : agenda'[i].op # "terminated"
    BY <1>8 DEF AddingOps
  <2> QED
    BY <1>5, <2>1 DEF CancelInv, TerminatedTold
<1>14. PendingOnce'
  <2>1. ASSUME NEW i \in DOMAIN agenda', agenda'[i].op = "addSubTask"
        PROVE  /\ agenda'[i].task \notin mTasks' \cup added'
               /\ Resolving(Parent[agenda[i].task])'
               /\ \A j \in DOMAIN agenda' :
                    agenda'[j].op = "addSubTask" /\ agenda'[j].task = agenda'[i].task => i = j
    <3>1. PICK k \in DOMAIN agenda : k = i - n + 1 /\ agenda'[i] = agenda[k]
      BY <1>11, <2>1
    <3>2. PICK s, p : s = agenda'[i].task /\ p = Parent[s]
      OBVIOUS
    <3>3. s \notin mTasks \cup added /\ Resolving(p) /\ s # t /\ op = "addSubTask"
      BY <1>11, <2>1, <3>1, <3>2 DEF CancelInv, PendingOnce
    <3>4. p # t
      <4>1. s \in Tasks /\ ~ IsParent(s)
        BY <1>1, <2>1, <3>1, <3>2, EntryTyped DEF AgendaKnown, EntryKnown
      <4> QED
        BY <1>3, <3>2, <3>3, <4>1, OneLevel, StructureAssumption DEF IsParent
    <3>5. Resolving(p)'
      BY <1>10, <3>3, <3>4
    <3>6. ASSUME NEW j \in DOMAIN agenda',
                 agenda'[j].op = "addSubTask", agenda'[j].task = agenda'[i].task
          PROVE  i = j
      <4>1. PICK m \in DOMAIN agenda : m = j - n + 1 /\ agenda'[j] = agenda[m]
        BY <1>11, <3>6
      <4>2. k = m
        BY <2>1, <3>1, <3>6, <4>1 DEF CancelInv, PendingOnce
      <4> QED
        BY <1>7, <3>1, <4>1, <4>2
    <3>7. Resolving(Parent[agenda[i].task])'
      BY <3>2, <3>5 DEF Resolving
    <3> QED
      BY <1>5, <3>2, <3>3, <3>6, <3>7
  <2> QED
    BY <2>1 DEF PendingOnce
<1>15. ASSUME NEW d \in Tasks, Reported(d)
       PROVE  /\ d \in everAdded /\ d \notin mTasks' /\ ~ Pending(d) /\ Unneeded(d)
              /\ op = "addSubTask" => d # t
  <2>1. \A i \in DOMAIN agenda : agenda[i].op \notin {"cleanup", "forget"}
    <3>1. \A i \in DOMAIN agenda : i = 1 \/ i > 1
      BY <1>1
    <3> QED
      BY <1>3, <1>4, <3>1 DEF AddingOps
  <2>2. d \in everAdded /\ d \notin mTasks /\ ~ Pending(d) /\ Unneeded(d)
    BY <1>15, <2>1, ReportedForgotten
  <2>3. op = "addSubTask" => d # t
    BY <1>3, <2>2 DEF Pending, OnStack
  <2> QED
    BY <1>2, <1>5, <2>2, <2>3 DEF AddingOps
<1>16. ASSUME Waiting(t)', NEW d \in AllDependencies(t) PROVE ~ Reported(d)
  <2>1. CASE op = "resolveDependencies"
    <3>1. Waiting(t) /\ Resolving(t)
      BY <1>2, <1>3, <1>5, <1>16, <2>1 DEF Waiting, Resolving
    <3> QED
      BY <1>16, <3>1 DEF CancelInv, NewNotReported
  <2>2. CASE op = "addSubTask"
    <3>1. Pending(t) /\ mStatus[t] # "Terminated"
      BY <1>3, <1>5, <1>16, <2>2 DEF Waiting, Pending, OnStack
    <3>2. ~ Covered(agenda, Adds(t), NewStops(t))
      BY <1>1, <1>3, <2>2, HeadUncovered DEF Adds
    <3>3. mSubTasks(t) = {}
      BY <1>3, <2>2, OneLevel DEF IsParent
    <3> QED
      BY <1>16, <3>1, <3>2, <3>3 DEF CancelInv, PendingStopped, AllDependencies
  <2> QED
    BY <1>2, <2>1, <2>2 DEF AddingOps
<1>17. ReportsKnown'
  <2>1. ASSUME NEW d \in Tasks, Reported(d)
        PROVE  Unneeded(d)'
    <3>1. ASSUME NEW u \in Tasks, Waiting(u)', ~ Resolving(u)'
          PROVE  d \notin mTaskDependencies'[u]
      <4>1. CASE u = t
        BY <1>5, <1>16, <2>1, <3>1, <4>1
      <4>2. CASE u # t
        <5>1. Waiting(u) /\ ~ Resolving(u)
          BY <1>5, <1>10, <3>1, <4>2 DEF Waiting
        <5> QED
          BY <1>5, <1>15, <2>1, <4>2, <5>1 DEF Unneeded
      <4> QED
        BY <4>1, <4>2
    <3> QED
      BY <3>1 DEF Unneeded
  <2>2. ASSUME NEW d \in Tasks, Reported(d)'
        PROVE  d \in everAdded' /\ ~ Pending(d)' /\ d \notin mTasks' /\ Unneeded(d)'
    <3>1. Reported(d)
      BY <1>5, <2>2 DEF Reported
    <3> QED
      BY <1>5, <1>12, <1>15, <2>1, <3>1
  <2> QED
    BY <2>2 DEF ReportsKnown
<1>18. NewNotReported'
  <2>1. ASSUME NEW u \in Tasks, Waiting(u)', Resolving(u)', NEW d \in AllDependencies(u)
        PROVE  ~ Reported(d)'
    <3>1. Resolving(u) /\ Waiting(u)
      BY <1>5, <1>9, <2>1 DEF Waiting
    <3> QED
      BY <1>5, <2>1, <3>1 DEF CancelInv, NewNotReported, Reported
  <2> QED
    BY <2>1 DEF NewNotReported, AllDependencies, mSubTasks
<1>19. PendingStopped'
  <2>1. ASSUME NEW s \in Tasks, Pending(s)', mStatus'[s] # "Terminated"
        PROVE  \/ Covered(agenda', Adds(s), NewStops(s))
               \/ Spared(Parent[s])' /\ \A d \in Dependencies[s] : ~ Reported(d)'
    <3>1. Pending(s) /\ op = "addSubTask" /\ mStatus[s] # "Terminated"
      BY <1>5, <1>12, <2>1
    <3>2. CASE Covered(agenda, Adds(s), NewStops(s))
      <4>1. Covered(calls, Adds(s), NewStops(s))
        BY <1>6, NoneToCover DEF Adds
      <4>2. Head(agenda) \notin NewStops(s)
        BY <1>3, <3>1 DEF NewStops
      <4> QED
        BY <1>1, <1>3, <1>6, <3>2, <4>1, <4>2, CoverPush
    <3>3. CASE Spared(Parent[s]) /\ \A d \in Dependencies[s] : ~ Reported(d)
      <4>1. PICK p : p = Parent[s]
        OBVIOUS
      <4>2. Waiting(p)'
        BY <1>5, <3>3, <4>1 DEF Spared, Waiting
      <4>3. ~ OnStack("terminated", p)'
        BY <1>8 DEF OnStack, AddingOps
      <4>4. \A d \in Dependencies[s] : ~ Reported(d)'
        BY <1>5, <3>3 DEF Reported
      <4> QED
        BY <4>1, <4>2, <4>3, <4>4 DEF Spared
    <3> QED
      BY <3>1, <3>2, <3>3 DEF CancelInv, PendingStopped
  <2> QED
    BY <2>1 DEF PendingStopped, Covered
<1> QED
  BY <1>13, <1>14, <1>17, <1>18, <1>19 DEF CancelInv

LEMMA AddTaskCancel ==
  ASSUME SaidInv, OrderInv, CancelInv, NEW t \in Tasks, AddTask(t)
  PROVE  CancelInv'
<1>1. TasksKnown /\ StateTyped
  BY DEF OrderInv, SaidInv
<1>2. /\ agenda = <<>> /\ IsParent(t) /\ t \notin everAdded
      /\ mTasks' = mTasks \cup {t}
      /\ everAdded' = everAdded \cup {t} \cup mSubTasks(t)
      /\ \A u \in {t} \cup mSubTasks(t) : \A d \in Dependencies[u] :
           d \in everAdded => d \in mTasks
      /\ UNCHANGED <<mStatus, mShouldTerminate, mTaskDependencies, added, finishedCalls>>
  BY DEF AddTask, EventLoop, taskVars
<1>3. DOMAIN agenda = {}
  BY <1>2
<1>4. PICK subs : subs = mSubTasks(t)
  OBVIOUS
<1>5. /\ subs \in SUBSET Tasks /\ t \notin subs
      /\ \A s \in subs : Parent[s] = t /\ s \notin everAdded
  <2>1. ASSUME NEW s \in subs
        PROVE  s \in Tasks /\ Parent[s] = t /\ ~ IsParent(s)
    BY <1>4, OneLevel, StructureAssumption DEF mSubTasks
  <2> QED
    BY <1>1, <1>2, <2>1 DEF TasksKnown
<1>6. PICK each : each = CallEach("addSubTask", subs)
  OBVIOUS
<1>7. /\ EachOf("addSubTask", subs, each)
      /\ \A i, j \in DOMAIN each : each[i].task = each[j].task => i = j
  <2>1. "addSubTask" \in AddingOps
    BY DEF AddingOps
  <2> QED
    BY <1>5, <1>6, <2>1, EachIs, EachOnce
<1>8. PICK resolve \in Calls, queue \in Calls :
        resolve = Call("resolveDependencies", t) /\ queue = Call("processQueue", t)
  BY CallIs DEF AddingOps, PlainOps
<1>9. /\ resolve.op = "resolveDependencies" /\ resolve.task = t
      /\ queue.op = "processQueue" /\ queue.task = t
  BY <1>8 DEF Call
<1>10. PICK end : end = <<resolve, queue>>
  OBVIOUS
<1>11. /\ end \in Seq(Calls) /\ Len(end) = 2 /\ end[1] = resolve /\ end[2] = queue
       /\ 1 \in 1 .. Len(end) /\ 2 \in 1 .. Len(end)
  BY <1>10
<1>12. agenda' = each \o end
  BY <1>4, <1>6, <1>8, <1>10 DEF AddTask
<1> DEFINE n == Len(each)
<1>13. /\ n \in Nat /\ DOMAIN each = 1 .. n
       /\ DOMAIN agenda' = 1 .. n + 2
       /\ \A i \in 1 .. n : agenda'[i] = each[i]
       /\ agenda'[n + 1] = resolve /\ agenda'[n + 2] = queue
  <2>1. each \in Seq(Calls)
    BY <1>7 DEF EachOf
  <2>2. PICK all : all = agenda'
    OBVIOUS
  <2> HIDE DEF n
  <2>3. all = each \o end
    BY <1>12, <2>2
  <2>4. PlacesOf(each, end, all)
    BY <1>11, <2>1, <2>3, JoinedPlaces
  <2>5. all[Len(each) + 1] = resolve /\ all[Len(each) + 2] = queue
    BY <1>11, <2>4 DEF PlacesOf
  <2> QED
    BY <1>11, <2>2, <2>4, <2>5 DEF n, PlacesOf
<1> HIDE DEF n
<1>14. ASSUME NEW i \in DOMAIN agenda'
       PROVE  \/ /\ i \in DOMAIN each /\ agenda'[i] = each[i]
                 /\ agenda'[i].op = "addSubTask" /\ agenda'[i].task \in subs
              \/ agenda'[i] = resolve
              \/ agenda'[i] = queue
  <2>1. \A k \in DOMAIN each : each[k].op = "addSubTask" /\ each[k].task \in subs
    BY <1>7 DEF EachOf
  <2> QED
    BY <1>13, <2>1
<1>15. ASSUME NEW u PROVE Resolving(u)' <=> u = t
  <2>1. Resolving(u)' => u = t
    BY <1>9, <1>14 DEF Resolving
  <2>2. n + 1 \in DOMAIN agenda'
    BY <1>13
  <2> QED
    BY <1>9, <1>13, <2>1, <2>2 DEF Resolving
<1>16. ASSUME NEW s, Pending(s)' PROVE s \in subs
  BY <1>9, <1>14, <1>16 DEF Pending, OnStack
<1>17. ASSUME NEW d \in Tasks, Reported(d)
       PROVE  d \in everAdded /\ d \notin mTasks /\ Unneeded(d)
  BY <1>3, <1>17, ReportedForgotten
<1>18. ASSUME NEW u \in {t} \cup subs, NEW d \in AllDependencies(u)
       PROVE  ~ Reported(d)
  <2>1. CASE d \in Dependencies[u]
    <3>1. d \in Tasks
      BY <1>5, <1>18, <2>1, StructureAssumption
    <3> QED
      BY <1>2, <1>4, <1>17, <1>18, <2>1, <3>1
  <2>2. CASE d \in mSubTasks(u)
    <3>1. d \in subs \/ (d \in mSubTasks(u) /\ u \in subs)
      BY <1>4, <1>18, <2>2
    <3>2. ~ (d \in mSubTasks(u) /\ u \in subs)
      BY <1>4, OneLevel, StructureAssumption DEF mSubTasks
    <3> QED
      BY <1>5, <1>17, <3>1, <3>2
  <2> QED
    BY <1>18, <2>1, <2>2 DEF AllDependencies
<1>19. TerminatedTold'
  BY <1>2, <1>9, <1>14 DEF CancelInv, TerminatedTold
<1>20. PendingOnce'
  <2>1. ASSUME NEW i \in DOMAIN agenda', agenda'[i].op = "addSubTask"
        PROVE  /\ agenda'[i].task \notin mTasks' \cup added'
               /\ Resolving(Parent[agenda[i].task])'
               /\ \A j \in DOMAIN agenda' :
                    agenda'[j].op = "addSubTask" /\ agenda'[j].task = agenda'[i].task => i = j
    <3>1. PICK s : s = agenda'[i].task
      OBVIOUS
    <3>2. i \in DOMAIN each /\ agenda'[i] = each[i] /\ s \in subs
      BY <1>9, <1>14, <2>1, <3>1
    <3>3. s \notin mTasks' \cup added'
      BY <1>1, <1>2, <1>5, <3>2 DEF TasksKnown
    <3>4. PICK p : p = Parent[s] /\ p = t
      BY <1>5, <3>2
    <3>5. Resolving(p)'
      BY <1>15, <3>4
    <3>6. Resolving(Parent[agenda[i].task])'
      BY <3>1, <3>4, <3>5 DEF Resolving
    <3>7. ASSUME NEW j \in DOMAIN agenda',
                 agenda'[j].op = "addSubTask", agenda'[j].task = agenda'[i].task
          PROVE  i = j
      <4>1. j \in DOMAIN each /\ agenda'[j] = each[j]
        BY <1>9, <1>14, <3>7
      <4> QED
        BY <1>7, <3>2, <3>7, <4>1
    <3> QED
      BY <3>1, <3>3, <3>6, <3>7
  <2> QED
    BY <2>1 DEF PendingOnce
<1>21. ReportsKnown'
  <2>1. ASSUME NEW d \in Tasks, Reported(d)'
        PROVE  d \in everAdded' /\ ~ Pending(d)' /\ d \notin mTasks' /\ Unneeded(d)'
    <3>1. Reported(d)
      BY <1>2, <2>1 DEF Reported
    <3>2. d \in everAdded /\ d \notin mTasks /\ Unneeded(d)
      BY <1>17, <3>1
    <3>3. ASSUME NEW u \in Tasks, Waiting(u)', ~ Resolving(u)'
          PROVE  d \notin mTaskDependencies'[u]
      <4>1. Waiting(u) /\ ~ Resolving(u)
        BY <1>2, <1>3, <1>15, <3>3 DEF Waiting, Resolving
      <4> QED
        BY <1>2, <3>2, <4>1 DEF Unneeded
    <3>4. ~ Pending(d)'
      BY <1>5, <1>16, <3>2
    <3> QED
      BY <1>2, <3>2, <3>3, <3>4 DEF Unneeded
  <2> QED
    BY <2>1 DEF ReportsKnown
<1>22. NewNotReported'
  <2>1. ASSUME NEW u \in Tasks, Resolving(u)', NEW d \in AllDependencies(u)
        PROVE  ~ Reported(d)'
    BY <1>2, <1>15, <1>18, <2>1 DEF Reported
  <2> QED
    BY <2>1 DEF NewNotReported, AllDependencies, mSubTasks
<1>23. PendingStopped'
  <2>1. ASSUME NEW s \in Tasks, Pending(s)'
        PROVE  Spared(Parent[s])' /\ \A d \in Dependencies[s] : ~ Reported(d)'
    <3>1. PICK p : p = Parent[s] /\ p = t /\ s \in subs
      BY <1>5, <1>16, <2>1
    <3>2. Waiting(p)'
      <4>1. mStatus'[t] = "Queued" /\ t \notin added
        BY <1>1, <1>2 DEF TasksKnown
      <4> QED
        BY <1>2, <3>1, <4>1 DEF Waiting
    <3>3. ~ OnStack("terminated", p)'
      BY <1>9, <1>14 DEF OnStack
    <3>4. \A d \in Dependencies[s] : ~ Reported(d)'
      BY <1>2, <1>18, <3>1 DEF Reported, AllDependencies
    <3> QED
      BY <3>1, <3>2, <3>3, <3>4 DEF Spared
  <2> QED
    BY <2>1 DEF PendingStopped
<1> QED
  BY <1>19, <1>20, <1>21, <1>22, <1>23 DEF CancelInv

-----------------------------------------------------------------------------
(***************************************************************************)
(* Other calls from the event loop, and pool threads                       *)
(***************************************************************************)

LEMMA LoopCancel ==
  ASSUME SaidInv, OrderInv, CancelInv, agenda = <<>>,
         UNCHANGED <<mStatus, mShouldTerminate, mTasks, mTaskDependencies, added,
                     everAdded, finishedCalls>>,
         \A i \in DOMAIN agenda' : agenda'[i].op \notin AddingOps \cup {"terminated"}
  PROVE  CancelInv'
<1>1. DOMAIN agenda = {}
  OBVIOUS
<1>2. \A u : ~ Resolving(u) /\ ~ Resolving(u)' /\ ~ Pending(u)'
  BY <1>1 DEF Resolving, Pending, OnStack, AddingOps
<1>3. TerminatedTold' /\ PendingOnce' /\ NewNotReported' /\ PendingStopped'
  <2>1. TerminatedTold' /\ PendingOnce'
    BY DEF CancelInv, TerminatedTold, PendingOnce, AddingOps
  <2> QED
    BY <1>2, <2>1 DEF NewNotReported, PendingStopped
<1>4. ReportsKnown'
  <2>1. ASSUME NEW d \in Tasks, Reported(d)'
        PROVE  d \in everAdded' /\ ~ Pending(d)' /\ d \notin mTasks' /\ Unneeded(d)'
    <3>1. Reported(d)
      BY <2>1 DEF Reported
    <3>2. d \in everAdded /\ d \notin mTasks /\ Unneeded(d)
      BY <1>1, <3>1, ReportedForgotten
    <3>3. Unneeded(d)'
      BY <1>2, <3>2 DEF Unneeded, Waiting
    <3> QED
      BY <1>2, <3>2, <3>3
  <2> QED
    BY <2>1 DEF ReportsKnown
<1> QED
  BY <1>3, <1>4 DEF CancelInv

LEMMA LoopStepsCancel ==
  ASSUME SaidInv, OrderInv, CancelInv,
         \/ \E t \in Tasks : UserCancel(t) \/ UserHold(t) \/ UserUnhold(t)
         \/ CancelAll \/ DestroyManager \/ DeliverEvent
         \/ \E layer \in UNION {Layers[t] : t \in Tasks} : LayersWillBeRemoved(layer)
  PROVE  CancelInv'
<1>1. mTasks \subseteq Tasks /\ events \in Seq(Events)
  BY DEF SaidInv, StateTyped, EventsSaid
<1>2. /\ agenda = <<>>
      /\ UNCHANGED <<mStatus, mShouldTerminate, mTasks, mTaskDependencies, added,
                     everAdded, finishedCalls>>
  BY DEF UserCancel, UserHold, UserUnhold, Callable, CancelAll, LayersWillBeRemoved,
         DestroyManager, DeliverEvent, EventLoop, taskVars, managerVars, historyVars
<1>3. agenda' \in MildCalls
  <2>1. ASSUME NEW t \in Tasks, UserCancel(t) \/ UserHold(t) \/ UserUnhold(t)
        PROVE  agenda' \in MildCalls
    BY <2>1, OneMildCall DEF UserCancel, UserHold, UserUnhold, MildOps, PlainOps
  <2>2. CASE CancelAll
    BY <1>1, <2>2, EachMildCall DEF CancelAll, MildOps, PlainOps
  <2>3. ASSUME NEW layer, LayersWillBeRemoved(layer)
        PROVE  agenda' \in MildCalls
    BY <1>1, <2>3, EachMildCall DEF LayersWillBeRemoved, MildOps, PlainOps
  <2>4. CASE DestroyManager
    <3>1. PICK last : last = CHOOSE t \in Tasks : TRUE
      OBVIOUS
    <3>2. last \in Tasks
      BY <3>1, StructureAssumption
    <3>3. <<Call("cleanupAll", last)>> \in MildCalls
      BY <3>2, OneMildCall DEF MildOps, ForgettingOps
    <3>4. CallEach("cancel", {t \in mTasks : IsParent(t)}) \in MildCalls
      BY <1>1, EachMildCall DEF MildOps, PlainOps
    <3> QED
      BY <2>4, <3>1, <3>3, <3>4, MildConcat DEF DestroyManager
  <2>5. CASE DeliverEvent
    <3>1. PICK event : event = Head(events)
      OBVIOUS
    <3>2. event \in Events
      BY <1>1, <2>5, <3>1 DEF DeliverEvent
    <3>3. CASE event.op = "delete"
      BY <1>2, <2>5, <3>1, <3>3, NoMildCall DEF DeliverEvent
    <3>4. CASE event.op # "delete"
      <4>1. event \in Calls /\ event.op \in MildOps
        BY <3>2, <3>4 DEF Events, Calls, Entry, MildOps, PlainOps, SlotOps
      <4>2. PICK calls : calls = <<event>>
        OBVIOUS
      <4>3. calls \in Seq(Calls) /\ \A i \in DOMAIN calls : calls[i] = event
        BY <4>1, <4>2
      <4>4. calls \in MildCalls
        BY <4>1, <4>3 DEF MildCalls
      <4>5. agenda' = calls \/ agenda' = <<>>
        BY <2>5, <3>1, <3>4, <4>2 DEF DeliverEvent
      <4> QED
        BY <4>4, <4>5, NoMildCall
    <3> QED
      BY <3>3, <3>4
  <2> QED
    BY <2>1, <2>2, <2>3, <2>4, <2>5
<1>4. \A i \in DOMAIN agenda' : agenda'[i].op \notin AddingOps \cup {"terminated"}
  BY <1>3 DEF MildCalls, MildOps, PlainOps, SlotOps, ForgettingOps, AddingOps
<1> QED
  BY <1>2, <1>4, LoopCancel

LEMMA AsideCancel ==
  ASSUME SaidInv, CancelInv,
         UNCHANGED <<agenda, mShouldTerminate, mTasks, mTaskDependencies, added,
                     everAdded, finishedCalls>>,
         \A u \in Tasks : mStatus'[u] = mStatus[u] \/ u \in added
  PROVE  CancelInv'
<1>1. mTasks \subseteq Tasks
  BY DEF SaidInv, StateTyped
<1>2. \A u : /\ Waiting(u)' <=> Waiting(u)
             /\ Resolving(u)' <=> Resolving(u)
             /\ Reported(u)' <=> Reported(u)
  BY <1>1 DEF Waiting, Resolving, Reported
<1>3. \A op, u : OnStack(op, u)' <=> OnStack(op, u)
  BY DEF OnStack
<1>4. TerminatedTold' /\ PendingOnce'
  <2>1. TerminatedTold'
    BY DEF CancelInv, TerminatedTold
  <2> QED
    BY <2>1 DEF CancelInv, PendingOnce, Resolving
<1>5. ReportsKnown'
  BY <1>2, <1>3 DEF CancelInv, ReportsKnown, Unneeded, Pending
<1>6. NewNotReported'
  BY <1>2 DEF CancelInv, NewNotReported, AllDependencies, mSubTasks
<1>7. PendingStopped'
  <2>1. ASSUME NEW s \in Tasks, Pending(s)', mStatus'[s] # "Terminated"
        PROVE  \/ Covered(agenda', Adds(s), NewStops(s))
               \/ Spared(Parent[s])' /\ \A d \in Dependencies[s] : ~ Reported(d)'
    <3>1. Pending(s)
      BY <1>3, <2>1 DEF Pending
    <3>2. mStatus[s] # "Terminated"
      BY <2>1, <3>1 DEF CancelInv, PendingOnce, Pending, OnStack
    <3>3. PICK p : p = Parent[s]
      OBVIOUS
    <3>4. \/ Covered(agenda, Adds(s), NewStops(s))
          \/ Spared(p) /\ \A d \in Dependencies[s] : ~ Reported(d)
      BY <3>1, <3>2, <3>3 DEF CancelInv, PendingStopped
    <3>5. Spared(p) => Spared(p)'
      BY <1>2, <1>3 DEF Spared
    <3> QED
      BY <1>2, <3>3, <3>4, <3>5 DEF Spared
  <2> QED
    BY <2>1 DEF PendingStopped, Covered
<1> QED
  BY <1>4, <1>5, <1>6, <1>7 DEF CancelInv

LEMMA PoolStepCancel ==
  ASSUME SaidInv, CancelInv, NEW t \in Tasks, PoolStep(t)
  PROVE  CancelInv'
<1>1. StateTyped /\ StatusAgrees(t)
  BY DEF SaidInv, StatusesAgree
<1>2. t \in added
  <2>1. t \in poolQueue \/ at[t] # "outside"
    BY DEF PoolStep, TakeRunnable, Start, StartRunning, RunReturns, EndOfRun, EmitEnd,
           ReleaseMutex, ReturnFromDeleted, InPool
  <2> QED
    BY <1>1, <2>1 DEF StatusAgrees
<1>3. /\ UNCHANGED <<agenda, mShouldTerminate, mTasks, mTaskDependencies, added,
                     everAdded, finishedCalls>>
      /\ \A u \in Tasks : mStatus'[u] = mStatus[u] \/ u \in added
  BY <1>1, <1>2
     DEF PoolStep, TakeRunnable, Start, StartRunning, RunReturns, EndOfRun, EmitEnd,
         ReleaseMutex, ReturnFromDeleted, taskVars, managerVars, historyVars, StateTyped
<1> QED
  BY <1>3, AsideCancel

LEMMA MainStepCancel ==
  ASSUME SaidInv, OrderInv, CancelInv, NEW t \in Tasks, MainStep(t)
  PROVE  CancelInv'
BY MildCancel, CancelCancel, CancelRestCancel, SetTerminatedCancel, TaskStatusCancel,
   ProcessQueueCancel, CleanupCancel, ForgetCancel, RecordCancel
   DEF MainStep, MildStep

LEMMA InitCancel == Init => CancelInv
<1> SUFFICES ASSUME Init PROVE CancelInv
  OBVIOUS
<1>1. TerminatedTold /\ PendingOnce /\ NewNotReported /\ PendingStopped
  BY DEF Init, TerminatedTold, PendingOnce, NewNotReported, PendingStopped, Waiting,
         Pending, OnStack
<1>2. \A d \in Tasks : ~ Reported(d)
  BY DEF Init, Reported, ToSet
<1>3. ReportsKnown
  BY <1>2 DEF ReportsKnown
<1> QED
  BY <1>1, <1>3 DEF CancelInv

LEMMA StutterCancel ==
  ASSUME SaidInv, CancelInv, UNCHANGED vars
  PROVE  CancelInv'
<1>1. UNCHANGED <<agenda, mStatus, mShouldTerminate, mTasks, mTaskDependencies, added,
                  everAdded, finishedCalls>>
  BY DEF vars, taskVars, managerVars, historyVars
<1> QED
  BY <1>1, AsideCancel

-----------------------------------------------------------------------------
(***************************************************************************)
(* The theorems                                                            *)
(***************************************************************************)

\* Whatever the order of calls, events and threads: a task that was reported is
\* forgotten before the main thread returns, and nothing is added that would
\* wait for it.
THEOREM CancelInductive == Spec => []CancelInv
<1>1. SaidInv /\ OrderInv /\ CancelInv /\ [Next]_vars => CancelInv'
  BY PoolStepCancel, MainStepCancel, AddTaskCancel, LoopStepsCancel, StutterCancel
     DEF Next, UserStep
<1> QED
  BY <1>1, InitCancel, SaidInductive, OrderInductive, PTL DEF Spec

\* A task that depends on a terminated task has been told to terminate once the
\* main thread is back in its event loop.
THEOREM DependentsCancelledHolds == Spec => []DependentsCancelled
<1>1. SaidInv /\ OrderInv /\ CancelInv => DependentsCancelled
  <2> SUFFICES ASSUME SaidInv, OrderInv, CancelInv, agenda = <<>>,
                      NEW t \in mTasks, NEW d \in AllDependencies(t),
                      Reported(d), ~ WhollySucceeded(d)
               PROVE  t \in mShouldTerminate
    BY DEF DependentsCancelled, EventLoop, Reported
  <2>1. t \in Tasks /\ d \in Tasks
    BY StructureAssumption DEF SaidInv, StateTyped, AllDependencies, mSubTasks
  <2>2. t \notin added
    BY DEF OrderInv, AddedAfter
  <2>3. ASSUME Waiting(t) PROVE FALSE
    <3>1. DOMAIN agenda = {}
      OBVIOUS
    <3>2. ~ Resolving(t) /\ Unneeded(d)
      BY <2>1, <3>1, ReportedForgotten DEF Resolving
    <3>3. d \in mTaskDependencies[t]
      BY <2>1, <2>3, <3>2 DEF OrderInv, WaitingSafe, DependenciesKept
    <3> QED
      BY <2>1, <2>3, <3>2, <3>3 DEF Unneeded
  <2> QED
    BY <2>1, <2>2, <2>3 DEF Waiting, CancelInv, TerminatedTold
<1> QED
  BY <1>1, SaidInductive, OrderInductive, CancelInductive, PTL

=============================================================================
