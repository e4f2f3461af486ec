----------------------------- MODULE TaskManager -----------------------------
(***************************************************************************)
(* QgsTask and QgsTaskManager (src/core/qgstaskmanager.cpp, .h).           *)
(*                                                                         *)
(* The manager and every QgsTask object live in the main thread; the       *)
(* body of a task, QgsTask::start(), runs in a thread of the global        *)
(* QThreadPool.  A signal emitted in the main thread calls its slots at    *)
(* once; emitted in a pool thread it posts an event per connected slot,    *)
(* which the main thread handles when it returns to its event loop.        *)
(* No lock protects mStatus and mOverallStatus, so a test of a status and  *)
(* the assignment that follows it are separate steps.                      *)
(*                                                                         *)
(* The main thread's calls nest deeply (cancel() emits a signal whose slot *)
(* cancels dependent tasks, processes the queue and deletes the task).     *)
(* The variable agenda is its call stack, the innermost call first: a      *)
(* step runs the first call up to the calls it makes, which it puts in     *)
(* front of the rest.  Pool threads take steps in between.                 *)
(*                                                                         *)
(* Abstractions: progress is left out; a list that is walked in task id    *)
(* order is walked in a fixed arbitrary order; priorities are left out     *)
(* (the pool may take any queued runnable); finished() does nothing else   *)
(* than being called.                                                      *)
(***************************************************************************)
EXTENDS Integers, FiniteSets, Sequences, SequencesExt, Relation

CONSTANTS
  Tasks,          \* QgsTask objects
  NoTask,         \* nullptr
  Parent,         \* [Tasks -> Tasks \cup {NoTask}], set by addSubTask()
  ParentDepends,  \* subtasks added with ParentDependsOnSubTask
  Dependencies,   \* [Tasks -> SUBSET Tasks], the dependencies given by the user
  Layers,         \* [Tasks -> SUBSET layers], setDependentLayers()
  PoolThreads,    \* threads in the global thread pool
  AddressReuse,   \* may a new runnable get the address of a deleted one?
  UserCalls,      \* calls the application makes in this instance
  MaxHolds        \* bound: calls of hold()

ASSUME StructureAssumption ==
  /\ IsFiniteSet(Tasks) /\ Tasks # {}
  /\ NoTask \notin Tasks
  /\ Parent \in [Tasks -> Tasks \cup {NoTask}]
  \* Bound: one level of subtasks.
  /\ \A t \in Tasks : Parent[t] # NoTask => Parent[Parent[t]] = NoTask
  /\ ParentDepends \subseteq {t \in Tasks : Parent[t] # NoTask}
  /\ Dependencies \in [Tasks -> SUBSET Tasks]
  /\ DOMAIN Layers = Tasks
ASSUME PoolAssumption ==
  /\ PoolThreads \in Nat \ {0}
  /\ AddressReuse \in BOOLEAN
  /\ UserCalls \subseteq {"cancel", "cancelAll", "hold", "removeLayer", "destroy"}
  /\ MaxHolds \in Nat

VARIABLES
  mStatus,          \* status of the task alone
  mOverallStatus,   \* status of the task and its subtasks
  mShouldTerminate, \* tasks told to terminate
  notFinishedLocked,\* tasks whose mNotFinishedMutex is locked
  deleteOnFinish,   \* tasks whose end is connected to deleteLater()
  alive,            \* tasks that have not been deleted
  mTasks,           \* tasks the manager knows (and is connected to)
  mTaskDependencies,\* [Tasks -> SUBSET Tasks]
  added,            \* tasks that have been given to the thread pool
  runnable,         \* [Tasks -> address of the runnable, or NoTask]
  poolQueue,        \* tasks whose runnable waits in the thread pool
  at,               \* [Tasks -> where the pool thread is in start()]
  agenda,           \* call stack of the main thread
  events,           \* events posted to the main thread
  managerExists,
  holds,            \* number of calls of hold()
  \* History, read by no action:
  everAdded,        \* tasks that have been added
  removedLayers,    \* layers that have been removed
  succeeded,        \* tasks whose run() returned TRUE
  finishedCalls     \* [Tasks -> results finished() was called with]

taskVars == <<mStatus, mOverallStatus, mShouldTerminate, notFinishedLocked,
              deleteOnFinish, alive>>
managerVars == <<mTasks, mTaskDependencies, added, runnable, managerExists>>
poolVars == <<poolQueue, at>>
historyVars == <<everAdded, removedLayers, succeeded, finishedCalls>>
vars == <<taskVars, managerVars, poolVars, agenda, events, holds, historyVars>>

TaskStatus == {"Queued", "OnHold", "Running", "Complete", "Terminated"}
Finished == {"Complete", "Terminated"}

mSubTasks(t) == {s \in Tasks : Parent[s] = t}
IsParent(t) == Parent[t] = NoTask

\* Everything that must be complete before the task may run.
AllDependencies(t) == Dependencies[t] \cup (mSubTasks(t) \cap ParentDepends)

\* Calls of the main thread, and the events posted to it.
Call(op, t) == [op |-> op, task |-> t, status |-> "Queued"]
Slot(op, t, st) == [op |-> op, task |-> t, status |-> st]

\* The same call for each task of a list.
CallEach(op, ts) == [i \in 1 .. Cardinality(ts) |-> Call(op, SetToSeq(ts)[i])]

\* The slots that statusChanged( st ) of t is connected to, in the order of
\* their connection: of the parent task first, then of the manager.
statusChanged(t, st) ==
  (IF IsParent(t) THEN <<>> ELSE <<Slot("subTaskStatusChanged", t, st)>>)
    \o (IF t \in mTasks THEN <<Slot("taskStatusChanged", t, st)>> ELSE <<>>)

Init ==
  /\ mStatus = [t \in Tasks |-> "Queued"]
  /\ mOverallStatus = [t \in Tasks |-> "Queued"]
  /\ mShouldTerminate = {}
  /\ notFinishedLocked = {}
  /\ deleteOnFinish = {}
  /\ alive = Tasks
  /\ mTasks = {}
  /\ mTaskDependencies = [t \in Tasks |-> {}]
  /\ added = {}
  /\ runnable = [t \in Tasks |-> NoTask]
  /\ poolQueue = {}
  /\ at = [t \in Tasks |-> "outside"]
  /\ agenda = <<>>
  /\ events = <<>>
  /\ managerExists = TRUE
  /\ holds = 0
  /\ everAdded = {}
  /\ removedLayers = {}
  /\ succeeded = {}
  /\ finishedCalls = [t \in Tasks |-> <<>>]

-----------------------------------------------------------------------------
(***************************************************************************)
(* A thread of the pool: QgsTask::start()                                  *)
(***************************************************************************)

InPool(t) == at[t] \notin {"outside", "returned"}

\* The pool starts a queued runnable when it has a thread to spare.
TakeRunnable(t) ==
  /\ t \in poolQueue
  /\ Cardinality({u \in Tasks : InPool(u)}) < PoolThreads
  /\ poolQueue' = poolQueue \ {t}
  /\ at' = [at EXCEPT ![t] = "start"]
  /\ UNCHANGED <<taskVars, managerVars, agenda, events, holds, historyVars>>

\* Lock mNotFinishedMutex and test the status; the early return keeps the lock.
Start(t) ==
  /\ at[t] = "start"
  /\ t \in alive
  /\ t \notin notFinishedLocked
  /\ notFinishedLocked' = notFinishedLocked \cup {t}
  /\ at' = [at EXCEPT ![t] =
              IF mStatus[t] = "Queued" THEN "setRunning" ELSE "returned"]
  /\ UNCHANGED <<mStatus, mOverallStatus, mShouldTerminate, deleteOnFinish,
                 alive, managerVars, poolQueue, agenda, events, holds,
                 historyVars>>

\* The task is now running, and says so.
StartRunning(t) ==
  /\ at[t] = "setRunning"
  /\ t \in alive
  /\ mStatus' = [mStatus EXCEPT ![t] = "Running"]
  /\ mOverallStatus' = [mOverallStatus EXCEPT ![t] = "Running"]
  /\ events' = events \o statusChanged(t, "Running")
  /\ at' = [at EXCEPT ![t] = "run"]
  /\ UNCHANGED <<mShouldTerminate, notFinishedLocked, deleteOnFinish, alive,
                 managerVars, poolQueue, agenda, holds, historyVars>>

\* run() returns; completed() or terminated() sets the status.
RunReturns(t, result) ==
  /\ at[t] = "run"
  /\ t \in alive
  /\ mStatus' = [mStatus EXCEPT ![t] =
                   IF result THEN "Complete" ELSE "Terminated"]
  /\ at' = [at EXCEPT ![t] = IF result THEN "completed" ELSE "terminated"]
  /\ succeeded' = IF result THEN succeeded \cup {t} ELSE succeeded
  /\ UNCHANGED <<mOverallStatus, mShouldTerminate, notFinishedLocked,
                 deleteOnFinish, alive, managerVars, poolQueue, agenda, events,
                 holds, everAdded, removedLayers, finishedCalls>>

subTasksCompleted(t) ==
  \A s \in mSubTasks(t) : mOverallStatus[s] = "Complete"

subTasksTerminated(t) ==
  \A s \in mSubTasks(t) : mOverallStatus[s] \in Finished

subTasksRunning(t) ==
  \E s \in mSubTasks(t) : mOverallStatus[s] = "Running"

\* Mutant: the subtasks are not waited for.
CompletionIgnoresSubTasks(t) ==
  IF mStatus[t] = "Complete" THEN "report" ELSE "none"

\* What processSubTasksForCompletion() and processSubTasksForTermination()
\* decide: report the end of the task, defer it, or neither.
CompletionVerdict(t) ==
  CASE mStatus[t] = "Complete" /\ subTasksCompleted(t) -> "report"
    [] mStatus[t] = "Complete" /\ ~ subTasksCompleted(t) -> "defer"
    [] OTHER -> "none"

TerminationVerdict(t) ==
  CASE /\ mStatus[t] = "Terminated" /\ subTasksTerminated(t)
       /\ mOverallStatus[t] # "Terminated" -> "report"
    [] mStatus[t] = "Terminated" /\ ~ subTasksTerminated(t) -> "defer"
    [] OTHER -> "none"

\* The status of the task and its subtasks after such a decision.
OverallAfter(t, verdict, status) ==
  [mOverallStatus EXCEPT ![t] = CASE verdict = "report" -> status
                                  [] verdict = "defer" -> "Running"
                                  [] OTHER -> @]

\* processSubTasksForCompletion()/ForTermination() at the end of start(), up to
\* the signal.
EndOfRun(t) ==
  /\ at[t] \in {"completed", "terminated"}
  /\ t \in alive
  /\ LET success == at[t] = "completed"
         verdict == IF success THEN CompletionVerdict(t)
                               ELSE TerminationVerdict(t)
         status == IF success THEN "Complete" ELSE "Terminated"
     IN  /\ mOverallStatus' = OverallAfter(t, verdict, status)
         /\ at' = [at EXCEPT ![t] =
                     IF verdict # "report" THEN "returned"
                     ELSE IF success THEN "emitComplete" ELSE "emitTerminated"]
  /\ UNCHANGED <<mStatus, mShouldTerminate, notFinishedLocked, deleteOnFinish,
                 alive, managerVars, poolQueue, agenda, events, holds,
                 historyVars>>

\* emit statusChanged( Complete ) or statusChanged( Terminated ).
EmitEnd(t) ==
  /\ at[t] \in {"emitComplete", "emitTerminated"}
  /\ t \in alive
  /\ events' = events \o statusChanged(t,
                 IF at[t] = "emitComplete" THEN "Complete" ELSE "Terminated")
  /\ at' = [at EXCEPT ![t] = "release"]
  /\ UNCHANGED <<taskVars, managerVars, poolQueue, agenda, holds, historyVars>>

\* deleteLater() posts an event that deletes the task.
deleteLater(t) == <<Call("delete", t)>>

\* emit taskCompleted()/taskTerminated(), release mNotFinishedMutex, return.
ReleaseMutex(t) ==
  /\ at[t] = "release"
  /\ t \in alive
  /\ notFinishedLocked' = notFinishedLocked \ {t}
  /\ events' = IF t \in deleteOnFinish THEN events \o deleteLater(t)
                                       ELSE events
  /\ at' = [at EXCEPT ![t] = "returned"]
  /\ UNCHANGED <<mStatus, mOverallStatus, mShouldTerminate, deleteOnFinish,
                 alive, managerVars, poolQueue, agenda, holds, historyVars>>

\* A pool thread inside a task that was deleted under it: what it does is
\* undefined; here it leaves without any effect.
ReturnFromDeleted(t) ==
  /\ InPool(t)
  /\ t \notin alive
  /\ at' = [at EXCEPT ![t] = "returned"]
  /\ UNCHANGED <<taskVars, managerVars, poolQueue, agenda, events, holds,
                 historyVars>>

-----------------------------------------------------------------------------
(***************************************************************************)
(* The main thread: calls of QgsTask                                       *)
(***************************************************************************)

\* The innermost call of the main thread is op on t.
Running(op, t) == agenda # <<>> /\ Head(agenda).op = op /\ Head(agenda).task = t

\* It goes on with these calls, and then returns.
Continue(calls) == agenda' = calls \o Tail(agenda)

\* Mutant: the cancellation is passed on to the parent, which may be missing.
CancelPassedUp(t) ==
  /\ Running("cancel", t)
  /\ mShouldTerminate' = mShouldTerminate \cup {t}
  /\ Continue(<<Call("cancel", Parent[t])>>)
  /\ UNCHANGED <<mStatus, mOverallStatus, notFinishedLocked, deleteOnFinish,
                 alive, managerVars, poolVars, events, holds, historyVars>>

\* cancel(): a task that has not started is terminated at once.
Cancel(t) ==
  /\ Running("cancel", t)
  /\ IF mOverallStatus[t] \in Finished
       THEN Continue(<<>>) /\ UNCHANGED mShouldTerminate
       ELSE /\ mShouldTerminate' = mShouldTerminate \cup {t}
            /\ Continue((IF mStatus[t] \in {"Queued", "OnHold"}
                           THEN <<Call("terminated", t)>> ELSE <<>>)
                        \o <<Call("cancelRest", t)>>)
  /\ UNCHANGED <<mStatus, mOverallStatus, notFinishedLocked, deleteOnFinish,
                 alive, managerVars, poolVars, events, holds, historyVars>>

\* The rest of cancel(), after terminated() has returned.
CancelRest(t) ==
  /\ Running("cancelRest", t)
  /\ Continue((IF mStatus[t] = "Terminated"
                 THEN <<Call("processSubTasksForTermination", t)>> ELSE <<>>)
              \o CallEach("cancel", mSubTasks(t)))
  /\ UNCHANGED <<taskVars, managerVars, poolVars, events, holds, historyVars>>

\* terminated(), called by cancel().
SetTerminated(t) ==
  /\ Running("terminated", t)
  /\ mStatus' = [mStatus EXCEPT ![t] = "Terminated"]
  /\ Continue(<<Call("processSubTasksForTermination", t)>>)
  /\ UNCHANGED <<mOverallStatus, mShouldTerminate, notFinishedLocked,
                 deleteOnFinish, alive, managerVars, poolVars, events, holds,
                 historyVars>>

\* processSubTasksForTermination() in the main thread.
ProcessSubTasksForTermination(t) ==
  /\ Running("processSubTasksForTermination", t)
  /\ LET verdict == TerminationVerdict(t)
     IN  /\ mOverallStatus' = OverallAfter(t, verdict, "Terminated")
         /\ Continue(IF verdict = "report"
                       THEN statusChanged(t, "Terminated")
                              \o <<Call("taskTerminated", t)>>
                       ELSE <<>>)
  /\ UNCHANGED <<mStatus, mShouldTerminate, notFinishedLocked, deleteOnFinish,
                 alive, managerVars, poolVars, events, holds, historyVars>>

\* processSubTasksForCompletion() in the main thread.
ProcessSubTasksForCompletion(t) ==
  /\ Running("processSubTasksForCompletion", t)
  /\ LET verdict == CompletionVerdict(t)
     IN  /\ mOverallStatus' = OverallAfter(t, verdict, "Complete")
         /\ Continue(IF verdict = "report"
                       THEN statusChanged(t, "Complete")
                              \o <<Call("taskCompleted", t)>>
                       ELSE <<>>)
  /\ UNCHANGED <<mStatus, mShouldTerminate, notFinishedLocked, deleteOnFinish,
                 alive, managerVars, poolVars, events, holds, historyVars>>

\* emit taskCompleted()/taskTerminated() and release mNotFinishedMutex.
EndReported(t) ==
  /\ Running("taskCompleted", t) \/ Running("taskTerminated", t)
  /\ notFinishedLocked' = notFinishedLocked \ {t}
  /\ events' = IF t \in deleteOnFinish THEN events \o deleteLater(t)
                                       ELSE events
  /\ Continue(<<>>)
  /\ UNCHANGED <<mStatus, mOverallStatus, mShouldTerminate, deleteOnFinish,
                 alive, managerVars, poolVars, holds, historyVars>>

\* hold(): the test of the status.
Hold(t) ==
  /\ Running("hold", t)
  /\ Continue((IF mStatus[t] = "Queued" THEN <<Call("setOnHold", t)>> ELSE <<>>)
              \o CallEach("hold", mSubTasks(t)))
  /\ UNCHANGED <<taskVars, managerVars, poolVars, events, holds, historyVars>>

\* hold(): the assignment.
SetOnHold(t) ==
  /\ Running("setOnHold", t)
  /\ mStatus' = [mStatus EXCEPT ![t] = "OnHold"]
  /\ Continue(<<Call("processSubTasksForHold", t)>>)
  /\ UNCHANGED <<mOverallStatus, mShouldTerminate, notFinishedLocked,
                 deleteOnFinish, alive, managerVars, poolVars, events, holds,
                 historyVars>>

\* processSubTasksForHold()
ProcessSubTasksForHold(t) ==
  /\ Running("processSubTasksForHold", t)
  /\ LET onHold == mStatus[t] = "OnHold"
         report == onHold /\ ~ subTasksRunning(t) /\ mOverallStatus[t] # "OnHold"
         defer == onHold /\ subTasksRunning(t)
     IN  /\ mOverallStatus' = [mOverallStatus EXCEPT ![t] =
                                 CASE report -> "OnHold"
                                   [] defer -> "Running"
                                   [] OTHER -> @]
         /\ Continue(IF report THEN statusChanged(t, "OnHold") ELSE <<>>)
  /\ UNCHANGED <<mStatus, mShouldTerminate, notFinishedLocked, deleteOnFinish,
                 alive, managerVars, poolVars, events, holds, historyVars>>

\* unhold()
Unhold(t) ==
  /\ Running("unhold", t)
  /\ LET held == mStatus[t] = "OnHold"
     IN  /\ mStatus' = [mStatus EXCEPT ![t] = IF held THEN "Queued" ELSE @]
         /\ mOverallStatus' = [mOverallStatus EXCEPT ![t] =
                                 IF held THEN "Queued" ELSE @]
         /\ Continue((IF held THEN statusChanged(t, "Queued") ELSE <<>>)
                     \o CallEach("unhold", mSubTasks(t)))
  /\ UNCHANGED <<mShouldTerminate, notFinishedLocked, deleteOnFinish, alive,
                 managerVars, poolVars, events, holds, historyVars>>

\* subTaskStatusChanged( status ) of the parent p, sent by its subtask t.
SubTaskStatusChanged(t) ==
  /\ Running("subTaskStatusChanged", t)
  /\ LET p == Parent[t]
         status == Head(agenda).status
     IN  \/ /\ status = "Running" /\ mStatus[p] = "Queued"
            /\ mOverallStatus' = [mOverallStatus EXCEPT ![p] = "Running"]
            /\ Continue(<<>>)
         \/ /\ status # "Running" \/ mStatus[p] # "Queued"
            /\ Continue(
                 CASE status = "Complete" /\ mStatus[p] = "Complete" ->
                        <<Call("processSubTasksForCompletion", p)>>
                   [] status \in Finished /\ mStatus[p] = "Terminated" ->
                        <<Call("processSubTasksForTermination", p)>>
                   [] /\ status \in Finished \cup {"OnHold"}
                      /\ mStatus[p] = "OnHold" ->
                        <<Call("processSubTasksForHold", p)>>
                   [] /\ status = "Terminated"
                      /\ mStatus[p] \notin {"Terminated", "OnHold"} ->
                        <<Call("cancel", p)>>
                   [] OTHER -> <<>>)
            /\ UNCHANGED mOverallStatus
  /\ UNCHANGED <<mStatus, mShouldTerminate, notFinishedLocked, deleteOnFinish,
                 alive, managerVars, poolVars, events, holds, historyVars>>

-----------------------------------------------------------------------------
(***************************************************************************)
(* The main thread: calls of QgsTaskManager                                *)
(***************************************************************************)

\* QThreadPool::cancel( runnable ): the queued runnable at this address, if
\* there is one, is removed and deleted.
CancelRunnable(t) ==
  poolQueue' = {u \in poolQueue : runnable[t] = NoTask \/ runnable[u] # runnable[t]}

\* taskStatusChanged( status ), sent by t.
TaskStatusChanged(t) ==
  /\ Running("taskStatusChanged", t)
  /\ LET status == Head(agenda).status
         ended == status \in Finished
         dependents == {u \in Tasks : t \in mTaskDependencies[u]}
     IN  IF t \notin mTasks
           THEN Continue(<<>>) /\ UNCHANGED <<poolQueue, finishedCalls>>
           ELSE /\ CancelRunnable(t)
                /\ finishedCalls' = [finishedCalls EXCEPT ![t] =
                     IF ended THEN Append(@, status = "Complete") ELSE @]
                /\ Continue((IF status = "Terminated"
                               THEN CallEach("cancelDependent", dependents)
                               ELSE <<>>)
                            \o <<Call("processQueue", t)>>
                            \o (IF ended THEN <<Call("cleanup", t)>> ELSE <<>>))
  /\ UNCHANGED <<taskVars, managerVars, at, events, holds, everAdded,
                 removedLayers, succeeded>>

\* Mutant: only a dependent task that already runs is cancelled.
CancelRunningDependent(t) ==
  /\ Running("cancelDependent", t)
  /\ Continue(IF t \in mTasks /\ mStatus[t] = "Running"
                THEN <<Call("cancel", t)>> ELSE <<>>)
  /\ UNCHANGED <<taskVars, managerVars, poolVars, events, holds, historyVars>>

\* An iteration of the loop of cancelDependentTasks().
CancelDependent(t) ==
  /\ Running("cancelDependent", t)
  /\ Continue(IF t \in mTasks THEN <<Call("cancel", t)>> ELSE <<>>)
  /\ UNCHANGED <<taskVars, managerVars, poolVars, events, holds, historyVars>>

\* Mutant: the status of the dependency alone, without its subtasks.
dependenciesOwnStatus(t) ==
  \A d \in mTaskDependencies[t] : mStatus[d] = "Complete"

dependenciesSatisfied(t) ==
  \A d \in mTaskDependencies[t] : mOverallStatus[d] = "Complete"

\* processQueue(): the tasks that are ready go to the thread pool.
ProcessQueue(t) ==
  /\ Running("processQueue", t)
  /\ LET ready == {u \in mTasks : /\ mStatus[u] = "Queued"
                                  /\ dependenciesSatisfied(u)
                                  /\ u \notin added}
         live == {runnable[u] : u \in {v \in Tasks : v \in poolQueue \/ InPool(v)}}
     IN  /\ added' = added \cup ready
         /\ poolQueue' = poolQueue \cup ready
         /\ \E address \in [ready -> Tasks \ live] :
              /\ \A u, v \in ready : address[u] = address[v] => u = v
              /\ AddressReuse \/ \A u \in ready : address[u] = u
              /\ runnable' = [u \in Tasks |->
                                IF u \in ready THEN address[u] ELSE runnable[u]]
         /\ Continue(<<>>)
  /\ UNCHANGED <<taskVars, mTasks, mTaskDependencies, managerExists, at, events,
                 holds, historyVars>>

\* Mutant: the task is not disconnected from the manager and not removed.
CleanupKeepsTask(t) ==
  /\ Running("cleanup", t)
  /\ CancelRunnable(t)
  /\ events' = IF IsParent(t) THEN events \o deleteLater(t) ELSE events
  /\ Continue(<<Call("forget", t)>>)
  /\ UNCHANGED <<taskVars, managerVars, at, holds, historyVars>>

\* cleanupAndDeleteTask(), up to its last loop.
CleanupAndDeleteTask(t) ==
  /\ Running("cleanup", t)
  /\ IF t \notin mTasks
       THEN /\ Continue(<<>>)
            /\ UNCHANGED <<mTasks, mTaskDependencies, deleteOnFinish, poolQueue,
                           events>>
       ELSE /\ mTasks' = mTasks \ {t}
            /\ mTaskDependencies' = [mTaskDependencies EXCEPT ![t] = {}]
            /\ IF mOverallStatus[t] \notin Finished
                 THEN /\ deleteOnFinish' = IF IsParent(t)
                                             THEN deleteOnFinish \cup {t}
                                             ELSE deleteOnFinish
                      /\ Continue(<<Call("cancel", t), Call("forget", t)>>)
                      /\ UNCHANGED <<poolQueue, events>>
                 ELSE /\ CancelRunnable(t)
                      /\ events' = IF IsParent(t) THEN events \o deleteLater(t)
                                                  ELSE events
                      /\ Continue(<<Call("forget", t)>>)
                      /\ UNCHANGED deleteOnFinish
  /\ UNCHANGED <<mStatus, mOverallStatus, mShouldTerminate, notFinishedLocked,
                 alive, added, runnable, managerExists, at, holds, historyVars>>

\* The last loop of cleanupAndDeleteTask(): nobody depends on t any more.
ForgetDependency(t) ==
  /\ Running("forget", t)
  /\ mTaskDependencies' = [u \in Tasks |-> mTaskDependencies[u] \ {t}]
  /\ Continue(<<>>)
  /\ UNCHANGED <<taskVars, mTasks, added, runnable, managerExists, poolVars,
                 events, holds, historyVars>>

\* Mutant: only a task that is its own dependency is found.
dependsOnItself(t, deps, managed) == t \in deps[t]

\* resolveDependencies(): does t depend on itself, through managed tasks?
hasCircularDependencies(t, deps, managed) ==
  LET dependsOn == [p \in Tasks \X Tasks |-> p[2] \in deps[p[1]] \cap managed]
  IN  TransitiveClosure(dependsOn, Tasks)[t, t]

\* The end of addTaskPrivate() for t: its dependencies are recorded, and the
\* task is cancelled if it depends on itself.
RecordDependencies(t) ==
  /\ mTaskDependencies' = [mTaskDependencies EXCEPT ![t] = AllDependencies(t)]
  /\ Continue(IF hasCircularDependencies(t, mTaskDependencies', mTasks')
                THEN <<Call("cancel", t)>> ELSE <<>>)

\* addTaskPrivate() for the subtask t, which has none of its own.
AddSubTask(t) ==
  /\ Running("addSubTask", t)
  /\ mTasks' = mTasks \cup {t}
  /\ RecordDependencies(t)
  /\ UNCHANGED <<taskVars, added, runnable, managerExists, poolVars, events,
                 holds, historyVars>>

\* The rest of addTaskPrivate() for a parent, after its subtasks were added.
ResolveDependencies(t) ==
  /\ Running("resolveDependencies", t)
  /\ UNCHANGED mTasks
  /\ RecordDependencies(t)
  /\ UNCHANGED <<taskVars, added, runnable, managerExists, poolVars, events,
                 holds, historyVars>>

\* Mutant: only a running task is cancelled.
CancelRunningForLayer(t) ==
  /\ Running("cancelForLayer", t)
  /\ Continue(IF t \in mTasks /\ mOverallStatus[t] = "Running"
                THEN <<Call("cancel", t)>> ELSE <<>>)
  /\ UNCHANGED <<taskVars, managerVars, poolVars, events, holds, historyVars>>

\* An iteration of the loop of layersWillBeRemoved().
CancelForLayer(t) ==
  /\ Running("cancelForLayer", t)
  /\ Continue(IF t \in mTasks /\ mOverallStatus[t] \notin Finished
                THEN <<Call("cancel", t)>> ELSE <<>>)
  /\ UNCHANGED <<taskVars, managerVars, poolVars, events, holds, historyVars>>

\* ~QgsTaskManager() after cancelAll(): every task is cleaned up.
CleanupAll(t) ==
  /\ Running("cleanupAll", t)
  /\ managerExists' = FALSE
  /\ Continue(CallEach("cleanup", mTasks))
  /\ UNCHANGED <<taskVars, mTasks, mTaskDependencies, added, runnable, poolVars,
                 events, holds, historyVars>>

-----------------------------------------------------------------------------
(***************************************************************************)
(* The main thread: calls made by the application, in its event loop       *)
(***************************************************************************)

EventLoop == agenda = <<>>

\* addTask(): the task is inserted, then its subtasks are added one by one, then
\* its dependencies are resolved and the queue is processed.  The caller
\* passes dependencies that the manager knows or that are still to be added,
\* and layers that have not been removed.
AddTask(t) ==
  /\ EventLoop /\ managerExists
  /\ IsParent(t) /\ t \notin everAdded
  /\ \A u \in {t} \cup mSubTasks(t) : \A d \in Dependencies[u] :
       d \in everAdded => d \in mTasks
  /\ \A u \in {t} \cup mSubTasks(t) : Layers[u] \cap removedLayers = {}
  /\ mTasks' = mTasks \cup {t}
  /\ everAdded' = everAdded \cup {t} \cup mSubTasks(t)
  /\ agenda' = CallEach("addSubTask", mSubTasks(t))
                 \o <<Call("resolveDependencies", t), Call("processQueue", t)>>
  /\ UNCHANGED <<taskVars, mTaskDependencies, added, runnable, managerExists,
                 poolVars, events, holds, removedLayers, succeeded,
                 finishedCalls>>

\* A task of the application's that it may still call.
Callable(t) == EventLoop /\ t \in alive /\ IsParent(t) /\ t \in everAdded

UserCancel(t) ==
  /\ "cancel" \in UserCalls /\ Callable(t)
  /\ t \notin mShouldTerminate /\ mOverallStatus[t] \notin Finished
  /\ agenda' = <<Call("cancel", t)>>
  /\ UNCHANGED <<taskVars, managerVars, poolVars, events, holds, historyVars>>

CancelAll ==
  /\ "cancelAll" \in UserCalls /\ EventLoop /\ managerExists
  /\ \E t \in mTasks \ mShouldTerminate : mOverallStatus[t] \notin Finished
  /\ agenda' = CallEach("cancel", {t \in mTasks : IsParent(t)})
  /\ UNCHANGED <<taskVars, managerVars, poolVars, events, holds, historyVars>>

UserHold(t) ==
  /\ "hold" \in UserCalls /\ Callable(t)
  /\ holds < MaxHolds
  /\ holds' = holds + 1
  /\ agenda' = <<Call("hold", t)>>
  /\ UNCHANGED <<taskVars, managerVars, poolVars, events, historyVars>>

UserUnhold(t) ==
  /\ "hold" \in UserCalls /\ Callable(t)
  /\ \E u \in {t} \cup mSubTasks(t) : mStatus[u] = "OnHold"
  /\ agenda' = <<Call("unhold", t)>>
  /\ UNCHANGED <<taskVars, managerVars, poolVars, events, holds, historyVars>>

LayersWillBeRemoved(layer) ==
  /\ "removeLayer" \in UserCalls /\ EventLoop /\ managerExists
  /\ layer \notin removedLayers
  /\ removedLayers' = removedLayers \cup {layer}
  /\ agenda' = CallEach("cancelForLayer", {t \in mTasks : layer \in Layers[t]})
  /\ UNCHANGED <<taskVars, managerVars, poolVars, events, holds, everAdded,
                 succeeded, finishedCalls>>

DestroyManager ==
  /\ "destroy" \in UserCalls /\ EventLoop /\ managerExists
  /\ agenda' = CallEach("cancel", {t \in mTasks : IsParent(t)})
                 \o <<Call("cleanupAll", CHOOSE t \in Tasks : TRUE)>>
  /\ UNCHANGED <<taskVars, managerVars, poolVars, events, holds, historyVars>>

\* The event loop handles the first event: a slot call, dropped if the sender
\* or the receiver is gone, or the deletion of a task and its subtasks.
DeliverEvent ==
  /\ EventLoop /\ events # <<>>
  /\ events' = Tail(events)
  /\ LET event == Head(events)
     IN  IF event.op = "delete"
           THEN /\ alive' = alive \ ({event.task} \cup mSubTasks(event.task))
                /\ UNCHANGED agenda
           ELSE /\ agenda' = IF event.task \in alive THEN <<event>> ELSE <<>>
                /\ UNCHANGED alive
  /\ UNCHANGED <<mStatus, mOverallStatus, mShouldTerminate, notFinishedLocked,
                 deleteOnFinish, managerVars, poolVars, holds, historyVars>>

-----------------------------------------------------------------------------
PoolStep(t) ==
  \/ TakeRunnable(t) \/ Start(t) \/ StartRunning(t)
  \/ \E result \in BOOLEAN : RunReturns(t, result)
  \/ EndOfRun(t) \/ EmitEnd(t) \/ ReleaseMutex(t) \/ ReturnFromDeleted(t)

MainStep(t) ==
  \/ Cancel(t) \/ CancelRest(t) \/ SetTerminated(t)
  \/ ProcessSubTasksForTermination(t) \/ ProcessSubTasksForCompletion(t)
  \/ EndReported(t)
  \/ Hold(t) \/ SetOnHold(t) \/ ProcessSubTasksForHold(t) \/ Unhold(t)
  \/ SubTaskStatusChanged(t) \/ TaskStatusChanged(t)
  \/ CancelDependent(t) \/ ProcessQueue(t)
  \/ CleanupAndDeleteTask(t) \/ ForgetDependency(t)
  \/ AddSubTask(t) \/ ResolveDependencies(t)
  \/ CancelForLayer(t) \/ CleanupAll(t)

UserStep(t) ==
  \/ AddTask(t) \/ UserCancel(t) \/ UserHold(t) \/ UserUnhold(t)

Next ==
  \/ \E t \in Tasks : PoolStep(t) \/ MainStep(t) \/ UserStep(t)
  \/ CancelAll
  \/ \E layer \in UNION {Layers[t] : t \in Tasks} : LayersWillBeRemoved(layer)
  \/ DestroyManager
  \/ DeliverEvent

Spec == Init /\ [][Next]_vars

(***************************************************************************)
(* The pool runs its threads and run() returns; the main thread returns to *)
(* its event loop and handles the posted events.  Nothing is assumed of    *)
(* the application.                                                        *)
(***************************************************************************)
Fairness ==
  /\ \A t \in Tasks : WF_vars(PoolStep(t))
  /\ WF_vars(\E t \in Tasks : MainStep(t))
  /\ WF_vars(DeliverEvent)

FairSpec == Spec /\ Fairness

-----------------------------------------------------------------------------
(***************************************************************************)
(* Properties                                                              *)
(***************************************************************************)

PoolPlaces ==
  {"outside", "start", "setRunning", "run", "completed", "terminated",
   "emitComplete", "emitTerminated", "release", "returned"}

\* The fields of the tasks and of the manager keep their types.
TypeOK ==
  /\ mStatus \in [Tasks -> TaskStatus]
  /\ mOverallStatus \in [Tasks -> TaskStatus]
  /\ mShouldTerminate \in SUBSET Tasks
  /\ notFinishedLocked \in SUBSET Tasks
  /\ deleteOnFinish \in SUBSET Tasks
  /\ alive \in SUBSET Tasks
  /\ mTasks \in SUBSET Tasks
  /\ mTaskDependencies \in [Tasks -> SUBSET Tasks]
  /\ added \in SUBSET Tasks
  /\ runnable \in [Tasks -> Tasks \cup {NoTask}]
  /\ poolQueue \in SUBSET Tasks
  /\ at \in [Tasks -> PoolPlaces]
  /\ \A i \in DOMAIN agenda : agenda[i].task \in Tasks
  /\ \A i \in DOMAIN events : events[i].task \in Tasks
  /\ managerExists \in BOOLEAN
  /\ holds \in 0 .. MaxHolds

\* A task and its subtasks have run to the end successfully.
WhollySucceeded(t) == {t} \cup mSubTasks(t) \subseteq succeeded

\* run() of a task is entered only after every task it depends on, with its
\* subtasks, has run successfully: however cancellations, failures, restarts of
\* the queue and late events interleave.
RunsAfterDependencies ==
  \A t \in Tasks : at[t] \notin {"outside", "start", "returned"} =>
    \A d \in AllDependencies(t) : WhollySucceeded(d)

\* finished() is called at most once, although the end of a parent task may be
\* reported by its own thread and by its last subtask.
FinishedOnce == \A t \in Tasks : Len(finishedCalls[t]) <= 1

\* finished( true ) is called only for a task that has, with all its subtasks,
\* run successfully.
FinishedTruly ==
  \A t \in Tasks : TRUE \in ToSet(finishedCalls[t]) => WhollySucceeded(t)

\* After layersWillBeRemoved() no task that depends on the layer goes on as if
\* nothing had happened: it has been told to terminate or has finished.
LayerTasksCancelled ==
  EventLoop =>
    \A t \in mTasks : Layers[t] \cap removedLayers # {} =>
      t \in mShouldTerminate \/ mOverallStatus[t] \in Finished

\* A task that depends on a terminated task is terminated or being so once the
\* manager has dealt with the termination, unless the terminated task has run
\* successfully all the same (its cancellation came while it ran).
DependentsCancelled ==
  EventLoop =>
    \A t \in mTasks : \A d \in AllDependencies(t) :
      FALSE \in ToSet(finishedCalls[d]) /\ ~ WhollySucceeded(d) =>
        t \in mShouldTerminate

\* Once all tasks have been added, finished() is eventually called for each one
\* that the application added.
EveryTaskFinishes ==
  everAdded = Tasks ~> \A t \in Tasks : IsParent(t) => finishedCalls[t] # <<>>
=============================================================================
