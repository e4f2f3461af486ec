------------------------------ MODULE AsyncJobs ------------------------------
(***************************************************************************)
(* What QgsMapRendererJob (src/core/qgsmaprendererjob.h) promises, whatever *)
(* the kind of job: start() returns at once and makes the job active; an   *)
(* active job, cancelled or not, emits finished() exactly once and is then *)
(* inactive; only an inactive job is deleted.  The states of a job here    *)
(* are the ones a client can tell apart.                                   *)
(***************************************************************************)
CONSTANT Jobs

VARIABLE state  \* [Jobs -> {"none", "active", "finished"}]

vars == <<state>>

Init == state = [j \in Jobs |-> "none"]

Move(j, from, to) ==
  /\ state[j] = from
  /\ state' = [state EXCEPT ![j] = to]

\* The job is created and start() is called.
Start(j) == Move(j, "none", "active")

\* finished() is emitted.
Finish(j) == Move(j, "active", "finished")

\* The job is deleted.
Delete(j) == Move(j, "finished", "none")

Next == \E j \in Jobs : Start(j) \/ Finish(j) \/ Delete(j)

\* finished() at most once, and deletion only after it.
Safety == Init /\ [][Next]_vars

Spec ==
  /\ Safety
  /\ \A j \in Jobs : WF_vars(Finish(j)) /\ WF_vars(Delete(j))
=============================================================================
