---------------------------- MODULE MCTaskManager ----------------------------
(***************************************************************************)
(* Small sets of tasks for TaskManager.                                    *)
(***************************************************************************)
EXTENDS TaskManager, TLC

CONSTANTS a, b, c, d, layer

\* Tasks without subtasks: c depends on b, b on a, a on a layer.
NoParents == [t \in Tasks |-> NoTask]
Chain == [t \in Tasks |-> CASE t = b -> {a} [] t = c -> {b} [] OTHER -> {}]
LayerOfA == [t \in Tasks |-> IF t = a THEN {layer} ELSE {}]
NoLayers == [t \in Tasks |-> {}]

\* c and d depend on each other, and c also on a.
Circular == [t \in Tasks |-> CASE t = c -> {a, d} [] t = d -> {c} [] OTHER -> {}]

\* b is a subtask of a, c depends on a.
BUnderA == [t \in Tasks |-> IF t = b THEN a ELSE NoTask]
CAfterA == [t \in Tasks |-> IF t = c THEN {a} ELSE {}]

NoDependencies == [t \in Tasks |-> {}]
=============================================================================
