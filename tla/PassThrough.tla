------------------------------ MODULE PassThrough ------------------------------
(***************************************************************************)
(* Editing in a transaction: QgsTransaction's savepoints                   *)
(* (src/core/qgstransaction.cpp), the undo commands that send every edit   *)
(* to the database at once (qgsvectorlayerundopassthroughcommand.cpp,      *)
(* qgsvectorlayereditpassthrough.cpp), and the edit commands of            *)
(* QgsVectorLayer, which are macros of its QUndoStack.                     *)
(*                                                                         *)
(* A command remembers a savepoint of the transaction; its undo() asks the *)
(* database to roll back to it.  The layers of the transaction have an     *)
(* undo stack each and share the list of savepoints.  The database is the  *)
(* one of the postgres provider.  A statement that fails changes nothing;  *)
(* one that the provider sends does so within a savepoint of its own, one  *)
(* that the transaction sends aborts it: the database then refuses every   *)
(* statement until ROLLBACK TO SAVEPOINT, which drops the later savepoints *)
(* and keeps the named one.                                                *)
(*                                                                         *)
(* An edit is its layer, its kind and a number.  Everything happens in the *)
(* main thread, an operation at a time; the transaction is active.         *)
(***************************************************************************)
EXTENDS Integers, FiniteSets, FiniteSetsExt, Sequences, SequencesExt

CONSTANTS
  Layers,
  Kinds,       \* kinds of edits that are made
  MaxEdits,      \* bound: edits made
  MaxSql,        \* bound: SQL statements executed that are on an undo stack
  MaxSavepoints, \* bound: savepoints the database keeps
  MaxFailures    \* bound: statements of the database that fail

SchemaKinds == {"addAttribute", "deleteAttribute"}

ASSUME LayersAssumption == IsFiniteSet(Layers) /\ Layers # {}
ASSUME KindsAssumption == Kinds \subseteq SchemaKinds \cup {"data", "sql"}
ASSUME BoundsAssumption == {MaxEdits, MaxSql, MaxSavepoints, MaxFailures} \subseteq Nat

VARIABLES
  db,      \* [table, savepoints, aborted]: the edits the transaction sees, the
           \* savepoints with the table each of them keeps, and whether
           \* statements are refused
  tr,      \* [mSavepoints, mLastSavePointIsDirty] of the QgsTransaction
  fields,  \* [provider, layer]: the schema edits their lists of fields show
  undoStack, \* [Layers -> commands and macros; each a sequence of commands]
  undoIndex, \* [Layers -> index of the undo stack]
  mEditCommandActive, \* [Layers -> BOOLEAN]: is a macro being recorded?
  macro,     \* [Layers -> its commands]
  mModified, \* [Layers -> BOOLEAN]
  edits, failures,  \* numbers of edits made, of statements that failed
  \* History, read by no action:
  misled,  \* was an edit given a savepoint that is not the state before it, did
           \* another layer dirty the savepoint of a macro before its first
           \* command, or did an undo take back another layer's edits?
  failed   \* did a command fail in an undo or a redo?

session == [db |-> db, tr |-> tr, fields |-> fields]
stackVars == <<undoStack, undoIndex, mEditCommandActive, macro, mModified>>
boundVars == <<edits, failures>>
historyVars == <<misled, failed>>
vars == <<db, tr, fields, stackVars, boundVars, historyVars>>

\* What of an operation fails: nothing, the SAVEPOINT or ROLLBACK statement it
\* may send, or its own statement.
Failing ==
  {"none"} \cup (IF failures < MaxFailures THEN {"savepoint", "statement"} ELSE {})

Fails(failing) == failures' = failures + (IF failing = "none" THEN 0 ELSE 1)

\* Is a statement of the kind what refused?
Refused(s, failing, what) == failing = what \/ s.db.aborted

SchemaOf(table, l) == {e \in table : e.layer = l /\ e.kind \in SchemaKinds}

-----------------------------------------------------------------------------
(***************************************************************************)
(* QgsTransaction, as functions of the session s                           *)
(***************************************************************************)

Abort(s) == [s EXCEPT !.db.aborted = TRUE]

\* SAVEPOINT name.
SetSavepoint(s, name) ==
  [s EXCEPT
     !.db.savepoints = Append(@, [name |-> name, table |-> s.db.table]),
     !.tr = [mSavepoints |-> Append(s.tr.mSavepoints, name),
             mLastSavePointIsDirty |-> FALSE]]

\* createSavepoint( error ): the last one, as long as it is not dirty.
createSavepoint(s, name, failing) ==
  IF ~s.tr.mLastSavePointIsDirty /\ s.tr.mSavepoints # <<>> THEN s
  ELSE IF Refused(s, failing, "savepoint") THEN Abort(s)
  ELSE SetSavepoint(s, name)

\* Is createSavepoint( error ) without an error?
SavepointGiven(s, failing) ==
  \/ ~Refused(s, failing, "savepoint")
  \/ ~s.tr.mLastSavePointIsDirty /\ s.tr.mSavepoints # <<>>

dirtyLastSavePoint(s) == [s EXCEPT !.tr.mLastSavePointIsDirty = TRUE]

HasSavepoint(s, name) == name \in ToSet(s.tr.mSavepoints)

\* The savepoint that the database finds under a name: the last one.
DbIndex(savepoints, name) ==
  LET named == {i \in DOMAIN savepoints : savepoints[i].name = name}
  IN IF named = {} THEN 0 ELSE CHOOSE i \in named : \A j \in named : j <= i

\* Mutant: the list of savepoints is not cut.
rollbackKeepsList(s, name, failing) ==
  LET k == DbIndex(s.db.savepoints, name)
  IN IF failing = "savepoint" \/ k = 0 THEN Abort(s)
     ELSE [s EXCEPT !.db = [table |-> s.db.savepoints[k].table,
                            savepoints |-> SubSeq(s.db.savepoints, 1, k),
                            aborted |-> FALSE],
                    !.tr.mLastSavePointIsDirty = FALSE]

\* rollbackToSavepoint( name ), name being in the list: the list is cut before
\* the database is asked.
rollbackToSavepoint(s, name, failing) ==
  LET idx == SelectInSeq(s.tr.mSavepoints, LAMBDA n : n = name)
      k == DbIndex(s.db.savepoints, name)
      cut == [s EXCEPT !.tr = [mSavepoints |-> SubSeq(s.tr.mSavepoints, 1, idx - 1),
                               mLastSavePointIsDirty |-> FALSE]]
  IN IF failing = "savepoint" \/ k = 0 THEN Abort(cut)
     ELSE [cut EXCEPT !.db = [table |-> s.db.savepoints[k].table,
                              savepoints |-> SubSeq(s.db.savepoints, 1, k),
                              aborted |-> FALSE]]

\* Is the named savepoint the present state of the table?
IsPresent(s, name) ==
  LET k == DbIndex(s.db.savepoints, name)
  IN k # 0 /\ s.db.savepoints[k].table = s.db.table

-----------------------------------------------------------------------------
(***************************************************************************)
(* The data provider                                                       *)
(***************************************************************************)

\* loadFields(), after every statement on attributes.
loadFields(s, l) ==
  [s EXCEPT !.fields.provider = {e \in @ : e.layer # l}
     \cup IF s.db.aborted THEN {} ELSE SchemaOf(s.db.table, l)]

updateLayerFields(s, l) ==
  [s EXCEPT !.fields.layer =
     {e \in @ : e.layer # l} \cup {e \in s.fields.provider : e.layer = l}]

\* The statement of an edit succeeds.
Apply(s, e) ==
  LET run == dirtyLastSavePoint([s EXCEPT !.db.table = @ \cup {e}])
  IN IF e.kind \in SchemaKinds
       THEN updateLayerFields(loadFields(run, e.layer), e.layer) ELSE run

\* Does the statement succeed that tells the provider of the undo of an edit of
\* attributes?  A column is dropped or added; one that the provider does not
\* list is not dropped.
InverseRuns(s, e) ==
  CASE e.kind = "addAttribute" -> e \in s.fields.provider => e \in s.db.table
    [] e.kind = "deleteAttribute" -> e \in s.db.table

-----------------------------------------------------------------------------
(***************************************************************************)
(* QgsVectorLayerUndoPassthroughCommand                                    *)
(***************************************************************************)

Command(e, savePoint, hasError, recreate) ==
  [edit |-> e, mSavePointId |-> savePoint, mHasError |-> hasError,
   mRecreateSavePoint |-> recreate, mUndone |-> FALSE]

\* Mutant: rolls back to the last savepoint if its own is gone.
rollBackToLast(s, c, failing) ==
  IF ~c.mHasError /\ s.tr.mSavepoints # <<>>
    THEN [s |-> rollbackToSavepoint(s, Last(s.tr.mSavepoints), failing), c |-> c]
    ELSE [s |-> s, c |-> c]

\* rollBackToSavePoint(): only the last command of a macro finds it in the list.
rollBackToSavePoint(s, c, failing) ==
  IF ~c.mHasError /\ HasSavepoint(s, c.mSavePointId)
    THEN [s |-> rollbackToSavepoint(s, c.mSavePointId, failing),
          c |-> [c EXCEPT !.mHasError =
                   failing = "savepoint" \/ DbIndex(s.db.savepoints, c.mSavePointId) = 0]]
    ELSE [s |-> s, c |-> c]

\* Mutant: the layer is not told.
UndoWithoutUpdate(s, c, failing) ==
  LET r == rollBackToSavePoint(s, c, failing)
  IN IF c.edit.kind = "sql" /\ ~r.c.mHasError
       THEN [r EXCEPT !.c.mUndone = TRUE] ELSE r

\* undo().
UndoCommand(s, c, failing) ==
  IF c.edit.kind \in SchemaKinds THEN
    IF InverseRuns(s, c.edit) /\ ~Refused(s, failing, "statement") THEN
      LET told == loadFields(dirtyLastSavePoint([s EXCEPT !.db.table = @ \ {c.edit}]),
                             c.edit.layer)
          r == rollBackToSavePoint(told, c, failing)
      IN IF r.c.mHasError THEN r
         ELSE [r EXCEPT !.s = updateLayerFields(@, c.edit.layer)]
    ELSE [s |-> loadFields(s, c.edit.layer), c |-> [c EXCEPT !.mHasError = TRUE]]
  ELSE
    LET r == rollBackToSavePoint(s, c, failing)
    IN IF c.edit.kind = "sql" /\ ~r.c.mHasError
         THEN [r EXCEPT !.c.mUndone = TRUE] ELSE r

\* setSavePoint(): is the savepoint created again?
Recreates(s, c) ==
  ~c.mHasError /\ c.mRecreateSavePoint /\ ~HasSavepoint(s, c.mSavePointId)

\* redo() of an edit through the provider.
RedoEdit(s, c, failing) ==
  IF c.mHasError THEN [s |-> s, c |-> c]
  ELSE IF Recreates(s, c) /\ Refused(s, failing, "savepoint")
    THEN [s |-> Abort(s), c |-> [c EXCEPT !.mHasError = TRUE]]
    ELSE LET set == IF Recreates(s, c) THEN SetSavepoint(s, c.mSavePointId) ELSE s
         IN IF Refused(s, failing, "statement")
              THEN [s |-> IF c.edit.kind \in SchemaKinds
                            THEN loadFields(set, c.edit.layer) ELSE set,
                    c |-> [c EXCEPT !.mHasError = TRUE]]
              ELSE [s |-> Apply(set, c.edit), c |-> c]

\* redo() of SQL executed in the transaction: only after an undo, on a
\* savepoint of its own, and without making that one dirty.
RedoSql(s, c, name, failing) ==
  IF ~c.mUndone THEN [s |-> s, c |-> c]
  ELSE IF ~SavepointGiven(s, failing)
    THEN [s |-> createSavepoint(s, name, failing), c |-> [c EXCEPT !.mHasError = TRUE]]
  ELSE
    LET given == createSavepoint(s, name, failing)
        kept == IF c.mHasError THEN c
                ELSE [c EXCEPT !.mSavePointId = Last(given.tr.mSavepoints)]
    IN IF Refused(given, failing, "statement")
         THEN [s |-> Abort(given), c |-> [kept EXCEPT !.mHasError = TRUE]]
         ELSE [s |-> [given EXCEPT !.db.table = @ \cup {c.edit}],
               c |-> [kept EXCEPT !.mUndone = FALSE]]

RedoCommand(s, c, name, failing) ==
  IF c.edit.kind = "sql" THEN RedoSql(s, c, name, failing) ELSE RedoEdit(s, c, failing)

-----------------------------------------------------------------------------
(***************************************************************************)
(* Macros: the commands of an entry of the undo stack, undone from the     *)
(* last to the first and redone from the first to the last.  One statement *)
(* of one of them may fail.                                                *)
(***************************************************************************)

InEntry(entry, at, failing, i) == IF i = at THEN failing ELSE "none"

UndoEntry(s, entry, at, failing) ==
  LET undone[n \in 0..Len(entry)] ==
        IF n = 0 THEN [s |-> s, entry |-> entry]
        ELSE LET i == Len(entry) + 1 - n
                 r == UndoCommand(undone[n - 1].s, entry[i], InEntry(entry, at, failing, i))
             IN [s |-> r.s, entry |-> [undone[n - 1].entry EXCEPT ![i] = r.c]]
  IN undone[Len(entry)]

\* stale: is SQL executed again on a savepoint that is not the state before it?
RedoEntry(s, entry, name, at, failing) ==
  LET redone[i \in 0..Len(entry)] ==
        IF i = 0 THEN [s |-> s, entry |-> entry, stale |-> FALSE]
        ELSE LET before == redone[i - 1].s
                 r == RedoCommand(before, entry[i], name + i - 1,
                                  InEntry(entry, at, failing, i))
                 given == [before EXCEPT !.db.savepoints = r.s.db.savepoints]
             IN [s |-> r.s, entry |-> [redone[i - 1].entry EXCEPT ![i] = r.c],
                 stale |-> \/ redone[i - 1].stale
                           \/ /\ entry[i].mUndone
                              /\ ~r.c.mHasError
                              /\ ~IsPresent(given, r.c.mSavePointId)]
  IN redone[Len(entry)]

Errors(entry) == {i \in DOMAIN entry : entry[i].mHasError}

\* Edits on the undo stack of a layer: those of the given entries.
EditsOf(entries) == {c.edit : c \in UNION {ToSet(entry) : entry \in ToSet(entries)}}

Entries(l) == Append(undoStack[l], macro[l])

\* QUuid::createUuid(): a name that no savepoint has, nor those that follow it.
FreshName ==
  LET used == {db.savepoints[i].name : i \in DOMAIN db.savepoints}
              \cup {c.mSavePointId : c \in UNION {ToSet(entry) :
                      entry \in UNION {ToSet(Entries(l)) : l \in Layers}}}
  IN Max(used \cup {0}) + 1

Init ==
  /\ db = [table |-> {}, savepoints |-> <<>>, aborted |-> FALSE]
  /\ tr = [mSavepoints |-> <<>>, mLastSavePointIsDirty |-> TRUE]
  /\ fields = [provider |-> {}, layer |-> {}]
  /\ undoStack = [l \in Layers |-> <<>>]
  /\ undoIndex = [l \in Layers |-> 0]
  /\ mEditCommandActive = [l \in Layers |-> FALSE]
  /\ macro = [l \in Layers |-> <<>>]
  /\ mModified = [l \in Layers |-> FALSE]
  /\ edits = 0 /\ failures = 0
  /\ misled = FALSE /\ failed = FALSE

SetSession(s) ==
  /\ Len(s.db.savepoints) <= MaxSavepoints
  /\ db' = s.db /\ tr' = s.tr /\ fields' = s.fields

\* The commands that were undone are deleted.
Kept(l) == SubSeq(undoStack[l], 1, undoIndex[l])

\* QUndoStack::push(), for each layer of cmds: into the macro being recorded,
\* or as an entry of its own.
Push(cmds) ==
  /\ macro' = [l \in Layers |-> IF l \in DOMAIN cmds /\ mEditCommandActive[l]
                                  THEN Append(macro[l], cmds[l]) ELSE macro[l]]
  /\ undoStack' = [l \in Layers |-> IF l \in DOMAIN cmds /\ ~mEditCommandActive[l]
                                      THEN Append(Kept(l), <<cmds[l]>>)
                                      ELSE undoStack[l]]
  /\ undoIndex' = [l \in Layers |-> IF l \in DOMAIN cmds /\ ~mEditCommandActive[l]
                                      THEN undoIndex[l] + 1 ELSE undoIndex[l]]
  /\ mModified' = [l \in Layers |-> mModified[l]
                                    \/ (l \in DOMAIN cmds /\ ~cmds[l].mHasError)]
  /\ UNCHANGED mEditCommandActive

-----------------------------------------------------------------------------
(***************************************************************************)
(* The operations                                                          *)
(***************************************************************************)

\* QgsVectorLayer::beginEditCommand(): the error of the savepoint is ignored.
BeginEditCommand(l) ==
  /\ ~mEditCommandActive[l]
  /\ edits < MaxEdits
  /\ \E failing \in Failing \ {"statement"} :
       /\ SetSession(createSavepoint(session, FreshName, failing))
       /\ Fails(failing)
  /\ mEditCommandActive' = [mEditCommandActive EXCEPT ![l] = TRUE]
  /\ macro' = [macro EXCEPT ![l] = <<>>]
  /\ undoStack' = [undoStack EXCEPT ![l] = Kept(l)]
  /\ UNCHANGED <<undoIndex, mModified, edits, historyVars>>

\* endEditCommand().  Bound: a macro is not empty.
EndEditCommand(l) ==
  /\ mEditCommandActive[l]
  /\ macro[l] # <<>>
  /\ mEditCommandActive' = [mEditCommandActive EXCEPT ![l] = FALSE]
  /\ undoStack' = [undoStack EXCEPT ![l] = Append(@, macro[l])]
  /\ undoIndex' = [undoIndex EXCEPT ![l] = @ + 1]
  /\ macro' = [macro EXCEPT ![l] = <<>>]
  /\ UNCHANGED <<db, tr, fields, mModified, boundVars, historyVars>>

\* The constructor of a command takes its savepoint: in a macro the last one
\* of the transaction, otherwise one that createSavepoint() gives.
Constructed(s, l, e, failing) ==
  LET inMacro == mEditCommandActive[l] /\ s.tr.mSavepoints # <<>>
      given == IF inMacro THEN s ELSE createSavepoint(s, FreshName, failing)
      hasError == ~inMacro /\ ~SavepointGiven(s, failing)
  IN [s |-> given,
      c |-> Command(e, IF hasError THEN 0 ELSE Last(given.tr.mSavepoints), hasError,
                    mEditCommandActive[l] => ~given.tr.mLastSavePointIsDirty)]

\* An edit through the provider: QgsVectorLayerEditPassthrough::modify().
Modify(l, kind) ==
  LET e == [layer |-> l, kind |-> kind, number |-> edits + 1]
  IN /\ edits < MaxEdits
     /\ edits' = edits + 1
     /\ \E failing \in Failing :
          LET new == Constructed(session, l, e, failing)
              done == RedoEdit(new.s, new.c, failing)
          IN /\ SetSession(done.s)
             /\ Push([m \in {l} |-> done.c])
             /\ Fails(failing)
             /\ misled' = (misled \/ (/\ macro[l] = <<>>
                                      /\ ~new.c.mHasError
                                      /\ \/ ~IsPresent(new.s, new.c.mSavePointId)
                                         \/ ~new.c.mRecreateSavePoint))
     /\ UNCHANGED failed

\* QgsTransaction::executeSql( sql, error, isDirty = TRUE ): every layer gets a
\* command for it (onDirtyTransaction()).  Bound: the SAVEPOINT fails only when
\* another savepoint is there; savePoints().last() of an empty list is undefined.
ExecuteSql ==
  LET e == [layer |-> "none", kind |-> "sql", number |-> edits + 1]
      onStacks == UNION {EditsOf(Entries(l)) : l \in Layers}
  IN /\ edits < MaxEdits
     /\ Cardinality({f \in onStacks : f.kind = "sql"}) < MaxSql
     /\ edits' = edits + 1
     /\ \E failing \in Failing :
          LET given == createSavepoint(session, FreshName, failing)
              last == Last(given.tr.mSavepoints)
          IN /\ given.tr.mSavepoints # <<>>
             /\ Fails(failing)
             /\ IF Refused(given, failing, "statement")
                  THEN /\ SetSession(rollbackToSavepoint(given, last, "none"))
                       /\ UNCHANGED stackVars
                  ELSE /\ SetSession(Apply(given, e))
                       /\ Push([l \in Layers |->
                                  Command(e, last, FALSE, ~mEditCommandActive[l])])
             /\ misled' = (misled \/ ~IsPresent(given, last))
     /\ UNCHANGED failed

\* Does a step of the undo stack of l change what the table holds of the others?
\* (Done by an undo of commands that follow theirs.)
OthersChange(l, table) ==
  LET others == UNION {EditsOf(Entries(m)) : m \in Layers \ {l}}
  IN table \cap others # db.table \cap others

\* QUndoStack::undo(), refused while a macro is recorded.
Undo(l) ==
  /\ ~mEditCommandActive[l]
  /\ undoIndex[l] > 0
  /\ LET entry == undoStack[l][undoIndex[l]]
     IN \E at \in DOMAIN entry, failing \in Failing :
          LET r == UndoEntry(session, entry, at, failing)
          IN /\ SetSession(r.s)
             /\ undoStack' = [undoStack EXCEPT ![l][undoIndex[l]] = r.entry]
             /\ Fails(failing)
             /\ misled' = (misled \/ OthersChange(l, r.s.db.table))
             /\ failed' = (failed \/ Errors(r.entry) # Errors(entry))
  /\ undoIndex' = [undoIndex EXCEPT ![l] = @ - 1]
  /\ UNCHANGED <<mEditCommandActive, macro, mModified, edits>>

\* QUndoStack::redo().
Redo(l) ==
  /\ ~mEditCommandActive[l]
  /\ undoIndex[l] < Len(undoStack[l])
  /\ LET entry == undoStack[l][undoIndex[l] + 1]
     IN \E at \in DOMAIN entry, failing \in Failing :
          LET r == RedoEntry(session, entry, FreshName, at, failing)
          IN /\ SetSession(r.s)
             /\ undoStack' = [undoStack EXCEPT ![l][undoIndex[l] + 1] = r.entry]
             /\ Fails(failing)
             /\ misled' = (misled \/ r.stale \/ OthersChange(l, r.s.db.table))
             /\ failed' = (failed \/ Errors(r.entry) # Errors(entry))
  /\ undoIndex' = [undoIndex EXCEPT ![l] = @ + 1]
  /\ UNCHANGED <<mEditCommandActive, macro, mModified, edits>>

\* destroyEditCommand(): endMacro(), undo(), and an obsolete command that makes
\* the stack delete what was undone.
DestroyEditCommand(l) ==
  /\ mEditCommandActive[l]
  /\ \E at \in DOMAIN macro[l] \cup {0}, failing \in Failing :
       LET r == UndoEntry(session, macro[l], at, failing)
       IN /\ SetSession(r.s)
          /\ Fails(failing)
          /\ misled' = (misled \/ OthersChange(l, r.s.db.table))
          /\ failed' = (failed \/ Errors(r.entry) # Errors(macro[l]))
  /\ mEditCommandActive' = [mEditCommandActive EXCEPT ![l] = FALSE]
  /\ macro' = [macro EXCEPT ![l] = <<>>]
  /\ UNCHANGED <<undoStack, undoIndex, mModified, edits>>

Next ==
  \/ \E l \in Layers :
       \/ BeginEditCommand(l) \/ EndEditCommand(l) \/ DestroyEditCommand(l)
       \/ \E kind \in Kinds \ {"sql"} : Modify(l, kind)
       \/ Undo(l) \/ Redo(l)
  \/ "sql" \in Kinds /\ ExecuteSql

Spec == Init /\ [][Next]_vars

-----------------------------------------------------------------------------
Numbers == 1..MaxEdits
Edits == [layer : Layers \cup {"none"}, kind : Kinds, number : Numbers]
Commands == [edit : Edits, mSavePointId : Nat, mHasError : BOOLEAN,
             mRecreateSavePoint : BOOLEAN, mUndone : BOOLEAN]

TypeOK ==
  /\ db.table \subseteq Edits
  /\ db.aborted \in BOOLEAN
  /\ db.savepoints \in Seq([name : Nat \ {0}, table : SUBSET Edits])
  /\ tr.mSavepoints \in Seq(Nat \ {0})
  /\ tr.mLastSavePointIsDirty \in BOOLEAN
  /\ fields.provider \subseteq Edits /\ fields.layer \subseteq Edits
  /\ \A l \in Layers :
       /\ undoStack[l] \in Seq(Seq(Commands))
       /\ undoIndex[l] \in 0..Len(undoStack[l])
       /\ macro[l] \in Seq(Commands)
       /\ macro[l] # <<>> => mEditCommandActive[l]
  /\ mEditCommandActive \in [Layers -> BOOLEAN]
  /\ mModified \in [Layers -> BOOLEAN]
  /\ edits \in 0..MaxEdits /\ failures \in 0..MaxFailures
  /\ misled \in BOOLEAN /\ failed \in BOOLEAN

\* Every savepoint of the list is one the database still has, in the same
\* order, whichever layers undid and redid what: no ROLLBACK TO SAVEPOINT names
\* a savepoint that an earlier one destroyed.
SavepointsExist ==
  /\ TypeOK
  /\ IsInjective(tr.mSavepoints)
  /\ \A i \in DOMAIN tr.mSavepoints :
       /\ DbIndex(db.savepoints, tr.mSavepoints[i]) # 0
       /\ i > 1 => DbIndex(db.savepoints, tr.mSavepoints[i - 1])
                     < DbIndex(db.savepoints, tr.mSavepoints[i])

\* The edits of a layer that its undo stack shows as done.
Done(l) ==
  {c.edit : c \in {d \in UNION {ToSet(entry) :
                     entry \in ToSet(Append(Kept(l), macro[l]))} : ~d.mHasError}}

\* Undo and redo are faithful: the table holds the edits of a layer that its
\* undo stack shows as done, and no others, across macros, failed edits and the
\* savepoints that commands share and create again; unless an undo or a redo
\* reported a failure, or a savepoint was not the state before the edit.
UndoFaithful ==
  ~misled /\ ~failed =>
    \A l \in Layers : db.table \cap EditsOf(Entries(l)) = Done(l)

\* The layers know what the transaction did to their tables.  While the table
\* holds an edit of the session, some layer is modified, so that nothing can be
\* lost unasked; and the layers show the fields their tables have, as long as no
\* undo failed.
ModifiedKnown == db.table # {} => \E l \in Layers : mModified[l]

LayersInformed ==
  /\ ModifiedKnown
  /\ ~misled /\ ~failed =>
       \A l \in Layers : {e \in fields.layer : e.layer = l} = SchemaOf(db.table, l)

=============================================================================
