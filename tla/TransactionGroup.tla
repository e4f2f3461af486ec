--------------------------- MODULE TransactionGroup ---------------------------
(***************************************************************************)
(* Layers that are edited in one transaction of their database:            *)
(* QgsTransactionGroup (src/core/qgstransactiongroup.cpp), begin(),        *)
(* commit(), rollback() and addLayer() of QgsTransaction                   *)
(* (qgstransaction.cpp), and what QgsVectorLayer does to start and to stop *)
(* an editing session (qgsvectorlayer.cpp).                                *)
(*                                                                         *)
(* Everything runs in the main thread.  The slots of the group run inside  *)
(* startEditing(), commitChanges() and rollBack() of the layer that was    *)
(* asked, and call the same methods of the other layers.  A commit or a    *)
(* rollback that fails is followed, in a later cycle of the event loop, by *)
(* a startEditing() of that layer.                                         *)
(*                                                                         *)
(* A layer with a transaction gets a pass-through edit buffer, whose edits *)
(* are in the transaction at once; one without gets an edit buffer that    *)
(* sends its edits when it is committed.  The layers are valid and can be  *)
(* edited, their provider can create a transaction, and all of them have   *)
(* the group's connection string.                                          *)
(***************************************************************************)
EXTENDS Integers, FiniteSets

CONSTANTS
  Layers,
  InitialLayers,  \* those that are in the group to begin with
  CommitOutcomes, \* of COMMIT: "done", "kept" (failed, the transaction goes
                  \* on), "aborted" (failed, the database ended it)
  Refusing,       \* layers whose geometry checks may forbid the commit
  MaxEdits,       \* bound: edits made
  MaxSessions,    \* bound: calls of startEditing() by the user
  MaxFailures     \* bound: failures of the database

ASSUME LayersAssumption ==
  IsFiniteSet(Layers) /\ InitialLayers \subseteq Layers /\ Refusing \subseteq Layers
ASSUME OutcomesAssumption ==
  "done" \in CommitOutcomes /\ CommitOutcomes \subseteq {"done", "kept", "aborted"}
ASSUME BoundsAssumption == {MaxEdits, MaxSessions, MaxFailures} \subseteq Nat

VARIABLES
  \* QgsTransactionGroup:
  mLayers,
  mTransaction,  \* has it a transaction?
  connected,     \* layers whose beforeCommitChanges and beforeRollBack it handles
  restarts,      \* layers with a startEditing() in the event queue
  \* The QgsTransaction:
  mTransactionActive,
  members,       \* its layers
  \* The layers and their providers:
  transaction,   \* layers whose provider has the transaction
  mEditBuffer,   \* [Layers -> "none", "buffer" or "passthrough"]
  mAllowCommit,  \* layers that may be committed
  \* The database:
  dbOpen,        \* is a transaction open?
  buffered,      \* edits in edit buffers
  pending,       \* edits in the open transaction
  stored,        \* edits that were committed
  \* Bounds:
  edits, sessions, failures,
  \* History, read by no action:
  discarded,     \* edits the user rolled back, or removed with their layer
  lost,          \* edits the database dropped when a COMMIT failed
  refused        \* did a layer refuse its commit after the group's was done?

groupVars == <<mLayers, mTransaction, connected, restarts>>
transactionVars == <<mTransactionActive, members>>
layerVars == <<transaction, mEditBuffer, mAllowCommit>>
dbVars == <<dbOpen, buffered, pending, stored>>
boundVars == <<edits, sessions, failures>>
historyVars == <<discarded, lost, refused>>
vars == <<groupVars, transactionVars, layerVars, dbVars, boundVars, historyVars>>

Editing == {l \in Layers : mEditBuffer[l] # "none"}

EditsOf(ls, es) == {e \in es : e.layer \in ls}

Init ==
  /\ mLayers = InitialLayers
  /\ mTransaction = FALSE
  /\ connected = {} /\ restarts = {}
  /\ mTransactionActive = FALSE /\ members = {}
  /\ transaction = {}
  /\ mEditBuffer = [l \in Layers |-> "none"]
  /\ mAllowCommit = Layers
  /\ dbOpen = FALSE
  /\ buffered = {} /\ pending = {} /\ stored = {}
  /\ edits = 0 /\ sessions = 0 /\ failures = 0
  /\ discarded = {} /\ lost = {} /\ refused = FALSE

\* Does the database fail?
MayFail(failure) ==
  /\ failure => failures < MaxFailures
  /\ failures' = failures + (IF failure THEN 1 ELSE 0)

-----------------------------------------------------------------------------
(***************************************************************************)
(* startEditing()                                                          *)
(***************************************************************************)

\* Each layer of starting gets its edit buffer.
Start(starting, withTransaction) ==
  mEditBuffer' = [l \in Layers |->
    IF l \notin starting THEN mEditBuffer[l]
    ELSE IF l \in withTransaction THEN "passthrough" ELSE "buffer"]

\* Mutant: the layers get their edit buffers before the transaction has begun.
StartBeforeBegin ==
  LET starting == mLayers \ Editing
  IN \E begun \in BOOLEAN :
       /\ MayFail(~begun)
       /\ mTransaction' = TRUE
       /\ mTransactionActive' = begun
       /\ dbOpen' = begun
       /\ members' = {l \in starting : l \notin transaction}
       /\ transaction' = IF begun THEN transaction \cup members' ELSE transaction
       /\ connected' = mLayers
       /\ Start(starting, starting)

\* Mutant: a layer that is edited already gets a new edit buffer.
StartGroupAgain ==
  \E begun \in BOOLEAN :
    /\ MayFail(~begun)
    /\ mTransaction' = TRUE
    /\ mTransactionActive' = begun
    /\ dbOpen' = begun
    /\ members' = {l \in mLayers : l \notin transaction}
    /\ transaction' = IF begun THEN transaction \cup members' ELSE transaction
    /\ connected' = mLayers
    /\ Start(mLayers, transaction')

\* onEditingStarted() with no transaction: every layer of the group is edited.
\* The result of begin() is not tested.  The layer that was asked is one of
\* them: its startEditing() runs inside its own startEditing().
StartGroup ==
  LET starting == mLayers \ Editing
  IN \E begun \in BOOLEAN :
       /\ MayFail(~begun)
       /\ mTransaction' = TRUE
       /\ mTransactionActive' = begun
       /\ dbOpen' = begun
       /\ members' = {l \in starting : l \notin transaction}
       /\ transaction' = IF begun THEN transaction \cup members' ELSE transaction
       /\ connected' = mLayers
       /\ Start(starting, transaction')

\* QgsVectorLayer::startEditing() of a layer of the group that is not edited.
StartEditing(l) ==
  IF mTransaction
    THEN /\ Start({l}, transaction)
         /\ UNCHANGED <<mTransaction, connected, transactionVars, transaction,
                        dbOpen, failures>>
    ELSE StartGroup

UserStarts(l) ==
  /\ l \in mLayers \ Editing
  /\ sessions < MaxSessions
  /\ sessions' = sessions + 1
  /\ StartEditing(l)
  /\ UNCHANGED <<mLayers, restarts, mAllowCommit, buffered, pending,
                 stored, edits, historyVars>>

\* QTimer::singleShot( 0, triggeringLayer, &QgsVectorLayer::startEditing ).
Restart(l) ==
  /\ l \in restarts
  /\ restarts' = restarts \ {l}
  /\ IF l \in Editing
       THEN UNCHANGED <<mTransaction, connected, transactionVars, transaction,
                        mEditBuffer, dbOpen, failures>>
       ELSE StartEditing(l)
  /\ UNCHANGED <<mLayers, mAllowCommit, buffered, pending, stored,
                 edits, sessions, historyVars>>

-----------------------------------------------------------------------------
(***************************************************************************)
(* commitChanges() and rollBack()                                          *)
(***************************************************************************)

\* disableTransaction(), after commit() or rollback() cleared the providers.
DisableTransaction ==
  /\ mTransaction' = FALSE
  /\ mTransactionActive' = FALSE
  /\ members' = {}
  /\ transaction' = transaction \ members
  /\ connected' = connected \ mLayers
  /\ dbOpen' = FALSE

\* Does the group end its transaction when l stops?
EndsTransaction(l) == l \in connected /\ mTransactionActive

\* Mutant: only the layer that was asked is committed.
CommittedAlone(l, done) == {l}

\* The layers whose commitChanges() is called: with the transaction of the
\* group, the other layers too.
Committed(l, done) == {l} \cup (IF done THEN mLayers \cap Editing ELSE {})

\* commitChanges() of a layer that is edited.  bad: layers whose edit buffer
\* cannot be committed.
CommitChanges(l) ==
  /\ l \in Editing
  /\ \E outcome \in CommitOutcomes, bad \in SUBSET {m \in Layers : mEditBuffer[m] = "buffer"} :
       LET ends == EndsTransaction(l)
           done == ends /\ outcome = "done"
           asked == Committed(l, done)
           trying == asked \cap mAllowCommit
           stopped == trying \ bad
           sent == EditsOf(stopped, buffered)
       IN /\ ends \/ outcome = "done"
          /\ ~dbOpen => outcome = "done"
          /\ bad \subseteq asked
          /\ MayFail(outcome # "done" \/ bad # {})
          /\ IF done
               THEN DisableTransaction /\ UNCHANGED restarts
               ELSE /\ restarts' = IF l \in connected THEN restarts \cup {l} ELSE restarts
                    /\ dbOpen' = (dbOpen /\ outcome # "aborted")
                    /\ UNCHANGED <<mTransaction, connected, transactionVars, transaction>>
          /\ mEditBuffer' = [m \in Layers |-> IF m \in stopped THEN "none" ELSE mEditBuffer[m]]
          /\ buffered' = buffered \ sent
          /\ pending' = IF done \/ outcome = "aborted" THEN {} ELSE pending
          /\ stored' = stored \cup sent \cup (IF done THEN pending ELSE {})
          /\ lost' = lost \cup (IF outcome = "aborted" THEN pending ELSE {})
          /\ refused' = (refused \/ (done /\ ~(asked \subseteq stopped)))
  /\ UNCHANGED <<mLayers, mAllowCommit, edits, sessions, discarded>>

\* rollBack() of a layer that is edited.
RollBack(l) ==
  /\ l \in Editing
  /\ \E fails \in BOOLEAN :
       LET ends == EndsTransaction(l)
           done == ends /\ ~fails
           stopped == {l} \cup (IF done THEN mLayers \cap Editing ELSE {})
       IN /\ fails => ends /\ dbOpen
          /\ MayFail(fails)
          /\ IF done
               THEN DisableTransaction /\ UNCHANGED restarts
               ELSE /\ restarts' = IF l \in connected THEN restarts \cup {l} ELSE restarts
                    /\ UNCHANGED <<mTransaction, connected, transactionVars, transaction, dbOpen>>
          /\ mEditBuffer' = [m \in Layers |-> IF m \in stopped THEN "none" ELSE mEditBuffer[m]]
          /\ buffered' = buffered \ EditsOf(stopped, buffered)
          /\ pending' = IF done THEN {} ELSE pending
          /\ discarded' = discarded \cup EditsOf(stopped, buffered)
                                    \cup (IF done THEN pending ELSE {})
  /\ UNCHANGED <<mLayers, mAllowCommit, stored, edits, sessions, lost, refused>>

-----------------------------------------------------------------------------
(***************************************************************************)
(* Edits, geometry checks, and layers that come and go                     *)
(***************************************************************************)

\* An edit of a layer.  A pass-through edit in a transaction that the database
\* has ended is refused (the savepoint cannot be set).
Edit(l) ==
  LET e == [layer |-> l, number |-> edits + 1]
  IN /\ edits < MaxEdits
     /\ edits' = edits + 1
     /\ \/ /\ mEditBuffer[l] = "buffer"
           /\ buffered' = buffered \cup {e}
           /\ UNCHANGED pending
        \/ /\ mEditBuffer[l] = "passthrough"
           /\ l \in transaction
           /\ dbOpen
           /\ pending' = pending \cup {e}
           /\ UNCHANGED buffered
     /\ UNCHANGED <<groupVars, transactionVars, transaction, mEditBuffer, mAllowCommit,
                    dbOpen, stored, sessions, failures, historyVars>>

\* setAllowCommit(), by the geometry checks of an edited layer.
SetAllowCommit(l, allow) ==
  /\ l \in Refusing \cap Editing
  /\ (l \in mAllowCommit) # allow
  /\ mAllowCommit' = IF allow THEN mAllowCommit \cup {l} ELSE mAllowCommit \ {l}
  /\ UNCHANGED <<groupVars, transactionVars, transaction, mEditBuffer,
                 dbVars, boundVars, historyVars>>

\* QgsTransactionGroup::addLayer(), perhaps while the others are edited.
AddLayer(l) ==
  /\ l \notin mLayers
  /\ l \notin {e.layer : e \in discarded \cup stored \cup lost}
  /\ mLayers' = mLayers \cup {l}
  /\ UNCHANGED <<mTransaction, connected, restarts, transactionVars, layerVars, dbVars,
                 boundVars, historyVars>>

\* onLayerDeleted() of the group and of the transaction.  Bound: one layer
\* stays (the project deletes an empty group).
RemoveLayer(l) ==
  /\ l \in mLayers /\ mLayers # {l}
  /\ mLayers' = mLayers \ {l}
  /\ connected' = connected \ {l}
  /\ restarts' = restarts \ {l}
  /\ members' = members \ {l}
  /\ transaction' = transaction \ {l}
  /\ mEditBuffer' = [mEditBuffer EXCEPT ![l] = "none"]
  /\ mAllowCommit' = mAllowCommit \cup {l}
  /\ buffered' = buffered \ EditsOf({l}, buffered)
  /\ discarded' = discarded \cup EditsOf({l}, buffered)
  /\ UNCHANGED <<mTransaction, mTransactionActive, dbOpen, pending, stored,
                 boundVars, lost, refused>>

Next ==
  \E l \in Layers :
    \/ UserStarts(l) \/ Restart(l)
    \/ CommitChanges(l) \/ RollBack(l)
    \/ Edit(l)
    \/ \E allow \in BOOLEAN : SetAllowCommit(l, allow)
    \/ AddLayer(l) \/ RemoveLayer(l)

Spec == Init /\ [][Next]_vars

-----------------------------------------------------------------------------
AllEdits == [layer : Layers, number : 1..MaxEdits]

TypeOK ==
  /\ mLayers \subseteq Layers /\ members \subseteq mLayers
  /\ connected \subseteq mLayers /\ restarts \subseteq mLayers
  /\ mTransaction \in BOOLEAN /\ mTransactionActive \in BOOLEAN
  /\ transaction \subseteq Layers
  /\ mAllowCommit \subseteq Layers
  /\ mEditBuffer \in [Layers -> {"none", "buffer", "passthrough"}]
  /\ dbOpen \in BOOLEAN
  /\ {buffered, pending, stored, discarded, lost} \subseteq SUBSET AllEdits
  /\ edits \in 0..MaxEdits /\ sessions \in 0..MaxSessions
  /\ failures \in 0..MaxFailures
  /\ refused \in BOOLEAN

\* The layers of a transaction are edited together: once the event loop has run
\* the calls it holds, either all of them are edited or none, whatever failed;
\* unless a layer refused its commit after the group's was done.
EditedTogether ==
  restarts = {} /\ ~refused =>
    IF mTransaction THEN members \subseteq Editing
    ELSE Editing = {}

\* A layer has a provider with the transaction exactly as long as its edits go
\* into it: no pass-through buffer is left without a transaction (its commands
\* use it without a test), and no provider keeps one that was deleted.  The
\* layers of a group have it together.
TransactionWhereNeeded ==
  /\ TypeOK
  /\ EditedTogether
  /\ transaction \subseteq members
  /\ transaction # {} => mTransaction /\ mTransactionActive
  /\ ~refused => \A l \in Layers : mEditBuffer[l] = "passthrough" => l \in transaction

\* No edit gets lost: each is in a buffer, in the open transaction, stored, or
\* was rolled back by the user; or was in the transaction when a COMMIT failed
\* and the database ended it.
NothingLost ==
  /\ Cardinality(buffered \cup pending \cup stored \cup discarded \cup lost) = edits
  /\ pending # {} => dbOpen /\ mTransaction
  /\ buffered # {} => \A e \in buffered : mEditBuffer[e.layer] = "buffer"

\* All edits of the transaction are stored by one step, which ends the editing
\* of all its layers that do not refuse, and leaves none in the transaction.
StoredTogether ==
  [][pending \cap stored' # {} =>
       /\ pending \subseteq stored'
       /\ ~mTransaction'
       /\ members \cap mAllowCommit \cap Editing' = {}]_vars

=============================================================================
