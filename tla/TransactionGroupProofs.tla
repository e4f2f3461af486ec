----------------------- MODULE TransactionGroupProofs -----------------------
(***************************************************************************)
(* Proofs about TransactionGroup, for any set of layers, whatever the      *)
(* database answers to COMMIT, and any number of edits, editing sessions   *)
(* and failures.                                                           *)
(***************************************************************************)
EXTENDS TransactionGroup, FiniteSetTheorems, TLAPS

\* Every edit that was made is in one of these.
MadeEdits == buffered \cup pending \cup stored \cup discarded \cup lost

\* The group's transaction, its layers and the connection agree: the providers
\* have the transaction while it is active, and all of them do.
TransactionAgrees ==
  /\ transaction \subseteq members /\ members \subseteq connected
  /\ transaction # {} => mTransaction /\ mTransactionActive
  /\ mTransactionActive => mTransaction /\ members \subseteq transaction
  /\ dbOpen => mTransaction /\ mTransactionActive
  /\ ~mTransaction => connected = {}

\* The edit buffers are of the kind the provider's transaction calls for, and
\* the layers of the group are edited together but for those with a call of
\* startEditing() in the event queue.
BuffersAgree ==
  /\ Editing \subseteq mLayers
  /\ \A l \in transaction : mEditBuffer[l] # "buffer"
  /\ ~refused =>
       /\ \A l \in Layers : mEditBuffer[l] = "passthrough" => l \in transaction
       /\ ~mTransaction => Editing = {}
       /\ mTransaction => members \ restarts \subseteq Editing

\* Where the edits are, and that no edit is in two places that a commit
\* stores.
EditsPlaced ==
  /\ pending # {} => dbOpen
  /\ \A e \in buffered : mEditBuffer[e.layer] = "buffer"
  /\ buffered \cap pending = {}
  /\ buffered \cap stored = {}
  /\ pending \cap stored = {}

\* The edits are numbered in the order in which they were made.
EditsCounted ==
  /\ MadeEdits \subseteq [layer : Layers, number : 1..edits]
  /\ IsFiniteSet(MadeEdits)
  /\ Cardinality(MadeEdits) = edits

\* The inductive invariant.
IInv ==
  /\ TypeOK
  /\ TransactionAgrees
  /\ BuffersAgree
  /\ EditsPlaced
  /\ EditsCounted

USE LayersAssumption, OutcomesAssumption, BoundsAssumption

\* The invariant holds when the group is made.
LEMMA InitIInv == Init => IInv
<1> SUFFICES ASSUME Init PROVE IInv
  OBVIOUS
<1>1. TypeOK
  <2>1. /\ edits \in 0..MaxEdits /\ sessions \in 0..MaxSessions
        /\ failures \in 0..MaxFailures
    BY DEF Init
  <2>2. \A es \in {buffered, pending, stored, discarded, lost} : es = {}
    BY DEF Init
  <2>3. {buffered, pending, stored, discarded, lost} \subseteq SUBSET AllEdits
    BY <2>2
  <2> QED
    BY <2>1, <2>3 DEF Init, TypeOK
<1>2. TransactionAgrees /\ BuffersAgree /\ EditsPlaced
  BY DEF Init, TransactionAgrees, BuffersAgree, EditsPlaced, Editing
<1>3. EditsCounted
  <2>1. MadeEdits = {} /\ edits = 0
    BY DEF Init, MadeEdits
  <2> QED
    BY <2>1, FS_EmptySet DEF EditsCounted
<1> QED
  BY <1>1, <1>2, <1>3 DEF IInv

\* What startEditing() does to the group and to the edit buffers of its layers:
\* a layer that was asked is edited, those that were edited before keep their
\* buffers, and a group that had no transaction has one of all its layers.
LEMMA StartEditingKeeps ==
  ASSUME IInv, NEW l \in mLayers \ Editing, StartEditing(l),
         UNCHANGED <<mLayers, refused>>,
         restarts' \in {restarts, restarts \ {l}}
  PROVE  /\ TransactionAgrees' /\ BuffersAgree'
         /\ members' \subseteq mLayers /\ connected' \subseteq mLayers
         /\ mTransaction' /\ mTransactionActive' \in BOOLEAN
         /\ transaction' \subseteq Layers /\ dbOpen' \in BOOLEAN
         /\ mEditBuffer' \in [Layers -> {"none", "buffer", "passthrough"}]
         /\ \A m \in Editing : mEditBuffer'[m] = mEditBuffer[m]
         /\ failures' \in 0..MaxFailures
         /\ dbOpen => dbOpen'
<1> USE DEF IInv, TypeOK, TransactionAgrees, BuffersAgree, Editing, Start
<1>1. CASE mTransaction
  <2>1. /\ UNCHANGED <<mTransaction, connected, transactionVars, transaction,
                       dbOpen, failures>>
        /\ Start({l}, transaction)
    BY <1>1 DEF StartEditing
  <2>2. UNCHANGED <<mTransaction, mTransactionActive, members, connected,
                    transaction, dbOpen, failures>>
    BY <2>1 DEF transactionVars
  <2>3. /\ mEditBuffer'[l] = IF l \in transaction THEN "passthrough" ELSE "buffer"
        /\ \A m \in Layers \ {l} : mEditBuffer'[m] = mEditBuffer[m]
        /\ mEditBuffer' \in [Layers -> {"none", "buffer", "passthrough"}]
    BY <2>1
  <2>4. TransactionAgrees'
    BY <2>2
  <2>5. Editing' = Editing \cup {l}
    BY <2>3
  <2>6. BuffersAgree'
    BY <1>1, <2>2, <2>3, <2>5
  <2> QED
    BY <1>1, <2>2, <2>3, <2>4, <2>6
<1>2. CASE ~mTransaction
  <2> DEFINE starting == mLayers \ Editing
  <2> PICK begun \in BOOLEAN :
         /\ MayFail(~begun)
         /\ mTransaction' = TRUE
         /\ mTransactionActive' = begun
         /\ dbOpen' = begun
         /\ members' = {m \in starting : m \notin transaction}
         /\ transaction' = IF begun THEN transaction \cup members' ELSE transaction
         /\ connected' = mLayers
         /\ Start(starting, transaction')
    BY <1>2 DEF StartEditing, StartGroup
  <2>1. transaction = {} /\ members' = starting /\ ~dbOpen
    BY <1>2
  <2>2. transaction' = IF begun THEN starting ELSE {}
    BY <2>1
  <2>3. /\ \A m \in starting :
             mEditBuffer'[m] = IF begun THEN "passthrough" ELSE "buffer"
        /\ \A m \in Layers \ starting : mEditBuffer'[m] = mEditBuffer[m]
        /\ mEditBuffer' \in [Layers -> {"none", "buffer", "passthrough"}]
    BY <2>2
  <2>4. TransactionAgrees'
    BY <2>1, <2>2
  <2>5. Editing' = mLayers
    BY <2>3
  <2>6. BuffersAgree'
    BY <1>2, <2>1, <2>2, <2>3, <2>5
  <2>7. failures' \in 0..MaxFailures
    BY DEF MayFail
  <2> QED
    BY <2>1, <2>2, <2>3, <2>4, <2>6, <2>7
<1> QED
  BY <1>1, <1>2

\* Edits that move from one place to another remain counted.
LEMMA MovedAreCounted ==
  ASSUME EditsCounted, MadeEdits' = MadeEdits, edits' = edits
  PROVE  EditsCounted'
BY DEF EditsCounted

\* An edit that is made is one more, wherever it goes.
LEMMA MadeIsCounted ==
  ASSUME EditsCounted, edits \in Nat, edits' = edits + 1, NEW l \in Layers,
         MadeEdits' = MadeEdits \cup {[layer |-> l, number |-> edits + 1]}
  PROVE  EditsCounted'
<1> DEFINE e == [layer |-> l, number |-> edits + 1]
<1>1. e \notin MadeEdits
  BY DEF EditsCounted
<1>2. IsFiniteSet(MadeEdits') /\ Cardinality(MadeEdits') = edits + 1
  BY <1>1, FS_AddElement DEF EditsCounted
<1>3. MadeEdits' \subseteq [layer : Layers, number : 1..edits + 1]
  BY DEF EditsCounted
<1> QED
  BY <1>2, <1>3 DEF EditsCounted

\* Starting the editing of a layer, at once or when the event loop comes to it.
LEMMA StartsKeepIInv ==
  ASSUME IInv, NEW l \in Layers, UserStarts(l) \/ Restart(l)
  PROVE  IInv'
<1>1. CASE l \in mLayers \ Editing /\ StartEditing(l)
  <2>1. /\ UNCHANGED <<mLayers, mAllowCommit, buffered, pending, stored,
                       edits, discarded, lost, refused>>
        /\ restarts' \in {restarts, restarts \ {l}}
        /\ sessions' \in 0..MaxSessions
    BY DEF UserStarts, Restart, historyVars, IInv, TypeOK
  <2>2. TypeOK'
    BY <1>1, <2>1, StartEditingKeeps DEF IInv, TypeOK
  <2>3. TransactionAgrees' /\ BuffersAgree'
    BY <1>1, <2>1, StartEditingKeeps
  <2>4. EditsPlaced'
    <3>1. \A e \in buffered : e.layer \in Editing
      BY DEF IInv, TypeOK, EditsPlaced, Editing, AllEdits
    <3> QED
      BY <1>1, <2>1, <3>1, StartEditingKeeps DEF IInv, EditsPlaced
  <2>5. EditsCounted'
    BY <2>1, MovedAreCounted DEF IInv, MadeEdits
  <2> QED
    BY <2>2, <2>3, <2>4, <2>5 DEF IInv
<1>2. CASE Restart(l) /\ l \in Editing
  <2>1. /\ UNCHANGED <<mLayers, mTransaction, connected, mTransactionActive,
                       members, transaction, mEditBuffer, mAllowCommit, dbOpen,
                       buffered, pending, stored, edits, sessions, failures,
                       discarded, lost, refused>>
        /\ restarts' = restarts \ {l}
    BY <1>2 DEF Restart, transactionVars, historyVars
  <2>2. TypeOK' /\ TransactionAgrees' /\ BuffersAgree' /\ EditsPlaced'
    BY <1>2, <2>1 DEF IInv, TypeOK, TransactionAgrees, BuffersAgree, EditsPlaced, Editing
  <2>3. EditsCounted'
    BY <2>1, MovedAreCounted DEF IInv, MadeEdits
  <2> QED
    BY <2>2, <2>3 DEF IInv
<1> QED
  BY <1>1, <1>2 DEF UserStarts, Restart, IInv, TypeOK

\* The commit of the group, when it is done, or of a layer.
LEMMA CommitKeepsIInv ==
  ASSUME IInv, NEW l \in Layers, CommitChanges(l)
  PROVE  IInv' 
         /\ (pending \cap stored' # {} =>
               /\ pending \subseteq stored'
               /\ ~mTransaction'
               /\ members \cap mAllowCommit \cap Editing' = {})
<1> PICK outcome \in CommitOutcomes,
         bad \in SUBSET {m \in Layers : mEditBuffer[m] = "buffer"} :
       LET ends == EndsTransaction(l)
           done == ends /\ outcome = "done"
           asked == Committed(l, done)
           trying == asked \cap mAllowCommit
           stopped == trying \ bad
           sent == EditsOf(stopped, buffered)
       IN /\ ends \/ outcome = "done"
          /\ ~dbOpen => outcome = "done"
          /\ bad \subseteq asked
          /\ MayFail(outcome # "done" \/ bad # {})
          /\ IF done
               THEN DisableTransaction /\ UNCHANGED restarts
               ELSE /\ restarts' = IF l \in connected THEN restarts \cup {l} ELSE restarts
                    /\ dbOpen' = (dbOpen /\ outcome # "aborted")
                    /\ UNCHANGED <<mTransaction, connected, transactionVars, transaction>>
          /\ mEditBuffer' = [m \in Layers |-> IF m \in stopped THEN "none" ELSE mEditBuffer[m]]
          /\ buffered' = buffered \ sent
          /\ pending' = IF done \/ outcome = "aborted" THEN {} ELSE pending
          /\ stored' = stored \cup sent \cup (IF done THEN pending ELSE {})
          /\ lost' = lost \cup (IF outcome = "aborted" THEN pending ELSE {})
          /\ refused' = (refused \/ (done /\ ~(asked \subseteq stopped)))
  BY DEF CommitChanges
<1> DEFINE ends == EndsTransaction(l)
           done == ends /\ outcome = "done"
           asked == Committed(l, done)
           stopped == (asked \cap mAllowCommit) \ bad
           sent == EditsOf(stopped, buffered)
<1>1. UNCHANGED <<mLayers, mAllowCommit, edits, sessions, discarded>> /\ l \in Editing
  BY DEF CommitChanges
<1>2. /\ sent \subseteq buffered
      /\ \A e \in buffered \ sent : e.layer \notin stopped
  BY DEF EditsOf
<1>3. asked = {l} \cup (IF done THEN Editing ELSE {})
  BY DEF Committed, IInv, BuffersAgree
<1>4. mEditBuffer' = [m \in Layers |-> IF m \in stopped THEN "none" ELSE mEditBuffer[m]]
  OBVIOUS
<1>5. Editing' = Editing \ stopped
  BY <1>4 DEF Editing
<1>6. CASE done
  <2>1. /\ mTransaction' = FALSE /\ mTransactionActive' = FALSE
        /\ members' = {} /\ transaction' = transaction \ members
        /\ connected' = connected \ mLayers /\ dbOpen' = FALSE
        /\ restarts' = restarts
    BY <1>6 DEF DisableTransaction
  <2>2. /\ buffered' = buffered \ sent /\ pending' = {}
        /\ stored' = stored \cup sent \cup pending /\ lost' = lost
        /\ refused' = (refused \/ ~(asked \subseteq stopped))
    BY <1>6
  <2>3. transaction' = {} /\ connected' = {}
    BY <2>1 DEF IInv, TypeOK, TransactionAgrees
  <2>4. TypeOK'
    <3>1. failures' \in 0..MaxFailures
      BY DEF MayFail, IInv, TypeOK
    <3>2. /\ buffered' \subseteq AllEdits /\ pending' \subseteq AllEdits
          /\ stored' \subseteq AllEdits /\ discarded' \subseteq AllEdits
          /\ lost' \subseteq AllEdits
      BY <1>1, <1>2, <2>2 DEF IInv, TypeOK
    <3>3. refused' \in BOOLEAN
      BY <2>2 DEF IInv, TypeOK
    <3>4. mEditBuffer' \in [Layers -> {"none", "buffer", "passthrough"}]
      BY <1>4 DEF IInv, TypeOK
    <3> QED
      BY <1>1, <2>1, <2>3, <3>1, <3>2, <3>3, <3>4, ZenonT(30) DEF IInv, TypeOK
  <2>5. TransactionAgrees'
    BY <2>1, <2>3 DEF TransactionAgrees
  <2>6. ~refused' => Editing' = {}
    BY <1>3, <1>5, <1>6, <2>2
  <2>7. BuffersAgree'
    BY <1>1, <1>4, <1>5, <2>1, <2>3, <2>6 DEF IInv, BuffersAgree, Editing
  <2>8. EditsPlaced'
    BY <1>1, <1>2, <1>4, <2>1, <2>2 DEF IInv, TypeOK, AllEdits, EditsPlaced
  <2>9. EditsCounted'
    <3>1. MadeEdits' = MadeEdits
      BY <1>1, <1>2, <2>2 DEF MadeEdits
    <3> QED
      BY <1>1, <3>1, MovedAreCounted DEF IInv
  <2>10. members \cap mAllowCommit \cap Editing' = {}
    <3>1. mTransactionActive
      BY <1>6 DEF EndsTransaction
    <3>2. \A m \in members : m \notin bad
      BY <3>1 DEF IInv, TransactionAgrees, BuffersAgree
    <3> QED
      BY <1>3, <1>5, <1>6, <3>2
  <2> QED
    BY <2>1, <2>2, <2>4, <2>5, <2>7, <2>8, <2>9, <2>10 DEF IInv
<1>7. CASE ~done
  <2>1. /\ UNCHANGED <<mTransaction, connected, mTransactionActive, members, transaction>>
        /\ restarts' = IF l \in connected THEN restarts \cup {l} ELSE restarts
        /\ dbOpen' = (dbOpen /\ outcome # "aborted")
    BY <1>7 DEF transactionVars
  <2>2. /\ buffered' = buffered \ sent
        /\ pending' = IF outcome = "aborted" THEN {} ELSE pending
        /\ stored' = stored \cup sent
        /\ lost' = lost \cup (IF outcome = "aborted" THEN pending ELSE {})
        /\ refused' = refused
    BY <1>7 DEF IInv, TypeOK
  <2>3. stopped \subseteq {l}
    BY <1>3, <1>7
  <2>4. TypeOK'
    <3>1. failures' \in 0..MaxFailures
      BY DEF MayFail, IInv, TypeOK
    <3>2. /\ buffered' \subseteq AllEdits /\ pending' \subseteq AllEdits
          /\ stored' \subseteq AllEdits /\ discarded' \subseteq AllEdits
          /\ lost' \subseteq AllEdits
      BY <1>1, <1>2, <2>2 DEF IInv, TypeOK
    <3>3. refused' \in BOOLEAN
      BY <2>2 DEF IInv, TypeOK
    <3>4. mEditBuffer' \in [Layers -> {"none", "buffer", "passthrough"}]
      BY <1>4 DEF IInv, TypeOK
    <3> QED
      BY <1>1, <2>1, <3>1, <3>2, <3>3, <3>4, ZenonT(30) DEF IInv, TypeOK
  <2>5. TransactionAgrees'
    BY <2>1 DEF IInv, TransactionAgrees
  <2>6. BuffersAgree'
    <3>1. /\ Editing' \subseteq mLayers'
          /\ \A m \in transaction' : mEditBuffer'[m] # "buffer"
      BY <1>1, <1>4, <1>5, <2>1 DEF IInv, TypeOK, BuffersAgree
    <3>2. \A m \in Layers : mEditBuffer'[m] = "passthrough" => mEditBuffer[m] = "passthrough"
      BY <1>4
    <3>3. ~refused' /\ mTransaction' => members' \ restarts' \subseteq Editing'
      BY <1>5, <2>1, <2>2, <2>3 DEF IInv, TransactionAgrees, BuffersAgree
    <3> QED
      BY <1>5, <2>1, <2>2, <3>1, <3>2, <3>3 DEF IInv, BuffersAgree
  <2>7. EditsPlaced'
    BY <1>1, <1>2, <1>4, <2>1, <2>2 DEF IInv, TypeOK, AllEdits, EditsPlaced
  <2>8. EditsCounted'
    <3>1. MadeEdits' = MadeEdits
      BY <1>1, <1>2, <2>2 DEF MadeEdits
    <3> QED
      BY <1>1, <3>1, MovedAreCounted DEF IInv
  <2>9. pending \cap stored' = {}
    BY <1>2, <2>2 DEF IInv, EditsPlaced
  <2> QED
    BY <2>4, <2>5, <2>6, <2>7, <2>8, <2>9 DEF IInv
<1> QED
  BY <1>6, <1>7

\* The rollback of the group, when it is done, or of a layer.
LEMMA RollBackKeepsIInv ==
  ASSUME IInv, NEW l \in Layers, RollBack(l)
  PROVE  IInv'
<1> PICK fails \in BOOLEAN :
       LET ends == EndsTransaction(l)
           done == ends /\ ~fails
           stopped == {l} \cup (IF done THEN mLayers \cap Editing ELSE {})
       IN /\ fails => ends /\ dbOpen
          /\ MayFail(fails)
          /\ IF done
               THEN DisableTransaction /\ UNCHANGED restarts
               ELSE /\ restarts' = IF l \in connected THEN restarts \cup {l} ELSE restarts
                    /\ UNCHANGED <<mTransaction, connected, transactionVars, transaction, dbOpen>>
          /\ mEditBuffer' = [m \in Layers |-> IF m \in stopped THEN "none" ELSE mEditBuffer[m]]
          /\ buffered' = buffered \ EditsOf(stopped, buffered)
          /\ pending' = IF done THEN {} ELSE pending
          /\ discarded' = discarded \cup EditsOf(stopped, buffered)
                                    \cup (IF done THEN pending ELSE {})
  BY DEF RollBack
<1> DEFINE done == EndsTransaction(l) /\ ~fails
           stopped == {l} \cup (IF done THEN mLayers \cap Editing ELSE {})
           dropped == EditsOf(stopped, buffered)
<1>1. UNCHANGED <<mLayers, mAllowCommit, stored, edits, sessions, lost, refused>> /\ l \in Editing
  BY DEF RollBack
<1>2. /\ dropped \subseteq buffered
      /\ \A e \in buffered \ dropped : e.layer \notin stopped
  BY DEF EditsOf
<1>3. stopped = IF done THEN Editing ELSE {l}
  BY <1>1 DEF IInv, BuffersAgree
<1>4. mEditBuffer' = [m \in Layers |-> IF m \in stopped THEN "none" ELSE mEditBuffer[m]]
  OBVIOUS
<1>5. Editing' = Editing \ stopped
  BY <1>4 DEF Editing
<1>6. /\ buffered' = buffered \ dropped
      /\ pending' = IF done THEN {} ELSE pending
      /\ discarded' = discarded \cup dropped \cup (IF done THEN pending ELSE {})
  OBVIOUS
<1>7. /\ buffered' \subseteq AllEdits /\ pending' \subseteq AllEdits
      /\ stored' \subseteq AllEdits /\ discarded' \subseteq AllEdits
      /\ lost' \subseteq AllEdits
  BY <1>1, <1>2, <1>6 DEF IInv, TypeOK
<1>8. /\ mEditBuffer' \in [Layers -> {"none", "buffer", "passthrough"}]
      /\ failures' \in 0..MaxFailures
  BY <1>4 DEF MayFail, IInv, TypeOK
<1>9. EditsCounted'
  <2>1. MadeEdits' = MadeEdits
    BY <1>1, <1>2, <1>6 DEF MadeEdits
  <2> QED
    BY <1>1, <2>1, MovedAreCounted DEF IInv
<1>10. CASE done
  <2>1. /\ mTransaction' = FALSE /\ mTransactionActive' = FALSE
        /\ members' = {} /\ transaction' = transaction \ members
        /\ connected' = connected \ mLayers /\ dbOpen' = FALSE
        /\ restarts' = restarts
    BY <1>10 DEF DisableTransaction
  <2>2. transaction' = {} /\ connected' = {}
    BY <2>1 DEF IInv, TypeOK, TransactionAgrees
  <2>3. TypeOK'
    BY <1>1, <1>7, <1>8, <2>1, <2>2 DEF IInv, TypeOK
  <2>4. TransactionAgrees'
    BY <2>1, <2>2 DEF TransactionAgrees
  <2>5. Editing' = {}
    BY <1>3, <1>5, <1>10
  <2>6. BuffersAgree'
    BY <1>8, <2>1, <2>2, <2>5 DEF BuffersAgree, Editing
  <2>7. EditsPlaced'
    BY <1>1, <1>2, <1>4, <1>6, <1>10, <2>1 DEF IInv, TypeOK, AllEdits, EditsPlaced
  <2> QED
    BY <1>9, <2>3, <2>4, <2>6, <2>7 DEF IInv
<1>11. CASE ~done
  <2>1. /\ UNCHANGED <<mTransaction, connected, mTransactionActive, members,
                       transaction, dbOpen>>
        /\ restarts' = IF l \in connected THEN restarts \cup {l} ELSE restarts
    BY <1>11 DEF transactionVars
  <2>2. TypeOK'
    BY <1>1, <1>7, <1>8, <2>1 DEF IInv, TypeOK
  <2>3. TransactionAgrees'
    BY <2>1 DEF IInv, TransactionAgrees
  <2>4. stopped = {l}
    BY <1>3, <1>11
  <2>5. BuffersAgree'
    <3>1. /\ Editing' \subseteq mLayers'
          /\ \A m \in transaction' : mEditBuffer'[m] # "buffer"
      BY <1>1, <1>4, <1>5, <2>1 DEF IInv, TypeOK, BuffersAgree
    <3>2. \A m \in Layers : mEditBuffer'[m] = "passthrough" => mEditBuffer[m] = "passthrough"
      BY <1>4
    <3>3. ~refused' /\ mTransaction' => members' \ restarts' \subseteq Editing'
      BY <1>1, <1>5, <2>1, <2>4 DEF IInv, TransactionAgrees, BuffersAgree
    <3> QED
      BY <1>1, <1>5, <2>1, <3>1, <3>2, <3>3 DEF IInv, BuffersAgree
  <2>6. EditsPlaced'
    BY <1>1, <1>2, <1>4, <1>6, <1>11, <2>1 DEF IInv, TypeOK, AllEdits, EditsPlaced
  <2> QED
    BY <1>9, <2>2, <2>3, <2>5, <2>6 DEF IInv
<1> QED
  BY <1>10, <1>11

\* An edit goes into the buffer of its layer or into the open transaction.
LEMMA EditKeepsIInv ==
  ASSUME IInv, NEW l \in Layers, Edit(l)
  PROVE  IInv' /\ pending \cap stored' = {}
<1> DEFINE e == [layer |-> l, number |-> edits + 1]
<1>1. /\ edits < MaxEdits /\ edits' = edits + 1 /\ edits \in Nat
      /\ UNCHANGED <<mLayers, mTransaction, connected, restarts, mTransactionActive,
                     members, transaction, mEditBuffer, mAllowCommit, dbOpen, stored,
                     sessions, failures, discarded, lost, refused>>
  BY DEF Edit, groupVars, transactionVars, historyVars, IInv, TypeOK
<1>2. \/ /\ mEditBuffer[l] = "buffer"
         /\ buffered' = buffered \cup {e}
         /\ pending' = pending
      \/ /\ dbOpen
         /\ pending' = pending \cup {e}
         /\ buffered' = buffered
  BY DEF Edit
<1>3. e \in AllEdits /\ e.layer = l
  BY <1>1 DEF AllEdits, IInv, TypeOK
<1>4. e \notin MadeEdits
  BY <1>1 DEF IInv, EditsCounted
<1>5. EditsCounted'
  <2>1. MadeEdits' = MadeEdits \cup {e}
    BY <1>1, <1>2 DEF MadeEdits
  <2> QED
    BY <1>1, <2>1, MadeIsCounted DEF IInv
<1>6. TypeOK'
  <2>1. /\ buffered' \subseteq AllEdits /\ pending' \subseteq AllEdits
        /\ stored' \subseteq AllEdits /\ discarded' \subseteq AllEdits
        /\ lost' \subseteq AllEdits
    BY <1>1, <1>2, <1>3 DEF IInv, TypeOK
  <2>2. edits' \in 0..MaxEdits
    BY <1>1 DEF IInv, TypeOK
  <2> QED
    BY <1>1, <2>1, <2>2 DEF IInv, TypeOK
<1>7. TransactionAgrees' /\ BuffersAgree'
  BY <1>1 DEF IInv, TransactionAgrees, BuffersAgree, Editing
<1>8. EditsPlaced'
  BY <1>1, <1>2, <1>3, <1>4 DEF IInv, EditsPlaced, MadeEdits
<1> QED
  BY <1>1, <1>5, <1>6, <1>7, <1>8 DEF IInv, EditsPlaced

\* Geometry checks, and layers that come and go.
LEMMA LayersKeepIInv ==
  ASSUME IInv, NEW l \in Layers,
         (\E allow \in BOOLEAN : SetAllowCommit(l, allow)) \/ AddLayer(l) \/ RemoveLayer(l)
  PROVE  IInv' /\ stored' = stored
<1>1. CASE (\E allow \in BOOLEAN : SetAllowCommit(l, allow)) \/ AddLayer(l)
  <2>1. /\ UNCHANGED <<mTransaction, connected, restarts, mTransactionActive,
                       members, transaction, mEditBuffer, dbOpen, buffered, pending,
                       stored, edits, sessions, failures, discarded, lost, refused>>
        /\ mLayers' \in {mLayers, mLayers \cup {l}}
        /\ mAllowCommit' \subseteq mAllowCommit \cup {l}
    BY <1>1 DEF SetAllowCommit, AddLayer, groupVars, transactionVars, layerVars,
                dbVars, boundVars, historyVars
  <2>2. TypeOK'
    BY <2>1 DEF IInv, TypeOK
  <2>3. TransactionAgrees' /\ BuffersAgree' /\ EditsPlaced'
    BY <2>1 DEF IInv, TransactionAgrees, BuffersAgree, EditsPlaced, Editing
  <2>4. EditsCounted'
    BY <2>1, MovedAreCounted DEF IInv, MadeEdits
  <2> QED
    BY <2>1, <2>2, <2>3, <2>4 DEF IInv
<1>2. CASE RemoveLayer(l)
  <2> DEFINE dropped == EditsOf({l}, buffered)
  <2>1. /\ UNCHANGED <<mTransaction, mTransactionActive, dbOpen, pending, stored,
                       edits, sessions, failures, lost, refused>>
        /\ mLayers' = mLayers \ {l} /\ connected' = connected \ {l}
        /\ restarts' = restarts \ {l} /\ members' = members \ {l}
        /\ transaction' = transaction \ {l}
        /\ mEditBuffer' = [mEditBuffer EXCEPT ![l] = "none"]
        /\ mAllowCommit' = mAllowCommit \cup {l}
        /\ buffered' = buffered \ dropped
        /\ discarded' = discarded \cup dropped
    BY <1>2 DEF RemoveLayer, boundVars
  <2>2. /\ dropped \subseteq buffered
        /\ \A e \in buffered \ dropped : e.layer # l
    BY DEF EditsOf
  <2>3. Editing' = Editing \ {l}
    BY <2>1 DEF Editing, IInv, TypeOK
  <2>4. TypeOK'
    <3>1. /\ buffered' \subseteq AllEdits /\ pending' \subseteq AllEdits
          /\ stored' \subseteq AllEdits /\ discarded' \subseteq AllEdits
          /\ lost' \subseteq AllEdits
      BY <2>1, <2>2 DEF IInv, TypeOK
    <3> QED
      BY <2>1, <3>1 DEF IInv, TypeOK
  <2>5. TransactionAgrees'
    BY <2>1 DEF IInv, TransactionAgrees
  <2>6. BuffersAgree'
    BY <2>1, <2>3 DEF IInv, TypeOK, TransactionAgrees, BuffersAgree, Editing
  <2>7. EditsPlaced'
    <3>1. \A m \in Layers \ {l} : mEditBuffer'[m] = mEditBuffer[m]
      BY <2>1 DEF IInv, TypeOK
    <3>2. \A e \in buffered' : e \in buffered /\ e.layer \in Layers \ {l}
      BY <2>1, <2>2 DEF IInv, TypeOK, AllEdits
    <3> QED
      BY <2>1, <3>1, <3>2 DEF IInv, EditsPlaced
  <2>8. EditsCounted'
    <3>1. MadeEdits' = MadeEdits
      BY <2>1, <2>2 DEF MadeEdits
    <3> QED
      BY <2>1, <3>1, MovedAreCounted DEF IInv
  <2> QED
    BY <2>1, <2>4, <2>5, <2>6, <2>7, <2>8 DEF IInv
<1> QED
  BY <1>1, <1>2

-----------------------------------------------------------------------------
\* What any step does: the invariant is kept, and edits of the transaction are
\* stored by nothing but a commit of all of it.
LEMMA NextKeepsIInv ==
  ASSUME IInv, [Next]_vars
  PROVE  IInv' 
         /\ (pending \cap stored' # {} =>
               /\ pending \subseteq stored'
               /\ ~mTransaction'
               /\ members \cap mAllowCommit \cap Editing' = {})
<1>1. pending \cap stored = {}
  BY DEF IInv, EditsPlaced
<1>2. ASSUME NEW l \in Layers, UserStarts(l) \/ Restart(l)
      PROVE  IInv' /\ stored' = stored
  BY <1>2, StartsKeepIInv DEF UserStarts, Restart
<1>3. ASSUME UNCHANGED vars
      PROVE  IInv' /\ stored' = stored
  <2>1. UNCHANGED <<mLayers, mTransaction, connected, restarts, mTransactionActive,
                    members, transaction, mEditBuffer, mAllowCommit, dbOpen, buffered,
                    pending, stored, edits, sessions, failures, discarded, lost, refused>>
    BY <1>3 DEF vars, groupVars, transactionVars, layerVars, dbVars, boundVars, historyVars
  <2>2. TypeOK' /\ TransactionAgrees' /\ BuffersAgree' /\ EditsPlaced'
    BY <2>1 DEF IInv, TypeOK, TransactionAgrees, BuffersAgree, EditsPlaced, Editing
  <2>3. EditsCounted'
    BY <2>1, MovedAreCounted DEF IInv, MadeEdits
  <2> QED
    BY <2>1, <2>2, <2>3 DEF IInv
<1> QED
  BY <1>1, <1>2, <1>3, CommitKeepsIInv, RollBackKeepsIInv, EditKeepsIInv,
     LayersKeepIInv DEF Next, RollBack

\* The inductive invariant holds in every state.
THEOREM Inductive == Spec => []IInv
<1>1. IInv /\ [Next]_vars => IInv'
  BY NextKeepsIInv
<1> QED
  BY InitIInv, <1>1, PTL DEF Spec

\* The layers of a transaction are edited together, and a layer's provider has
\* the transaction exactly as long as the layer's edits go into it: whatever
\* begin(), COMMIT and ROLLBACK return and whichever layer comes, goes or
\* refuses (run transaction_group).
THEOREM TransactionWhereNeededHolds == Spec => []TransactionWhereNeeded
<1>1. IInv => TransactionWhereNeeded
  BY DEF IInv, TransactionAgrees, BuffersAgree, TransactionWhereNeeded, EditedTogether
<1> QED
  BY <1>1, Inductive, PTL

\* No edit gets lost but those the database drops when a COMMIT fails.
THEOREM NothingLostHolds == Spec => []NothingLost
<1>1. IInv => NothingLost
  BY DEF IInv, TransactionAgrees, EditsPlaced, EditsCounted, MadeEdits, NothingLost
<1> QED
  BY <1>1, Inductive, PTL

\* The edits of a transaction are stored all at once, by the step that ends
\* the editing of its layers.
THEOREM StoredTogetherHolds == Spec => StoredTogether
<1>1. IInv /\ [Next]_vars =>
        [pending \cap stored' # {} =>
           /\ pending \subseteq stored'
           /\ ~mTransaction'
           /\ members \cap mAllowCommit \cap Editing' = {}]_vars
  BY NextKeepsIInv
<1> QED
  BY <1>1, Inductive, PTL DEF Spec, StoredTogether

=============================================================================
