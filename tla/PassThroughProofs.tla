--------------------------- MODULE PassThroughProofs ---------------------------
(***************************************************************************)
(* Proofs about PassThrough, for any finite set of layers, any kinds of    *)
(* edits and all bounds: the savepoints of the transaction and of the      *)
(* database agree, and somebody knows of every edit.                       *)
(***************************************************************************)
EXTENDS PassThrough, SequenceLemmas

-----------------------------------------------------------------------------
(***************************************************************************)
(* The session and the savepoints of it                                    *)
(***************************************************************************)

Names == Nat \ {0}
Savepoints == [name : Names, table : SUBSET Edits]
Databases == [table : SUBSET Edits, savepoints : Seq(Savepoints), aborted : BOOLEAN]
Transactions == [mSavepoints : Seq(Names), mLastSavePointIsDirty : BOOLEAN]
Fields == [provider : SUBSET Edits, layer : SUBSET Edits]
Sessions == [db : Databases, tr : Transactions, fields : Fields]

\* The parts of a session.
LEMMA SessionParts ==
  ASSUME NEW s \in Sessions
  PROVE  /\ s.db \in Databases /\ s.tr \in Transactions /\ s.fields \in Fields
         /\ s.db.table \in SUBSET Edits /\ s.db.savepoints \in Seq(Savepoints)
         /\ s.db.aborted \in BOOLEAN
         /\ s.tr.mSavepoints \in Seq(Names) /\ s.tr.mLastSavePointIsDirty \in BOOLEAN
         /\ s.fields.provider \in SUBSET Edits /\ s.fields.layer \in SUBSET Edits
BY DEF Sessions, Databases, Transactions, Fields

\* A record of the three parts is a session.
LEMMA SessionMade ==
  ASSUME NEW r, r = [x \in {"db", "tr", "fields"} |-> r[x]],
         r.db \in Databases, r.tr \in Transactions, r.fields \in Fields
  PROVE  r \in Sessions
BY DEF Sessions

\* The database has the savepoints of the list, in the order of the list.
InOrder(list, savepoints) ==
  \A i, j \in DOMAIN list :
    /\ DbIndex(savepoints, list[i]) # 0
    /\ i < j => DbIndex(savepoints, list[i]) < DbIndex(savepoints, list[j])

\* A session whose savepoints are those of the database.
Sound(s) == s \in Sessions /\ InOrder(s.tr.mSavepoints, s.db.savepoints)

\* The names of the list were given before n.
NamesBelow(s, n) == \A i \in DOMAIN s.tr.mSavepoints : s.tr.mSavepoints[i] < n

\* No edit is, or can come back, in the table.
Untouched(s) ==
  /\ s.db.table = {}
  /\ \A i \in DOMAIN s.db.savepoints : s.db.savepoints[i].table = {}

\* k is the last savepoint of that name.
IsLastNamed(savepoints, name, k) ==
  /\ k \in DOMAIN savepoints
  /\ savepoints[k].name = name
  /\ \A j \in DOMAIN savepoints : savepoints[j].name = name => j <= k

\* DbIndex finds it, if there is one.
LEMMA DbIndexIs ==
  ASSUME NEW savepoints \in Seq(Savepoints), NEW name, NEW k,
         IsLastNamed(savepoints, name, k)
  PROVE  DbIndex(savepoints, name) = k
<1> DEFINE named == {i \in DOMAIN savepoints : savepoints[i].name = name}
<1>1. k \in named /\ \A j \in named : j <= k
  BY DEF IsLastNamed
<1>2. \A i \in named : (\A j \in named : j <= i) => i = k
  BY <1>1
<1> QED
  BY <1>1, <1>2 DEF DbIndex

\* It is 0 if there is none.
LEMMA DbIndexFinds ==
  ASSUME NEW savepoints \in Seq(Savepoints), NEW name
  PROVE  LET k == DbIndex(savepoints, name)
         IN \/ k = 0 /\ \A i \in DOMAIN savepoints : savepoints[i].name # name
            \/ IsLastNamed(savepoints, name, k)
<1> DEFINE named == {i \in DOMAIN savepoints : savepoints[i].name = name}
<1>1. CASE named = {}
  BY <1>1 DEF DbIndex
<1>2. CASE named # {}
  <2>1. named \in SUBSET Nat /\ Len(savepoints) \in Nat
    OBVIOUS
  <2>2. \A i \in named : i <= Len(savepoints)
    OBVIOUS
  <2>3. PICK k \in named : \A j \in named : j <= k
    BY <2>1, <2>2, <1>2, BoundedGreatest
  <2>4. IsLastNamed(savepoints, name, k)
    BY <2>3 DEF IsLastNamed
  <2> QED
    BY <2>4, DbIndexIs
<1> QED
  BY <1>1, <1>2

\* A new savepoint is the last, and moves no other.
LEMMA DbIndexAppend ==
  ASSUME NEW savepoints \in Seq(Savepoints), NEW p \in Savepoints, NEW name
  PROVE  DbIndex(Append(savepoints, p), name) =
           IF name = p.name THEN Len(savepoints) + 1 ELSE DbIndex(savepoints, name)
<1> DEFINE more == Append(savepoints, p)
<1>1. /\ more \in Seq(Savepoints)
      /\ DOMAIN more = 1 .. Len(savepoints) + 1
      /\ DOMAIN savepoints = 1 .. Len(savepoints)
      /\ \A i \in DOMAIN savepoints : more[i] = savepoints[i]
      /\ more[Len(savepoints) + 1] = p
  OBVIOUS
<1> HIDE DEF more
<1>2. CASE name = p.name
  <2>1. IsLastNamed(more, name, Len(savepoints) + 1)
    BY <1>1, <1>2 DEF IsLastNamed
  <2> QED
    BY <2>1, <1>1, <1>2, DbIndexIs DEF more
<1>3. CASE name # p.name
  <2>1. CASE DbIndex(savepoints, name) = 0
    <3>1. \A i \in DOMAIN savepoints : savepoints[i].name # name
      BY <2>1, DbIndexFinds DEF IsLastNamed
    <3>2. \A i \in DOMAIN more : more[i].name # name
      BY <3>1, <1>1, <1>3
    <3>3. DbIndex(more, name) = 0
      BY <3>2, <1>1, DbIndexFinds DEF IsLastNamed
    <3> QED
      BY <3>3, <2>1, <1>3 DEF more
  <2>2. CASE DbIndex(savepoints, name) # 0
    <3>1. IsLastNamed(savepoints, name, DbIndex(savepoints, name))
      BY <2>2, DbIndexFinds
    <3>2. IsLastNamed(more, name, DbIndex(savepoints, name))
      BY <3>1, <1>1, <1>3 DEF IsLastNamed
    <3> QED
      BY <3>2, <1>1, <1>3, DbIndexIs DEF more
  <2> QED
    BY <2>1, <2>2
<1> QED
  BY <1>2, <1>3

\* Dropping the savepoints after one keeps the others where they are.
LEMMA DbIndexCut ==
  ASSUME NEW savepoints \in Seq(Savepoints), NEW k \in DOMAIN savepoints, NEW name,
         DbIndex(savepoints, name) # 0, DbIndex(savepoints, name) <= k
  PROVE  DbIndex(SubSeq(savepoints, 1, k), name) = DbIndex(savepoints, name)
<1> DEFINE cut == SubSeq(savepoints, 1, k)
<1>1. /\ cut \in Seq(Savepoints)
      /\ DOMAIN cut = 1 .. k
      /\ DOMAIN savepoints = 1 .. Len(savepoints)
      /\ k \in Nat /\ k <= Len(savepoints)
      /\ \A i \in 1 .. k : cut[i] = savepoints[i]
  OBVIOUS
<1> HIDE DEF cut
<1>2. IsLastNamed(savepoints, name, DbIndex(savepoints, name))
  BY DbIndexFinds
<1>3. IsLastNamed(cut, name, DbIndex(savepoints, name))
  BY <1>1, <1>2 DEF IsLastNamed
<1> QED
  BY <1>1, <1>3, DbIndexIs DEF cut

-----------------------------------------------------------------------------
(***************************************************************************)
(* The functions of the session                                            *)
(***************************************************************************)

\* SAVEPOINT with a name that is not in the list: the new savepoint is the last
\* of both lists.
LEMMA SetSavepointSound ==
  ASSUME NEW s, Sound(s), NEW name \in Names, ~ HasSavepoint(s, name)
  PROVE  LET r == SetSavepoint(s, name)
         IN /\ Sound(r)
            /\ r.tr.mSavepoints # <<>>
            /\ Last(r.tr.mSavepoints) = name
            /\ \A n \in Nat : n > name /\ NamesBelow(s, n) => NamesBelow(r, n)
            /\ Untouched(s) => Untouched(r)
<1> DEFINE r == SetSavepoint(s, name)
           list == s.tr.mSavepoints
           p == [name |-> name, table |-> s.db.table]
<1>1. /\ s \in Sessions /\ list \in Seq(Names) /\ s.db.savepoints \in Seq(Savepoints)
      /\ p \in Savepoints
  BY SessionParts DEF Sound, Savepoints
<1>2. /\ r \in Sessions
      /\ r.tr.mSavepoints = Append(list, name)
      /\ r.db.savepoints = Append(s.db.savepoints, p)
      /\ r.db.table = s.db.table
  <2>1. r.tr = [mSavepoints |-> Append(list, name), mLastSavePointIsDirty |-> FALSE]
    BY <1>1 DEF SetSavepoint, Sessions
  <2>2. r.db = [table |-> s.db.table, savepoints |-> Append(s.db.savepoints, p),
                aborted |-> s.db.aborted]
    BY <1>1 DEF SetSavepoint, Sessions, Databases
  <2>3. /\ r.fields = s.fields
        /\ r = [x \in {"db", "tr", "fields"} |-> r[x]]
    BY <1>1 DEF SetSavepoint, Sessions
  <2> HIDE DEF r
  <2>4. r.db \in Databases /\ r.tr \in Transactions /\ r.fields \in Fields
    BY <1>1, <2>1, <2>2, <2>3, SessionParts DEF Databases, Transactions
  <2>5. r \in Sessions
    BY <2>3, <2>4, SessionMade
  <2> QED
    BY <2>1, <2>2, <2>5
<1>3. \A i \in DOMAIN list : list[i] # name
  BY DEF HasSavepoint, ToSet
<1>4. InOrder(r.tr.mSavepoints, r.db.savepoints)
  <2> DEFINE D(n) == DbIndex(s.db.savepoints, n)
             E(n) == DbIndex(Append(s.db.savepoints, p), n)
  <2>1. \A i \in DOMAIN list : E(list[i]) = D(list[i])
    BY <1>1, <1>3, DbIndexAppend
  <2>2. E(name) = Len(s.db.savepoints) + 1
    BY <1>1, DbIndexAppend
  <2>3. \A i \in DOMAIN list : D(list[i]) \in 1 .. Len(s.db.savepoints)
    BY <1>1, DbIndexFinds DEF Sound, InOrder, IsLastNamed
  <2>4. \A i, j \in DOMAIN list : i < j => D(list[i]) < D(list[j])
    BY DEF Sound, InOrder
  <2>5. /\ DOMAIN Append(list, name) = 1 .. Len(list) + 1
        /\ \A i \in 1 .. Len(list) : Append(list, name)[i] = list[i]
        /\ Append(list, name)[Len(list) + 1] = name
        /\ DOMAIN list = 1 .. Len(list) /\ Len(list) \in Nat /\ Len(s.db.savepoints) \in Nat
    BY <1>1
  <2> HIDE DEF D, E, list
  <2>6. ASSUME NEW i \in 1 .. Len(list) + 1, NEW j \in 1 .. Len(list) + 1
        PROVE  /\ E(Append(list, name)[i]) # 0
               /\ i < j => E(Append(list, name)[i]) < E(Append(list, name)[j])
    <3>1. CASE i \in 1 .. Len(list) /\ j \in 1 .. Len(list)
      BY <3>1, <2>1, <2>3, <2>4, <2>5
    <3>2. CASE i \in 1 .. Len(list) /\ j = Len(list) + 1
      BY <3>2, <2>1, <2>2, <2>3, <2>5
    <3>3. CASE i = Len(list) + 1
      BY <3>3, <2>2, <2>5
    <3> QED
      BY <3>1, <3>2, <3>3, <2>5
  <2> QED
    BY <1>2, <2>5, <2>6 DEF InOrder, E
<1>5. r.tr.mSavepoints # <<>> /\ Last(r.tr.mSavepoints) = name
  BY <1>1, <1>2, SMTT(30) DEF Last
<1>6. ASSUME NEW n \in Nat, n > name, NamesBelow(s, n) PROVE NamesBelow(r, n)
  BY <1>1, <1>2, <1>6 DEF NamesBelow
<1>7. ASSUME Untouched(s) PROVE Untouched(r)
  BY <1>1, <1>2, <1>7 DEF Untouched
<1> QED
  BY <1>2, <1>4, <1>5, <1>6, <1>7 DEF Sound

\* What an operation on the session keeps, but for the names it gives.
Keeps(s, r) ==
  /\ Sound(r)
  /\ \A n \in Nat : NamesBelow(s, n) => NamesBelow(r, n)
  /\ Untouched(s) => Untouched(r)

\* One operation after the other.
LEMMA KeepsTransitive ==
  ASSUME NEW s, NEW r, NEW q, Keeps(s, r), Keeps(r, q)
  PROVE  Keeps(s, q)
BY DEF Keeps

\* Nothing is done.
LEMMA KeepsItself == ASSUME NEW s, Sound(s) PROVE Keeps(s, s)
BY DEF Keeps

\* Nothing is said of the rest of the session.
LEMMA SameSavepointsKeeps ==
  ASSUME NEW s, Sound(s), NEW r \in Sessions,
         r.db.savepoints = s.db.savepoints, r.tr.mSavepoints = s.tr.mSavepoints,
         r.db.table \subseteq s.db.table
  PROVE  Keeps(s, r)
BY DEF Keeps, Sound, NamesBelow, Untouched

\* The transaction is aborted.
LEMMA AbortKeeps ==
  ASSUME NEW s, Sound(s)
  PROVE  /\ Keeps(s, Abort(s))
         /\ Abort(s).db.savepoints = s.db.savepoints /\ Abort(s).tr = s.tr
         /\ Abort(s).fields = s.fields
<1> DEFINE r == Abort(s)
<1>1. s \in Sessions
  BY DEF Sound
<1>2. r = [x \in {"db", "tr", "fields"} |-> r[x]] /\ r.tr = s.tr /\ r.fields = s.fields
  BY <1>1 DEF Abort, Sessions
<1>3. r.db = [s.db EXCEPT !.aborted = TRUE]
  BY <1>1 DEF Abort, Sessions
<1>4. r.db \in Databases /\ r.db.savepoints = s.db.savepoints /\ r.db.table = s.db.table
  BY <1>1, <1>3 DEF Sessions, Databases
<1>5. r \in Sessions
  <2> HIDE DEF r
  <2> QED
    BY <1>1, <1>2, <1>4, SessionMade, SessionParts
<1> HIDE DEF r
<1>6. Keeps(s, r)
  BY <1>2, <1>4, <1>5, SameSavepointsKeeps
<1> QED
  BY <1>2, <1>4, <1>6 DEF r

\* The last savepoint is marked dirty.
LEMMA DirtyKeeps ==
  ASSUME NEW s, Sound(s)
  PROVE  /\ Keeps(s, dirtyLastSavePoint(s))
         /\ dirtyLastSavePoint(s).db = s.db /\ dirtyLastSavePoint(s).fields = s.fields
         /\ dirtyLastSavePoint(s).tr.mSavepoints = s.tr.mSavepoints
<1> DEFINE r == dirtyLastSavePoint(s)
<1>1. s \in Sessions
  BY DEF Sound
<1>2. r = [x \in {"db", "tr", "fields"} |-> r[x]] /\ r.db = s.db /\ r.fields = s.fields
  BY <1>1 DEF dirtyLastSavePoint, Sessions
<1>3. r.tr = [s.tr EXCEPT !.mLastSavePointIsDirty = TRUE]
  BY <1>1 DEF dirtyLastSavePoint, Sessions
<1>4. r.tr \in Transactions /\ r.tr.mSavepoints = s.tr.mSavepoints
  BY <1>1, <1>3 DEF Sessions, Transactions
<1>5. r \in Sessions
  <2> HIDE DEF r
  <2> QED
    BY <1>1, <1>2, <1>4, SessionMade, SessionParts
<1> HIDE DEF r
<1>6. Keeps(s, r)
  BY <1>2, <1>4, <1>5, SameSavepointsKeeps
<1> QED
  BY <1>2, <1>4, <1>6 DEF r

\* Lists of fields are read from the table or from each other.
LEMMA FieldsKeeps ==
  ASSUME NEW s, Sound(s), NEW f \in Fields, NEW r,
         r = [s EXCEPT !.fields = f]
  PROVE  Keeps(s, r) /\ r.db = s.db /\ r.tr = s.tr
<1>1. s \in Sessions
  BY DEF Sound
<1>2. /\ r = [x \in {"db", "tr", "fields"} |-> r[x]]
      /\ r.db = s.db /\ r.fields = f /\ r.tr = s.tr
  BY <1>1 DEF Sessions
<1>3. r \in Sessions
  BY <1>1, <1>2, SessionMade, SessionParts
<1> QED
  BY <1>2, <1>3, SameSavepointsKeeps

\* The provider reads the fields of a layer.
LEMMA LoadFieldsKeeps ==
  ASSUME NEW s, Sound(s), NEW l
  PROVE  /\ Keeps(s, loadFields(s, l))
         /\ loadFields(s, l).db = s.db /\ loadFields(s, l).tr = s.tr
<1>1. s \in Sessions
  BY DEF Sound
<1> DEFINE p == {e \in s.fields.provider : e.layer # l}
                  \cup IF s.db.aborted THEN {} ELSE SchemaOf(s.db.table, l)
           f == [s.fields EXCEPT !.provider = p]
<1>2. p \in SUBSET Edits
  BY <1>1, SessionParts DEF SchemaOf
<1> HIDE DEF p
<1>3. f \in Fields
  BY <1>1, <1>2, SessionParts DEF Fields
<1>4. loadFields(s, l) = [s EXCEPT !.fields = f]
  BY <1>1 DEF loadFields, Sessions, p
<1> HIDE DEF f
<1> QED
  BY <1>3, <1>4, FieldsKeeps

\* A layer takes over the fields of its provider.
LEMMA UpdateLayerFieldsKeeps ==
  ASSUME NEW s, Sound(s), NEW l
  PROVE  /\ Keeps(s, updateLayerFields(s, l))
         /\ updateLayerFields(s, l).db = s.db /\ updateLayerFields(s, l).tr = s.tr
<1>1. s \in Sessions
  BY DEF Sound
<1> DEFINE p == {e \in s.fields.layer : e.layer # l}
                  \cup {e \in s.fields.provider : e.layer = l}
           f == [s.fields EXCEPT !.layer = p]
<1>2. p \in SUBSET Edits
  BY <1>1, SessionParts
<1> HIDE DEF p
<1>3. f \in Fields
  BY <1>1, <1>2, SessionParts DEF Fields
<1>4. updateLayerFields(s, l) = [s EXCEPT !.fields = f]
  BY <1>1 DEF updateLayerFields, Sessions, p
<1> HIDE DEF f
<1> QED
  BY <1>3, <1>4, FieldsKeeps

\* A statement changes the table.
WithTable(s, t) == [s EXCEPT !.db.table = t]

\* The table changes. Edits that are taken away need no place to come back
\* from.
LEMMA TableKeeps ==
  ASSUME NEW s, Sound(s), NEW t \in SUBSET Edits, NEW r, r = WithTable(s, t)
  PROVE  /\ Sound(r)
         /\ \A n \in Nat : NamesBelow(s, n) => NamesBelow(r, n)
         /\ t \subseteq s.db.table => Keeps(s, r)
         /\ r.db = [s.db EXCEPT !.table = t] /\ r.tr = s.tr /\ r.fields = s.fields
<1>1. s \in Sessions
  BY DEF Sound
<1>2. /\ r = [x \in {"db", "tr", "fields"} |-> r[x]]
      /\ r.db = [s.db EXCEPT !.table = t] /\ r.fields = s.fields /\ r.tr = s.tr
  BY <1>1 DEF Sessions, WithTable
<1>3. r.db \in Databases /\ r.db.savepoints = s.db.savepoints /\ r.db.table = t
  BY <1>1, <1>2 DEF Sessions, Databases
<1>4. r \in Sessions
  BY <1>1, <1>2, <1>3, SessionMade, SessionParts
<1>5. Sound(r) /\ \A n \in Nat : NamesBelow(s, n) => NamesBelow(r, n)
  BY <1>2, <1>3, <1>4 DEF Sound, NamesBelow
<1>6. t \subseteq s.db.table => Keeps(s, r)
  BY <1>2, <1>3, <1>4, SameSavepointsKeeps
<1> QED
  BY <1>2, <1>5, <1>6

\* createSavepoint() with a name that is new: the last savepoint stays, or the
\* new one is the last.
LEMMA CreateSavepointSound ==
  ASSUME NEW s, Sound(s), NEW name \in Names, NamesBelow(s, name), NEW failing
  PROVE  LET r == createSavepoint(s, name, failing)
         IN /\ Sound(r)
            /\ \A n \in Nat : n > name /\ NamesBelow(s, n) => NamesBelow(r, n)
            /\ Untouched(s) => Untouched(r)
            /\ SavepointGiven(s, failing) => r.tr.mSavepoints # <<>>
            /\ r.fields = s.fields
<1>1. ~ HasSavepoint(s, name)
  <2>1. s.tr.mSavepoints \in Seq(Names)
    BY SessionParts DEF Sound
  <2> QED
    BY <2>1 DEF HasSavepoint, ToSet, NamesBelow, Names
<1>2. CASE ~s.tr.mLastSavePointIsDirty /\ s.tr.mSavepoints # <<>>
  BY <1>2 DEF createSavepoint
<1>3. CASE /\ ~ (~s.tr.mLastSavePointIsDirty /\ s.tr.mSavepoints # <<>>)
           /\ Refused(s, failing, "savepoint")
  <2>1. createSavepoint(s, name, failing) = Abort(s)
    BY <1>3 DEF createSavepoint
  <2>2. ~ SavepointGiven(s, failing)
    BY <1>3 DEF SavepointGiven
  <2> QED
    BY <2>1, <2>2, AbortKeeps DEF Keeps
<1>4. CASE /\ ~ (~s.tr.mLastSavePointIsDirty /\ s.tr.mSavepoints # <<>>)
           /\ ~ Refused(s, failing, "savepoint")
  <2>1. createSavepoint(s, name, failing) = SetSavepoint(s, name)
    BY <1>4 DEF createSavepoint
  <2>2. SetSavepoint(s, name).fields = s.fields
    <3>1. s \in Sessions
      BY DEF Sound
    <3> QED
      BY <3>1 DEF SetSavepoint, Sessions
  <2> QED
    BY <2>1, <2>2, <1>1, SetSavepointSound
<1> QED
  BY <1>2, <1>3, <1>4

\* The place of a savepoint in the list.
LEMMA SelectInSeqFinds ==
  ASSUME NEW list \in Seq(Names), NEW name \in ToSet(list)
  PROVE  LET i == SelectInSeq(list, LAMBDA n : n = name)
         IN i \in DOMAIN list /\ list[i] = name
<1> DEFINE I == {i \in 1 .. Len(list) : list[i] = name}
<1>1. I # {} /\ I \in SUBSET Nat
  BY DEF ToSet
<1>2. SelectInSeq(list, LAMBDA n : n = name) = Min(I)
  BY <1>1 DEF SelectInSeq
<1>3. PICK x \in I : \A y \in I : x <= y
  BY <1>1, LeastElement
<1>4. Min(I) \in I
  <2> HIDE DEF I
  <2> QED
    BY <1>3, Zenon DEF Min
<1> QED
  BY <1>2, <1>4

\* Cutting the list, and the savepoints after one that is later than all that
\* stay in the list.
LEMMA RollbackKeeps ==
  ASSUME NEW s, Sound(s), NEW name, HasSavepoint(s, name), NEW failing
  PROVE  /\ Keeps(s, rollbackToSavepoint(s, name, failing))
         /\ rollbackToSavepoint(s, name, failing).fields = s.fields
<1> DEFINE list == s.tr.mSavepoints
           idx == SelectInSeq(list, LAMBDA n : n = name)
           k == DbIndex(s.db.savepoints, name)
           short == SubSeq(list, 1, idx - 1)
           t == [mSavepoints |-> short, mLastSavePointIsDirty |-> FALSE]
           cut == [s EXCEPT !.tr = t]
           d == [table |-> s.db.savepoints[k].table,
                 savepoints |-> SubSeq(s.db.savepoints, 1, k),
                 aborted |-> FALSE]
           back == [cut EXCEPT !.db = d]
<1>1. s \in Sessions /\ list \in Seq(Names) /\ s.db.savepoints \in Seq(Savepoints)
  BY SessionParts DEF Sound
<1>2. idx \in DOMAIN list /\ list[idx] = name
  BY <1>1, SelectInSeqFinds DEF HasSavepoint
<1> HIDE DEF idx
<1>3. /\ short \in Seq(Names)
      /\ DOMAIN short = 1 .. idx - 1
      /\ \A i \in 1 .. idx - 1 : i \in DOMAIN list /\ short[i] = list[i]
  BY <1>1, <1>2
<1>4. IsLastNamed(s.db.savepoints, name, k)
  BY <1>1, <1>2, DbIndexFinds DEF Sound, InOrder
<1>5. k \in DOMAIN s.db.savepoints /\ k # 0
  BY <1>1, <1>4 DEF IsLastNamed
<1> HIDE DEF short
<1>6. t \in Transactions
  BY <1>3 DEF Transactions
<1>7. /\ cut = [x \in {"db", "tr", "fields"} |-> cut[x]]
      /\ cut.tr = t /\ cut.db = s.db /\ cut.fields = s.fields
  BY <1>1 DEF Sessions
<1>8. Keeps(s, cut)
  <2>1. cut \in Sessions
    BY <1>1, <1>6, <1>7, SessionMade, SessionParts
  <2>2. InOrder(short, s.db.savepoints)
    BY <1>3 DEF Sound, InOrder
  <2>3. \A n \in Nat : NamesBelow(s, n) => NamesBelow(cut, n)
    BY <1>3, <1>7 DEF NamesBelow
  <2> QED
    BY <2>1, <2>2, <2>3, <1>7 DEF Keeps, Sound, Untouched
<1>9. Keeps(s, Abort(cut)) /\ Abort(cut).fields = s.fields
  BY <1>7, <1>8, AbortKeeps, KeepsTransitive DEF Keeps
<1>10. Keeps(s, back) /\ back.fields = s.fields
  <2>1. /\ d \in Databases
        /\ \A i \in 1 .. k : d.savepoints[i] = s.db.savepoints[i]
        /\ DOMAIN d.savepoints = 1 .. k
    <3>1. SubSeq(s.db.savepoints, 1, k) \in Seq(Savepoints)
      BY <1>1, <1>5
    <3>2. s.db.savepoints[k].table \in SUBSET Edits
      <4>1. s.db.savepoints[k] \in Savepoints
        BY <1>1, <1>5
      <4> QED
        BY <4>1 DEF Savepoints
    <3>3. d \in Databases
      BY <3>1, <3>2 DEF Databases
    <3> QED
      BY <3>3, <1>1, <1>5
  <2>2. /\ back = [x \in {"db", "tr", "fields"} |-> back[x]]
        /\ back.tr = t /\ back.db = d /\ back.fields = s.fields
    <3> HIDE DEF cut, d, t
    <3> QED
      BY <1>7
  <2>3. back \in Sessions
    BY <2>1, <2>2, <1>1, <1>6, SessionMade, SessionParts
  <2>4. InOrder(short, d.savepoints)
    <3>1. ASSUME NEW i \in 1 .. idx - 1
          PROVE  /\ DbIndex(s.db.savepoints, list[i]) # 0
                 /\ DbIndex(s.db.savepoints, list[i]) < k
      <4>1. i \in DOMAIN list /\ idx \in DOMAIN list /\ i < idx
        BY <1>1, <1>2, <1>3
      <4> QED
        BY <4>1, <1>2 DEF Sound, InOrder
    <3>2. ASSUME NEW i \in 1 .. idx - 1
          PROVE  DbIndex(d.savepoints, list[i]) = DbIndex(s.db.savepoints, list[i])
      <4>1. DbIndex(s.db.savepoints, list[i]) <= k
        BY <3>1, <1>1, <1>5, DbIndexFinds DEF IsLastNamed
      <4> QED
        BY <4>1, <3>1, <1>1, <1>5, DbIndexCut
    <3> HIDE DEF d, k, list
    <3>3. ASSUME NEW i \in 1 .. idx - 1, NEW j \in 1 .. idx - 1, i < j
          PROVE  DbIndex(s.db.savepoints, list[i]) < DbIndex(s.db.savepoints, list[j])
      BY <1>3, <3>3 DEF Sound, InOrder, list
    <3> QED
      BY <3>1, <3>2, <3>3, <1>3 DEF InOrder
  <2>5. \A n \in Nat : NamesBelow(s, n) => NamesBelow(back, n)
    BY <1>3, <2>2 DEF NamesBelow
  <2>6. Untouched(s) => Untouched(back)
    <3>1. back.db.table = s.db.savepoints[k].table /\ back.db.savepoints = d.savepoints
      BY <2>2
    <3>2. \A i \in 1 .. k : i \in DOMAIN s.db.savepoints
      BY <1>1, <1>5
    <3> HIDE DEF d, back, k
    <3> QED
      BY <3>1, <3>2, <2>1, <1>5 DEF Untouched
  <2> QED
    BY <2>2, <2>3, <2>4, <2>5, <2>6 DEF Keeps, Sound
<1>11. rollbackToSavepoint(s, name, failing) =
         IF failing = "savepoint" \/ k = 0 THEN Abort(cut) ELSE back
  BY DEF rollbackToSavepoint, idx, short
<1> QED
  BY <1>9, <1>10, <1>11

-----------------------------------------------------------------------------
(***************************************************************************)
(* The commands                                                            *)
(***************************************************************************)

\* A command without an error has a savepoint.
Sent == {c \in Commands : ~ c.mHasError => c.mSavePointId # 0}

\* A command whose undo and redo do nothing to the table.
Inert(c) == c.mHasError /\ ~ c.mUndone

\* What undo() and redo() of a command c, in the session s, keep.
CommandKept(s, c, r, n) ==
  /\ Sound(r.s)
  /\ r.c \in Sent
  /\ NamesBelow(r.s, n) /\ r.c.mSavePointId < n
  /\ Untouched(s) /\ Inert(c) => Untouched(r.s) /\ Inert(r.c)

\* The parts of a command.
LEMMA SentParts ==
  ASSUME NEW c \in Sent
  PROVE  /\ c \in Commands
         /\ c.edit \in Edits /\ c.edit.layer \in Layers \cup {"none"}
         /\ c.edit.kind \in Kinds /\ c.edit.number \in Numbers
         /\ c.mSavePointId \in Nat /\ c.mHasError \in BOOLEAN
         /\ c.mRecreateSavePoint \in BOOLEAN /\ c.mUndone \in BOOLEAN
         /\ ~ c.mHasError => c.mSavePointId \in Names
BY DEF Sent, Commands, Edits, Names

\* rollBackToSavePoint() of a command.
LEMMA RollBackCommandKept ==
  ASSUME NEW s, Sound(s), NEW c \in Sent, NEW failing
  PROVE  LET r == rollBackToSavePoint(s, c, failing)
         IN /\ Keeps(s, r.s)
            /\ r.c \in Sent
            /\ r.c.mSavePointId = c.mSavePointId /\ r.c.edit = c.edit
            /\ c.mHasError => r = [s |-> s, c |-> c]
            /\ r.c.mUndone = c.mUndone
<1>1. CASE ~c.mHasError /\ HasSavepoint(s, c.mSavePointId)
  <2> DEFINE b == failing = "savepoint" \/ DbIndex(s.db.savepoints, c.mSavePointId) = 0
  <2>1. /\ rollBackToSavePoint(s, c, failing).s = rollbackToSavepoint(s, c.mSavePointId, failing)
        /\ rollBackToSavePoint(s, c, failing).c = [c EXCEPT !.mHasError = b]
    BY <1>1 DEF rollBackToSavePoint
  <2>2. b \in BOOLEAN /\ c.mSavePointId # 0
    BY <1>1, SentParts DEF Names
  <2> HIDE DEF b
  <2>3. Keeps(s, rollbackToSavepoint(s, c.mSavePointId, failing))
    BY <1>1, RollbackKeeps
  <2>4. /\ [c EXCEPT !.mHasError = b] \in Sent
        /\ [c EXCEPT !.mHasError = b].mSavePointId = c.mSavePointId
        /\ [c EXCEPT !.mHasError = b].edit = c.edit
        /\ [c EXCEPT !.mHasError = b].mUndone = c.mUndone
    BY <2>2 DEF Sent, Commands
  <2> QED
    BY <1>1, <2>1, <2>3, <2>4
<1>2. CASE ~ (~c.mHasError /\ HasSavepoint(s, c.mSavePointId))
  <2>1. rollBackToSavePoint(s, c, failing) = [s |-> s, c |-> c]
    BY <1>2 DEF rollBackToSavePoint
  <2> QED
    BY <2>1, KeepsItself
<1> QED
  BY <1>1, <1>2

\* undo() of a command. An inert one leaves an empty table empty.
LEMMA UndoCommandKept ==
  ASSUME NEW s, Sound(s), NEW c \in Sent, NEW failing,
         NEW n \in Nat, NamesBelow(s, n), c.mSavePointId < n,
         NEW r, r = UndoCommand(s, c, failing)
  PROVE  CommandKept(s, c, r, n)
<1>1. CASE /\ c.edit.kind \in SchemaKinds
           /\ InverseRuns(s, c.edit) /\ ~Refused(s, failing, "statement")
  <2> DEFINE shrunk == [s EXCEPT !.db.table = @ \ {c.edit}]
             told == loadFields(dirtyLastSavePoint(shrunk), c.edit.layer)
             b == rollBackToSavePoint(told, c, failing)
  <2>1. Keeps(s, shrunk)
    <3> DEFINE t == s.db.table \ {c.edit}
    <3>1. t \in SUBSET Edits /\ t \subseteq s.db.table
      BY SessionParts DEF Sound
    <3>2. shrunk = WithTable(s, t)
      BY SessionParts DEF Sound, Sessions, WithTable
    <3> HIDE DEF shrunk, t
    <3> QED
      BY <3>1, <3>2, TableKeeps
  <2> HIDE DEF shrunk
  <2>2. Keeps(s, told)
    BY <2>1, DirtyKeeps, LoadFieldsKeeps, KeepsTransitive DEF Keeps
  <2> HIDE DEF told
  <2>3. /\ Keeps(s, b.s) /\ b.c \in Sent /\ b.c.mSavePointId = c.mSavePointId
        /\ c.mHasError => b.c = c
    <3>1. Sound(told)
      BY <2>2 DEF Keeps
    <3>2. /\ Keeps(told, b.s) /\ b.c \in Sent /\ b.c.mSavePointId = c.mSavePointId
          /\ c.mHasError => b.c = c
      BY <3>1, RollBackCommandKept
    <3> QED
      BY <3>2, <2>2, KeepsTransitive
  <2>4. b = [s |-> b.s, c |-> b.c]
    BY DEF rollBackToSavePoint
  <2> HIDE DEF b
  <2>5. CASE b.c.mHasError
    <3>1. r = b
      BY <1>1, <2>5 DEF UndoCommand, shrunk, told, b
    <3> QED
      BY <3>1, <2>3 DEF CommandKept, Keeps, Inert
  <2>6. CASE ~ b.c.mHasError
    <3>1. r = [b EXCEPT !.s = updateLayerFields(@, c.edit.layer)]
      BY <1>1, <2>6 DEF UndoCommand, shrunk, told, b
    <3>2. r.s = updateLayerFields(b.s, c.edit.layer) /\ r.c = b.c
      BY <3>1, <2>4
    <3>3. Keeps(s, r.s)
      BY <3>2, <2>3, UpdateLayerFieldsKeeps, KeepsTransitive DEF Keeps
    <3> QED
      BY <3>2, <3>3, <2>3 DEF CommandKept, Keeps, Inert
  <2> QED
    BY <2>3, <2>5, <2>6, SentParts
<1>2. CASE /\ c.edit.kind \in SchemaKinds
           /\ ~ (InverseRuns(s, c.edit) /\ ~Refused(s, failing, "statement"))
  <2>1. r = [s |-> loadFields(s, c.edit.layer), c |-> [c EXCEPT !.mHasError = TRUE]]
    BY <1>2 DEF UndoCommand
  <2>2. Keeps(s, loadFields(s, c.edit.layer))
    BY LoadFieldsKeeps
  <2>3. /\ [c EXCEPT !.mHasError = TRUE] \in Sent
        /\ [c EXCEPT !.mHasError = TRUE].mSavePointId = c.mSavePointId
        /\ [c EXCEPT !.mHasError = TRUE].mHasError
        /\ [c EXCEPT !.mHasError = TRUE].mUndone = c.mUndone
    BY DEF Sent, Commands
  <2>4. r.s = loadFields(s, c.edit.layer) /\ r.c = [c EXCEPT !.mHasError = TRUE]
    BY <2>1
  <2> QED
    BY <2>2, <2>3, <2>4 DEF CommandKept, Keeps, Inert
<1>3. CASE c.edit.kind \notin SchemaKinds
  <2> DEFINE b == rollBackToSavePoint(s, c, failing)
  <2>1. /\ Keeps(s, b.s) /\ b.c \in Sent /\ b.c.mSavePointId = c.mSavePointId
        /\ b.c.mUndone = c.mUndone
        /\ c.mHasError => b.c = c
    BY RollBackCommandKept
  <2>2. b = [s |-> b.s, c |-> b.c]
    BY DEF rollBackToSavePoint
  <2> HIDE DEF b
  <2>3. CASE c.edit.kind = "sql" /\ ~ b.c.mHasError
    <3>1. r = [b EXCEPT !.c.mUndone = TRUE]
      BY <1>3, <2>3 DEF UndoCommand, b
    <3>2. r.s = b.s /\ r.c = [b.c EXCEPT !.mUndone = TRUE]
      BY <3>1, <2>2
    <3>3. /\ [b.c EXCEPT !.mUndone = TRUE] \in Sent
          /\ [b.c EXCEPT !.mUndone = TRUE].mSavePointId = b.c.mSavePointId
      BY <2>1 DEF Sent, Commands
    <3>4. ~ c.mHasError
      BY <2>1, <2>3
    <3> QED
      BY <2>1, <3>2, <3>3, <3>4 DEF CommandKept, Keeps, Inert
  <2>4. CASE ~ (c.edit.kind = "sql" /\ ~ b.c.mHasError)
    <3>1. r = b
      BY <1>3, <2>4 DEF UndoCommand, b
    <3> QED
      BY <3>1, <2>1 DEF CommandKept, Keeps, Inert
  <2> QED
    BY <2>3, <2>4
<1> QED
  BY <1>1, <1>2, <1>3

\* The statement of an edit succeeds.
LEMMA ApplySound ==
  ASSUME NEW s, Sound(s), NEW e \in Edits
  PROVE  /\ Sound(Apply(s, e))
         /\ \A n \in Nat : NamesBelow(s, n) => NamesBelow(Apply(s, e), n)
<1> DEFINE t == s.db.table \cup {e}
           more == [s EXCEPT !.db.table = @ \cup {e}]
           run == dirtyLastSavePoint(more)
           loaded == loadFields(run, e.layer)
           shown == updateLayerFields(loaded, e.layer)
<1>1. t \in SUBSET Edits
  BY SessionParts DEF Sound
<1>2. more = WithTable(s, t)
  BY SessionParts DEF Sound, Sessions, WithTable
<1> HIDE DEF more, t
<1>3. Sound(more) /\ \A n \in Nat : NamesBelow(s, n) => NamesBelow(more, n)
  BY <1>1, <1>2, TableKeeps
<1>4. Sound(run) /\ \A n \in Nat : NamesBelow(s, n) => NamesBelow(run, n)
  BY <1>3, DirtyKeeps DEF Keeps
<1> HIDE DEF run
<1>5. Sound(loaded) /\ \A n \in Nat : NamesBelow(s, n) => NamesBelow(loaded, n)
  BY <1>4, LoadFieldsKeeps DEF Keeps
<1> HIDE DEF loaded
<1>6. Sound(shown) /\ \A n \in Nat : NamesBelow(s, n) => NamesBelow(shown, n)
  BY <1>5, UpdateLayerFieldsKeeps DEF Keeps
<1>7. Apply(s, e) = IF e.kind \in SchemaKinds THEN shown ELSE run
  BY DEF Apply, shown, loaded, run, more
<1> QED
  BY <1>4, <1>6, <1>7

\* redo() of an edit through the provider. If it ends with an error the table
\* is as empty as it was.
LEMMA RedoEditKept ==
  ASSUME NEW s, Sound(s), NEW c \in Sent, NEW failing,
         NEW n \in Nat, NamesBelow(s, n), c.mSavePointId < n,
         NEW r, r = RedoEdit(s, c, failing)
  PROVE  /\ CommandKept(s, c, r, n)
         /\ r.c.mUndone = c.mUndone
         /\ Untouched(s) /\ r.c.mHasError => Untouched(r.s)
<1> DEFINE set == IF Recreates(s, c) THEN SetSavepoint(s, c.mSavePointId) ELSE s
           wrong == [c EXCEPT !.mHasError = TRUE]
<1>1. CASE c.mHasError
  <2>1. r.s = s /\ r.c = c
    BY <1>1 DEF RedoEdit
  <2> QED
    BY <2>1 DEF CommandKept
<1>2. CASE ~ c.mHasError
  <2>1. /\ wrong \in Sent /\ wrong.mSavePointId = c.mSavePointId
        /\ wrong.mUndone = c.mUndone
        /\ ~ Inert(c)
    BY <1>2 DEF Sent, Commands, Inert
  <2>2. Sound(set) /\ NamesBelow(set, n) /\ (Untouched(s) => Untouched(set))
    <3>1. CASE Recreates(s, c)
      <4>1. c.mSavePointId \in Names /\ ~ HasSavepoint(s, c.mSavePointId)
        BY <1>2, <3>1, SentParts DEF Recreates
      <4> QED
        BY <4>1, <3>1, SetSavepointSound
    <3>2. CASE ~ Recreates(s, c)
      BY <3>2
    <3> QED
      BY <3>1, <3>2
  <2> HIDE DEF set, wrong
  <2>3. CASE Recreates(s, c) /\ Refused(s, failing, "savepoint")
    <3>1. r.s = Abort(s) /\ r.c = wrong
      BY <1>2, <2>3 DEF RedoEdit, wrong
    <3> QED
      BY <3>1, <2>1, AbortKeeps DEF CommandKept, Keeps
  <2>4. CASE /\ ~ (Recreates(s, c) /\ Refused(s, failing, "savepoint"))
             /\ Refused(s, failing, "statement")
    <3>1. /\ r.s = (IF c.edit.kind \in SchemaKinds THEN loadFields(set, c.edit.layer) ELSE set)
          /\ r.c = wrong
      BY <1>2, <2>4 DEF RedoEdit, wrong, set
    <3>2. /\ Sound(loadFields(set, c.edit.layer)) /\ NamesBelow(loadFields(set, c.edit.layer), n)
          /\ Untouched(set) => Untouched(loadFields(set, c.edit.layer))
      BY <2>2, LoadFieldsKeeps DEF Keeps
    <3> QED
      BY <3>1, <3>2, <2>1, <2>2 DEF CommandKept
  <2>5. CASE /\ ~ (Recreates(s, c) /\ Refused(s, failing, "savepoint"))
             /\ ~ Refused(s, failing, "statement")
    <3>1. r.s = Apply(set, c.edit) /\ r.c = c
      BY <1>2, <2>5 DEF RedoEdit, set
    <3>2. c.edit \in Edits
      BY SentParts
    <3>3. Sound(Apply(set, c.edit)) /\ NamesBelow(Apply(set, c.edit), n)
      BY <2>2, <3>2, ApplySound
    <3> QED
      BY <3>1, <3>3, <2>1, <1>2 DEF CommandKept
  <2> QED
    BY <2>3, <2>4, <2>5
<1> QED
  BY <1>1, <1>2

\* redo() of SQL, on a savepoint that may be new.
LEMMA RedoSqlKept ==
  ASSUME NEW s, Sound(s), NEW c \in Sent, NEW failing,
         NEW name \in Names, NamesBelow(s, name), c.mSavePointId < name,
         NEW n \in Nat, n > name,
         NEW r, r = RedoSql(s, c, name, failing)
  PROVE  CommandKept(s, c, r, n)
<1> DEFINE given == createSavepoint(s, name, failing)
           kept == IF c.mHasError THEN c
                   ELSE [c EXCEPT !.mSavePointId = Last(given.tr.mSavepoints)]
           wrong == [c EXCEPT !.mHasError = TRUE]
<1>1. NamesBelow(s, n) /\ c.mSavePointId < n
  <2>1. s.tr.mSavepoints \in Seq(Names) /\ c.mSavePointId \in Nat
    BY SessionParts, SentParts DEF Sound
  <2> QED
    BY <2>1 DEF NamesBelow, Names
<1>2. /\ Sound(given) /\ NamesBelow(given, n)
      /\ SavepointGiven(s, failing) => given.tr.mSavepoints # <<>>
  BY <1>1, CreateSavepointSound
<1> HIDE DEF given
<1>3. CASE ~ c.mUndone
  <2>1. r.s = s /\ r.c = c
    BY <1>3 DEF RedoSql
  <2> QED
    BY <2>1, <1>1 DEF CommandKept
<1>4. CASE c.mUndone /\ ~ SavepointGiven(s, failing)
  <2>1. r.s = given /\ r.c = wrong
    BY <1>4 DEF RedoSql, given
  <2>2. wrong \in Sent /\ wrong.mSavePointId = c.mSavePointId
    BY DEF Sent, Commands
  <2> QED
    BY <2>1, <2>2, <1>1, <1>2, <1>4 DEF CommandKept, Inert
<1>5. CASE c.mUndone /\ SavepointGiven(s, failing)
  <2>1. /\ Last(given.tr.mSavepoints) \in Names
        /\ Last(given.tr.mSavepoints) < n
    <3>1. given.tr.mSavepoints \in Seq(Names)
      BY <1>2, SessionParts DEF Sound
    <3>2. Len(given.tr.mSavepoints) \in DOMAIN given.tr.mSavepoints
      BY <3>1, <1>2, <1>5
    <3> QED
      BY <3>1, <3>2, <1>2 DEF Last, NamesBelow
  <2>2. kept \in Sent /\ kept.mSavePointId < n
    <3>1. CASE c.mHasError
      BY <3>1, <1>1
    <3>2. CASE ~ c.mHasError
      <4> DEFINE l == Last(given.tr.mSavepoints)
      <4>1. l \in Names
        BY <2>1
      <4> HIDE DEF l
      <4>2. [c EXCEPT !.mSavePointId = l] \in Sent /\ [c EXCEPT !.mSavePointId = l].mSavePointId = l
        BY <4>1 DEF Sent, Commands, Names
      <4> QED
        BY <4>2, <3>2, <2>1 DEF l
    <3> QED
      BY <3>1, <3>2
  <2> HIDE DEF kept
  <2>3. CASE Refused(given, failing, "statement")
    <3>1. r.s = Abort(given) /\ r.c = [kept EXCEPT !.mHasError = TRUE]
      BY <1>5, <2>3 DEF RedoSql, given, kept
    <3>2. /\ [kept EXCEPT !.mHasError = TRUE] \in Sent
          /\ [kept EXCEPT !.mHasError = TRUE].mSavePointId = kept.mSavePointId
      BY <2>2 DEF Sent, Commands
    <3> QED
      BY <3>1, <3>2, <2>2, <1>2, <1>5, AbortKeeps DEF CommandKept, Keeps, Inert
  <2>4. CASE ~ Refused(given, failing, "statement")
    <3> DEFINE t == given.db.table \cup {c.edit}
    <3>1. t \in SUBSET Edits
      BY <1>2, SessionParts, SentParts DEF Sound
    <3>2. r.s = WithTable(given, t) /\ r.c = [kept EXCEPT !.mUndone = FALSE]
      <4>1. [given EXCEPT !.db.table = @ \cup {c.edit}] = WithTable(given, t)
        BY <1>2, SessionParts DEF Sound, Sessions, WithTable
      <4> QED
        BY <1>5, <2>4, <4>1 DEF RedoSql, given, kept
    <3> HIDE DEF t
    <3>3. Sound(r.s) /\ NamesBelow(r.s, n)
      <4>1. Sound(WithTable(given, t)) /\ NamesBelow(WithTable(given, t), n)
        BY <1>1, <1>2, <3>1, TableKeeps
      <4> QED
        BY <4>1, <3>2
    <3>4. /\ [kept EXCEPT !.mUndone = FALSE] \in Sent
          /\ [kept EXCEPT !.mUndone = FALSE].mSavePointId = kept.mSavePointId
      BY <2>2 DEF Sent, Commands
    <3> QED
      BY <3>2, <3>3, <3>4, <2>2, <1>5 DEF CommandKept, Inert
  <2> QED
    BY <2>3, <2>4
<1> QED
  BY <1>3, <1>4, <1>5

\* redo() of any command.
LEMMA RedoCommandKept ==
  ASSUME NEW s, Sound(s), NEW c \in Sent, NEW failing,
         NEW name \in Names, NamesBelow(s, name), c.mSavePointId < name,
         NEW r, r = RedoCommand(s, c, name, failing)
  PROVE  CommandKept(s, c, r, name + 1)
<1>1. name + 1 \in Nat /\ name + 1 > name
  BY DEF Names
<1>2. NamesBelow(s, name + 1) /\ c.mSavePointId < name + 1
  <2>1. s.tr.mSavepoints \in Seq(Names) /\ c.mSavePointId \in Nat
    BY SessionParts, SentParts DEF Sound
  <2> QED
    BY <2>1 DEF NamesBelow, Names
<1> QED
  BY <1>1, <1>2, RedoSqlKept, RedoEditKept DEF RedoCommand

-----------------------------------------------------------------------------
(***************************************************************************)
(* Entries of the undo stack                                               *)
(***************************************************************************)

\* The savepoints of the commands were given before n.
IdsBelow(entry, n) == \A i \in DOMAIN entry : entry[i].mSavePointId < n

\* No command of an entry has done anything, nor would when redone.
AllInert(entry) == \A i \in DOMAIN entry : Inert(entry[i])

\* What undo and redo of an entry, in the session s, keep.
EntryKept(s, entry, r, n) ==
  /\ Sound(r.s) /\ NamesBelow(r.s, n)
  /\ r.entry \in Seq(Sent) /\ Len(r.entry) = Len(entry) /\ IdsBelow(r.entry, n)
  /\ Untouched(s) /\ AllInert(entry) => Untouched(r.s) /\ AllInert(r.entry)

\* A command of an entry is undone or redone, after others of it.
LEMMA EntryChanged ==
  ASSUME NEW s, NEW entry \in Seq(Sent), NEW i \in DOMAIN entry, NEW n \in Nat,
         NEW x, EntryKept(s, entry, x, n),
         NEW q, NEW r, r.s = q.s, r.entry = [x.entry EXCEPT ![i] = q.c],
         CommandKept(x.s, entry[i], q, n)
  PROVE  EntryKept(s, entry, r, n)
<1>1. /\ x.entry \in Seq(Sent) /\ Len(x.entry) = Len(entry)
      /\ DOMAIN x.entry = DOMAIN entry /\ q.c \in Sent
  BY DEF EntryKept, CommandKept
<1>2. /\ r.entry \in Seq(Sent) /\ Len(r.entry) = Len(entry)
      /\ DOMAIN r.entry = DOMAIN entry
      /\ \A j \in DOMAIN entry : r.entry[j] = IF j = i THEN q.c ELSE x.entry[j]
  BY <1>1
<1>3. Sound(r.s) /\ NamesBelow(r.s, n) /\ IdsBelow(r.entry, n)
  BY <1>1, <1>2 DEF EntryKept, CommandKept, IdsBelow
<1>4. ASSUME Untouched(s), AllInert(entry) PROVE Untouched(r.s) /\ AllInert(r.entry)
  BY <1>1, <1>2, <1>4 DEF EntryKept, CommandKept, AllInert
<1> QED
  BY <1>2, <1>3, <1>4 DEF EntryKept

\* One command after the other is undone, from the last to the first.
UndoStep(entry, at, failing, x, n) ==
  LET i == Len(entry) + 1 - n
      r == UndoCommand(x.s, entry[i], InEntry(entry, at, failing, i))
  IN [s |-> r.s, entry |-> [x.entry EXCEPT ![i] = r.c]]

\* The whole entry is undone.
LEMMA UndoEntryKept ==
  ASSUME NEW s, Sound(s), NEW entry \in Seq(Sent), NEW at, NEW failing,
         NEW n \in Nat, NamesBelow(s, n), IdsBelow(entry, n)
  PROVE  EntryKept(s, entry, UndoEntry(s, entry, at, failing), n)
<1> DEFINE N == Len(entry)
           c == [s |-> s, entry |-> entry]
           T == {x \in [s : Sessions, entry : Seq(Sent)] : EntryKept(s, entry, x, n)}
           step == [p \in T \X (1 .. N) |-> UndoStep(entry, at, failing, p[1], p[2])]
           undone[k \in 0 .. Len(entry)] ==
             IF k = 0 THEN [s |-> s, entry |-> entry]
             ELSE LET i == Len(entry) + 1 - k
                      r == UndoCommand(undone[k - 1].s, entry[i], InEntry(entry, at, failing, i))
                  IN [s |-> r.s, entry |-> [undone[k - 1].entry EXCEPT ![i] = r.c]]
<1>1. N \in Nat /\ c \in T
  BY DEF EntryKept, Sound
<1>2. ASSUME NEW x \in T, NEW k \in 1 .. N
      PROVE  UndoStep(entry, at, failing, x, k) \in T
  <2> DEFINE i == Len(entry) + 1 - k
             q == UndoCommand(x.s, entry[i], InEntry(entry, at, failing, i))
             r == UndoStep(entry, at, failing, x, k)
  <2>1. i \in DOMAIN entry /\ entry[i] \in Sent /\ entry[i].mSavePointId < n
    BY DEF IdsBelow
  <2>2. EntryKept(s, entry, x, n) /\ Sound(x.s) /\ NamesBelow(x.s, n) /\ x.entry \in Seq(Sent)
    BY DEF EntryKept
  <2>3. CommandKept(x.s, entry[i], q, n)
    <3> HIDE DEF i
    <3> QED
      BY <2>1, <2>2, UndoCommandKept
  <2>4. r.s = q.s /\ r.entry = [x.entry EXCEPT ![i] = q.c]
    BY DEF UndoStep
  <2>5. EntryKept(s, entry, r, n)
    <3> HIDE DEF i, q, r, T
    <3> QED
      BY <2>1, <2>2, <2>3, <2>4, EntryChanged
  <2>6. r \in [s : Sessions, entry : Seq(Sent)]
    <3>1. r = [s |-> r.s, entry |-> r.entry]
      BY DEF UndoStep
    <3> HIDE DEF r
    <3> QED
      BY <2>5, <3>1 DEF EntryKept, Sound
  <2> QED
    BY <2>5, <2>6
<1>3. PICK g \in [0 .. N -> T] : Follows(g, N, c, step)
  <2>1. step \in [T \X (1 .. N) -> T]
    BY <1>2
  <2> HIDE DEF step, T, N, c
  <2> QED
    BY <1>1, <2>1, RecursionExists
<1>4. g = [k \in 0 .. Len(entry) |->
             IF k = 0 THEN [s |-> s, entry |-> entry]
             ELSE LET i == Len(entry) + 1 - k
                      r == UndoCommand(g[k - 1].s, entry[i], InEntry(entry, at, failing, i))
                  IN [s |-> r.s, entry |-> [g[k - 1].entry EXCEPT ![i] = r.c]]]
  <2> DEFINE h == [k \in 0 .. Len(entry) |->
             IF k = 0 THEN [s |-> s, entry |-> entry]
             ELSE LET i == Len(entry) + 1 - k
                      r == UndoCommand(g[k - 1].s, entry[i], InEntry(entry, at, failing, i))
                  IN [s |-> r.s, entry |-> [g[k - 1].entry EXCEPT ![i] = r.c]]]
  <2>1. h = [k \in 0 .. N |-> h[k]] /\ h[0] = c
    OBVIOUS
  <2>2. ASSUME NEW k \in 1 .. N PROVE h[k] = step[<<g[k - 1], k>>]
    <3>1. h[k] = UndoStep(entry, at, failing, g[k - 1], k)
      BY DEF UndoStep
    <3>2. <<g[k - 1], k>> \in T \X (1 .. N)
      <4> HIDE DEF T
      <4>1. g[k - 1] \in T
        BY SMTT(30)
      <4> QED
        BY <4>1
    <3>3. step[<<g[k - 1], k>>] = UndoStep(entry, at, failing, g[k - 1], k)
      <4> HIDE DEF T, h
      <4> QED BY <3>2
    <3> QED
      BY <3>1, <3>3
  <2>3. ASSUME NEW k \in 0 .. N PROVE g[k] = h[k]
    <3> HIDE DEF h, step, T, c
    <3>1. CASE k = 0
      BY <3>1, <1>3, <2>1 DEF Follows
    <3>2. CASE k # 0
      <4>1. k \in 1 .. N
        BY <3>2
      <4>2. g[k] = step[<<g[k - 1], k>>]
        BY <4>1, <1>3 DEF Follows
      <4> QED
        BY <4>1, <4>2, <2>2
    <3> QED
      BY <3>1, <3>2
  <2>4. g = [k \in 0 .. N |-> g[k]]
    OBVIOUS
  <2> HIDE DEF h, step, T, N, c
  <2>5. g = h
    BY <2>1, <2>3, <2>4
  <2> QED
    BY <2>5 DEF h
<1>5. undone = [k \in 0 .. Len(entry) |->
             IF k = 0 THEN [s |-> s, entry |-> entry]
             ELSE LET i == Len(entry) + 1 - k
                      r == UndoCommand(undone[k - 1].s, entry[i], InEntry(entry, at, failing, i))
                  IN [s |-> r.s, entry |-> [undone[k - 1].entry EXCEPT ![i] = r.c]]]
  BY <1>4, Zenon
<1>6. UndoEntry(s, entry, at, failing) = undone[Len(entry)]
  BY DEF UndoEntry
<1>7. /\ undone[0] = c
      /\ \A k \in 1 .. N : undone[k] = UndoStep(entry, at, failing, undone[k - 1], k)
  <2> HIDE DEF undone
  <2>1. undone[0] = c
    BY <1>1, <1>5
  <2>2. ASSUME NEW k \in 1 .. N
        PROVE  undone[k] = UndoStep(entry, at, failing, undone[k - 1], k)
    <3>1. k \in 0 .. Len(entry) /\ k # 0
      OBVIOUS
    <3> QED
      BY <3>1, <1>5, Zenon DEF UndoStep
  <2> QED
    BY <2>1, <2>2
<1> HIDE DEF undone, T, c
<1> DEFINE I == {k \in Nat : k <= N => undone[k] \in T}
<1>8. 0 \in I
  BY <1>1, <1>7
<1>9. ASSUME NEW k \in I PROVE k + 1 \in I
  <2> SUFFICES ASSUME k + 1 <= N PROVE undone[k + 1] \in T
    BY <1>9
  <2>1. k + 1 \in 1 .. N /\ undone[k] \in T /\ (k + 1) - 1 = k
    BY <1>9
  <2>2. undone[k + 1] = UndoStep(entry, at, failing, undone[k], k + 1)
    BY <1>7, <2>1
  <2> QED
    BY <1>2, <2>1, <2>2
<1>10. N \in I
  <2>1. I \in SUBSET Nat
    OBVIOUS
  <2> HIDE DEF I
  <2> QED
    BY <1>1, <1>8, <1>9, <2>1, SetInduction
<1> QED
  BY <1>1, <1>6, <1>10 DEF T

\* One command after the other is redone, each with a name of its own for the
\* savepoint it may create.
RedoStep(entry, name, at, failing, x, i) ==
  LET before == x.s
      r == RedoCommand(before, entry[i], name + i - 1, InEntry(entry, at, failing, i))
      given == [before EXCEPT !.db.savepoints = r.s.db.savepoints]
  IN [s |-> r.s, entry |-> [x.entry EXCEPT ![i] = r.c],
      stale |-> \/ x.stale
                \/ /\ entry[i].mUndone
                   /\ ~r.c.mHasError
                   /\ ~IsPresent(given, r.c.mSavePointId)]

\* Later names are greater.
LEMMA EntryKeptLater ==
  ASSUME NEW s, NEW entry \in Seq(Sent), NEW x, NEW n \in Nat, NEW m \in Nat, n <= m,
         EntryKept(s, entry, x, n)
  PROVE  EntryKept(s, entry, x, m)
<1>1. /\ x.s.tr.mSavepoints \in Seq(Names)
      /\ x.entry \in Seq(Sent)
  BY SessionParts DEF EntryKept, Sound
<1>2. NamesBelow(x.s, m)
  <2>1. \A i \in DOMAIN x.s.tr.mSavepoints : x.s.tr.mSavepoints[i] \in Nat
    BY <1>1 DEF Names
  <2> QED
    BY <2>1 DEF EntryKept, NamesBelow
<1>3. IdsBelow(x.entry, m)
  <2>1. \A i \in DOMAIN x.entry : x.entry[i].mSavePointId \in Nat
    BY <1>1, SentParts
  <2> QED
    BY <2>1 DEF EntryKept, IdsBelow
<1> QED
  BY <1>2, <1>3 DEF EntryKept

\* The whole entry is redone.
LEMMA RedoEntryKept ==
  ASSUME NEW s, Sound(s), NEW entry \in Seq(Sent), NEW at, NEW failing,
         NEW name \in Names, NamesBelow(s, name), IdsBelow(entry, name)
  PROVE  /\ EntryKept(s, entry, RedoEntry(s, entry, name, at, failing), name + Len(entry))
         /\ RedoEntry(s, entry, name, at, failing).stale \in BOOLEAN
<1> DEFINE N == Len(entry)
           c == [s |-> s, entry |-> entry, stale |-> FALSE]
           T == [s : Sessions, entry : Seq(Sent), stale : BOOLEAN]
           Good(x, k) == EntryKept(s, entry, x, name + k)
           Next1(x, k) == RedoStep(entry, name, at, failing, x, k)
           step == [p \in T \X (1 .. N) |-> IF Good(p[1], p[2] - 1) THEN Next1(p[1], p[2]) ELSE p[1]]
           redone[i \in 0 .. Len(entry)] ==
             IF i = 0 THEN [s |-> s, entry |-> entry, stale |-> FALSE]
             ELSE LET before == redone[i - 1].s
                      r == RedoCommand(before, entry[i], name + i - 1,
                                       InEntry(entry, at, failing, i))
                      given == [before EXCEPT !.db.savepoints = r.s.db.savepoints]
                  IN [s |-> r.s, entry |-> [redone[i - 1].entry EXCEPT ![i] = r.c],
                      stale |-> \/ redone[i - 1].stale
                                \/ /\ entry[i].mUndone
                                   /\ ~r.c.mHasError
                                   /\ ~IsPresent(given, r.c.mSavePointId)]
<1>1. /\ N \in Nat /\ c \in T /\ Good(c, 0)
      /\ \A k \in 0 .. N : name + k \in Names /\ name + k \in Nat
  BY DEF EntryKept, Sound, Names
<1>2. ASSUME NEW x \in T, NEW k \in 1 .. N, Good(x, k - 1)
      PROVE  Next1(x, k) \in T /\ Good(Next1(x, k), k)
  <2> DEFINE given == name + k - 1
             q == RedoCommand(x.s, entry[k], given, InEntry(entry, at, failing, k))
             r == Next1(x, k)
  <2>1. /\ k \in DOMAIN entry /\ entry[k] \in Sent
        /\ given \in Names /\ given = name + (k - 1) /\ given + 1 = name + k
        /\ given \in Nat /\ given + 1 \in Nat /\ given <= given + 1
        /\ entry[k].mSavePointId < given
    <3>1. entry[k] \in Sent /\ k \in DOMAIN entry /\ name \in Nat /\ name # 0
      BY DEF Names
    <3>2. entry[k].mSavePointId \in Nat /\ entry[k].mSavePointId < name
      BY <3>1, SentParts DEF IdsBelow
    <3> QED
      BY <3>1, <3>2 DEF Names
  <2>2. /\ EntryKept(s, entry, x, given) /\ Sound(x.s) /\ NamesBelow(x.s, given)
        /\ x.entry \in Seq(Sent)
    BY <1>2, <2>1 DEF EntryKept
  <2>3. r.s = q.s /\ r.entry = [x.entry EXCEPT ![k] = q.c]
    BY DEF RedoStep
  <2>4. r.stale \in BOOLEAN /\ r = [s |-> r.s, entry |-> r.entry, stale |-> r.stale]
    BY DEF RedoStep
  <2> HIDE DEF given
  <2>5. CommandKept(x.s, entry[k], q, given + 1)
    BY <2>1, <2>2, RedoCommandKept
  <2> HIDE DEF q, Next1
  <2>6. EntryKept(s, entry, x, given + 1)
    BY <2>1, <2>2, EntryKeptLater
  <2>7. EntryKept(s, entry, r, given + 1)
    BY <2>1, <2>3, <2>5, <2>6, EntryChanged
  <2>8. r \in T
    <3>1. r.s \in Sessions /\ r.entry \in Seq(Sent)
      BY <2>7 DEF EntryKept, Sound
    <3> QED
      BY <3>1, <2>4
  <2> QED
    BY <2>1, <2>7, <2>8
<1>3. PICK g \in [0 .. N -> T] : Follows(g, N, c, step)
  <2>1. step \in [T \X (1 .. N) -> T]
    <3> HIDE DEF T, Good, Next1
    <3> QED
      BY <1>2
  <2> HIDE DEF step, T, N, c
  <2> QED
    BY <1>1, <2>1, RecursionExists
<1> DEFINE H(f) == [i \in 0 .. Len(entry) |->
             IF i = 0 THEN [s |-> s, entry |-> entry, stale |-> FALSE]
             ELSE LET before == f[i - 1].s
                      r == RedoCommand(before, entry[i], name + i - 1,
                                       InEntry(entry, at, failing, i))
                      given == [before EXCEPT !.db.savepoints = r.s.db.savepoints]
                  IN [s |-> r.s, entry |-> [f[i - 1].entry EXCEPT ![i] = r.c],
                      stale |-> \/ f[i - 1].stale
                                \/ /\ entry[i].mUndone
                                   /\ ~r.c.mHasError
                                   /\ ~IsPresent(given, r.c.mSavePointId)]]
<1>4. ASSUME NEW f
      PROVE  /\ H(f) = [i \in 0 .. N |-> H(f)[i]]
             /\ H(f)[0] = c
             /\ \A i \in 1 .. N : H(f)[i] = Next1(f[i - 1], i)
  <2>1. H(f) = [i \in 0 .. N |-> H(f)[i]] /\ H(f)[0] = c
    OBVIOUS
  <2>2. ASSUME NEW i \in 1 .. N PROVE H(f)[i] = Next1(f[i - 1], i)
    <3>1. i \in 0 .. Len(entry) /\ i # 0
      OBVIOUS
    <3> QED
      BY <3>1, Zenon DEF RedoStep
  <2> QED
    BY <2>1, <2>2
<1> HIDE DEF H, Next1, T, c
\* Both the function that exists and the one that is defined stay good.
<1>5. ASSUME NEW f, f[0] = c,
             \A i \in 1 .. N : Good(f[i - 1], i - 1) => f[i] = Next1(f[i - 1], i)
      PROVE  \A i \in 0 .. N : f[i] \in T /\ Good(f[i], i)
  <2> DEFINE I == {k \in Nat : k <= N => f[k] \in T /\ Good(f[k], k)}
  <2> HIDE DEF Good
  <2>1. 0 \in I
    BY <1>1, <1>5
  <2>2. ASSUME NEW k \in I PROVE k + 1 \in I
    <3> SUFFICES ASSUME k + 1 <= N PROVE f[k + 1] \in T /\ Good(f[k + 1], k + 1)
      BY <2>2
    <3>1. k + 1 \in 1 .. N /\ f[k] \in T /\ Good(f[k], k) /\ (k + 1) - 1 = k
      BY <2>2
    <3>2. f[k + 1] = Next1(f[k], k + 1)
      BY <1>5, <3>1
    <3> QED
      BY <1>2, <3>1, <3>2
  <2>3. I = Nat
    <3>1. I \in SUBSET Nat
      OBVIOUS
    <3> HIDE DEF I
    <3> QED
      BY <2>1, <2>2, <3>1, SetInduction
  <2> QED
    BY <2>3
<1>6. \A i \in 0 .. N : g[i] \in T /\ Good(g[i], i)
  <2>1. g[0] = c
    BY <1>3 DEF Follows
  <2>2. ASSUME NEW i \in 1 .. N, Good(g[i - 1], i - 1) PROVE g[i] = Next1(g[i - 1], i)
    <3>1. g[i] = step[<<g[i - 1], i>>]
      BY <1>3 DEF Follows
    <3>2. g[i - 1] \in T
      BY <1>3
    <3> QED
      BY <3>1, <3>2, <2>2
  <2> HIDE DEF step, Good
  <2> QED
    BY <2>1, <2>2, <1>5
<1>7. g = H(g)
  <2>1. ASSUME NEW i \in 0 .. N PROVE g[i] = H(g)[i]
    <3>1. CASE i = 0
      BY <3>1, <1>3, <1>4 DEF Follows
    <3>2. CASE i # 0
      <4>1. i \in 1 .. N /\ i - 1 \in 0 .. N
        BY <3>2
      <4>2. g[i] = step[<<g[i - 1], i>>]
        BY <4>1, <1>3 DEF Follows
      <4>3. g[i - 1] \in T /\ Good(g[i - 1], i - 1)
        BY <4>1, <1>6
      <4>4. g[i] = Next1(g[i - 1], i)
        BY <4>1, <4>2, <4>3
      <4> QED
        BY <4>1, <4>4, <1>4
    <3> QED
      BY <3>1, <3>2
  <2>2. g = [i \in 0 .. N |-> g[i]]
    BY <1>3
  <2> QED
    BY <2>1, <2>2, <1>4
<1>8. redone = H(redone)
  BY <1>7, Zenon DEF H
<1>9. RedoEntry(s, entry, name, at, failing) = redone[Len(entry)]
  BY DEF RedoEntry
<1>10. redone[0] = c /\ \A i \in 1 .. N : redone[i] = Next1(redone[i - 1], i)
  <2> HIDE DEF redone
  <2> QED
    BY <1>8, <1>4
<1> HIDE DEF redone
<1>11. \A i \in 0 .. N : redone[i] \in T /\ Good(redone[i], i)
  <2> HIDE DEF Good
  <2> QED
    BY <1>10, <1>5
<1>12. N \in 0 .. N
  OBVIOUS
<1> QED
  BY <1>9, <1>11, <1>12 DEF T

-----------------------------------------------------------------------------
(***************************************************************************)
(* The invariant                                                           *)
(***************************************************************************)

\* The state has its shape, with functions where TypeOK speaks of values.
Shape ==
  /\ db \in Databases /\ tr \in Transactions /\ fields \in Fields
  /\ undoStack \in [Layers -> Seq(Seq(Sent))]
  /\ undoIndex \in [Layers -> Nat]
  /\ macro \in [Layers -> Seq(Sent)]
  /\ mEditCommandActive \in [Layers -> BOOLEAN]
  /\ mModified \in [Layers -> BOOLEAN]
  /\ \A l \in Layers :
       /\ undoIndex[l] <= Len(undoStack[l])
       /\ macro[l] # <<>> => mEditCommandActive[l]
  /\ edits \in 0 .. MaxEdits /\ failures \in 0 .. MaxFailures
  /\ misled \in BOOLEAN /\ failed \in BOOLEAN

\* As long as no layer is modified, nothing was done that could be undone or
\* redone.
Unmodified ==
  (\A l \in Layers : ~ mModified[l]) =>
    /\ Untouched(session)
    /\ \A l \in Layers :
         /\ AllInert(macro[l])
         /\ \A i \in DOMAIN undoStack[l] : AllInert(undoStack[l][i])

\* The invariant.
IInv == Shape /\ Sound(session) /\ Unmodified

USE LayersAssumption, KindsAssumption, BoundsAssumption

\* The name of a new savepoint is greater than those in the list and those that
\* commands have.
LEMMA FreshNameIs ==
  ASSUME Shape, Sound(session)
  PROVE  /\ FreshName \in Names
         /\ NamesBelow(session, FreshName)
         /\ \A l \in Layers :
              /\ IdsBelow(macro[l], FreshName)
              /\ \A i \in DOMAIN undoStack[l] : IdsBelow(undoStack[l][i], FreshName)
<1> DEFINE given == {db.savepoints[i].name : i \in DOMAIN db.savepoints}
           entries == UNION {ToSet(Entries(l)) : l \in Layers}
           commands == UNION {ToSet(entry) : entry \in entries}
           ids == {c.mSavePointId : c \in commands}
           used == given \cup ids
<1>1. IsFiniteSet(given) /\ given \subseteq Nat
  <2> DEFINE f == [i \in DOMAIN db.savepoints |-> db.savepoints[i].name]
  <2>1. db.savepoints \in Seq(Savepoints)
    BY DEF Shape, Databases
  <2>2. \A i \in DOMAIN db.savepoints : db.savepoints[i].name \in Nat
    <3>1. \A i \in DOMAIN db.savepoints : db.savepoints[i] \in Savepoints
      BY <2>1
    <3> QED
      BY <3>1 DEF Savepoints, Names
  <2>3. IsFiniteSet(DOMAIN db.savepoints)
    <3>1. DOMAIN db.savepoints = 1 .. Len(db.savepoints) /\ Len(db.savepoints) \in Int
      BY <2>1
    <3>2. IsFiniteSet(1 .. Len(db.savepoints))
      <4> DEFINE n == Len(db.savepoints)
      <4>1. n \in Int /\ 1 \in Int
        BY <3>1
      <4> HIDE DEF n
      <4>2. IsFiniteSet(1 .. n)
        BY <4>1, FS_Interval
      <4> QED
        BY <4>2 DEF n
    <3> QED
      BY <3>1, <3>2, Zenon
  <2>4. f = [i \in DOMAIN db.savepoints |-> f[i]] /\ given = {f[i] : i \in DOMAIN db.savepoints}
    OBVIOUS
  <2> HIDE DEF f, given
  <2>5. IsFiniteSet(given)
    BY <2>3, <2>4, ImageFinite
  <2> QED
    BY <2>2, <2>5 DEF given
<1>2. \A l \in Layers : Entries(l) \in Seq(Seq(Sent))
  BY DEF Shape, Entries
<1>3. IsFiniteSet(entries) /\ entries \subseteq Seq(Sent)
  <2> DEFINE f == [l \in Layers |-> ToSet(Entries(l))]
  <2>1. \A l \in Layers : IsFiniteSet(f[l]) /\ f[l] \subseteq Seq(Sent)
    BY <1>2, ToSetFinite
  <2>2. f = [l \in Layers |-> f[l]] /\ entries = UNION {f[l] : l \in Layers}
    OBVIOUS
  <2> HIDE DEF f, entries
  <2>3. IsFiniteSet({f[l] : l \in Layers})
    BY <2>2, ImageFinite
  <2>4. IsFiniteSet(UNION {f[l] : l \in Layers})
    BY <2>1, <2>3, FS_UNION
  <2> QED
    BY <2>1, <2>2, <2>4
<1>4. IsFiniteSet(commands) /\ commands \subseteq Sent
  <2> HIDE DEF entries
  <2> DEFINE f == [entry \in entries |-> ToSet(entry)]
  <2>1. \A entry \in entries : IsFiniteSet(f[entry]) /\ f[entry] \subseteq Sent
    BY <1>3, ToSetFinite
  <2>2. f = [entry \in entries |-> f[entry]] /\ commands = UNION {f[entry] : entry \in entries}
    OBVIOUS
  <2> HIDE DEF f, commands
  <2>3. IsFiniteSet({f[entry] : entry \in entries})
    BY <1>3, <2>2, ImageFinite
  <2>4. IsFiniteSet(UNION {f[entry] : entry \in entries})
    BY <2>1, <2>3, FS_UNION
  <2> QED
    BY <2>1, <2>2, <2>4
<1>5. IsFiniteSet(ids) /\ ids \subseteq Nat
  <2> HIDE DEF commands
  <2> DEFINE f == [c \in commands |-> c.mSavePointId]
  <2>1. f = [c \in commands |-> f[c]] /\ ids = {f[c] : c \in commands}
    OBVIOUS
  <2>2. ids \subseteq Nat
    BY <1>4, SentParts
  <2> HIDE DEF f, ids
  <2>3. IsFiniteSet(ids)
    BY <1>4, <2>1, ImageFinite
  <2> QED
    BY <2>2, <2>3
<1>6. FreshName = Max(used \cup {0}) + 1
  BY DEF FreshName
<1> HIDE DEF given, ids
<1>7. used \cup {0} \in SUBSET Nat /\ IsFiniteSet(used \cup {0}) /\ used \cup {0} # {}
  <2>1. IsFiniteSet(used)
    BY <1>1, <1>5, FS_Union
  <2>2. IsFiniteSet(used \cup {0})
    <3> HIDE DEF used
    <3> QED
      BY <2>1, FS_AddElement
  <2>3. used \subseteq Nat
    BY <1>1, <1>5
  <2> QED
    BY <2>2, <2>3
<1>8. Max(used \cup {0}) \in Nat /\ \A y \in used : y <= Max(used \cup {0})
  <2> DEFINE U == used \cup {0}
  <2>1. PICK x \in U : \A y \in U : x >= y
    BY <1>7, GreatestElement
  <2> HIDE DEF U
  <2>2. Max(U) \in U /\ \A y \in U : Max(U) >= y
    BY <2>1, Zenon DEF Max
  <2> QED
    BY <2>2, <1>7 DEF U
<1>9. FreshName \in Names /\ \A y \in used : y < FreshName
  <2> HIDE DEF used
  <2>1. used \subseteq Nat
    BY <1>7
  <2> QED
    BY <1>6, <1>8, <2>1 DEF Names
<1>10. NamesBelow(session, FreshName)
  <2> SUFFICES ASSUME NEW i \in DOMAIN tr.mSavepoints
               PROVE  tr.mSavepoints[i] \in given
    BY <1>9 DEF NamesBelow, session
  <2> DEFINE k == DbIndex(db.savepoints, tr.mSavepoints[i])
  <2>1. k # 0 /\ db.savepoints \in Seq(Savepoints)
    BY DEF Sound, InOrder, session, Shape, Databases
  <2>2. IsLastNamed(db.savepoints, tr.mSavepoints[i], k)
    BY <2>1, DbIndexFinds
  <2> QED
    BY <2>2 DEF IsLastNamed, given
<1>11. ASSUME NEW l \in Layers, NEW entry \in ToSet(Entries(l))
       PROVE  IdsBelow(entry, FreshName)
  <2>1. \A i \in DOMAIN entry : entry[i].mSavePointId \in ids
    BY <1>11 DEF ids, ToSet
  <2> QED
    BY <2>1, <1>9 DEF IdsBelow
<1>12. ASSUME NEW l \in Layers
       PROVE  /\ macro[l] \in ToSet(Entries(l))
              /\ \A i \in DOMAIN undoStack[l] : undoStack[l][i] \in ToSet(Entries(l))
  <2>1. /\ undoStack[l] \in Seq(Seq(Sent))
        /\ Entries(l) = Append(undoStack[l], macro[l])
    BY DEF Shape, Entries
  <2>2. /\ DOMAIN Entries(l) = 1 .. Len(undoStack[l]) + 1
        /\ Entries(l)[Len(undoStack[l]) + 1] = macro[l]
        /\ \A i \in DOMAIN undoStack[l] : Entries(l)[i] = undoStack[l][i]
    BY <2>1
  <2>3. Len(undoStack[l]) + 1 \in DOMAIN Entries(l)
    BY <2>1, <2>2
  <2>4. \A i \in DOMAIN undoStack[l] : i \in DOMAIN Entries(l)
    BY <2>1, <2>2
  <2> HIDE DEF given, ids
  <2>5. macro[l] \in ToSet(Entries(l))
    BY <2>2, <2>3, Zenon DEF ToSet
  <2>6. ASSUME NEW i \in DOMAIN undoStack[l] PROVE undoStack[l][i] \in ToSet(Entries(l))
    <3>1. undoStack[l][i] = Entries(l)[i] /\ i \in DOMAIN Entries(l)
      BY <2>2, <2>4
    <3> QED
      BY <3>1 DEF ToSet
  <2> QED
    BY <2>5, <2>6
<1> QED
  BY <1>9, <1>10, <1>11, <1>12
-----------------------------------------------------------------------------
(***************************************************************************)
(* The operations                                                          *)
(***************************************************************************)

\* What an operation says of the session and of the number of failures.
LEMMA SessionSet ==
  ASSUME Shape, NEW s, Sound(s), SetSession(s), NEW failing \in Failing, Fails(failing)
  PROVE  /\ session' = s /\ Sound(session')
         /\ db' \in Databases /\ tr' \in Transactions /\ fields' \in Fields
         /\ failures' \in 0 .. MaxFailures
<1>1. s \in Sessions
  BY DEF Sound
<1>2. s = [db |-> s.db, tr |-> s.tr, fields |-> s.fields]
  BY <1>1 DEF Sessions
<1>3. session' = s
  BY <1>2 DEF SetSession, session
<1>4. failures' \in 0 .. MaxFailures
  <2>1. failing # "none" => failures < MaxFailures
    BY DEF Failing
  <2>2. failures \in 0 .. MaxFailures /\ MaxFailures \in Nat
    BY DEF Shape
  <2> QED
    BY <2>1, <2>2 DEF Fails
<1> QED
  BY <1>1, <1>3, <1>4, SessionParts DEF SetSession

\* What the operation does to the stacks, to keep their shape.
StacksKept ==
  /\ undoStack' \in [Layers -> Seq(Seq(Sent))]
  /\ undoIndex' \in [Layers -> Nat]
  /\ macro' \in [Layers -> Seq(Sent)]
  /\ mEditCommandActive' \in [Layers -> BOOLEAN]
  /\ mModified' \in [Layers -> BOOLEAN]
  /\ \A l \in Layers :
       /\ undoIndex'[l] <= Len(undoStack'[l])
       /\ macro'[l] # <<>> => mEditCommandActive'[l]

\* All commands of the stacks are inert.
StacksInert(m, u) ==
  \A l \in Layers :
    /\ AllInert(m[l])
    /\ \A i \in DOMAIN u[l] : AllInert(u[l][i])

\* An operation keeps the invariant, if the stacks keep their shape and, as
\* long as no layer is modified, nothing comes into the table or the stacks.
LEMMA IInvKept ==
  ASSUME Shape, Unmodified, NEW s, Sound(s), SetSession(s),
         NEW failing \in Failing, Fails(failing), StacksKept,
         edits' \in 0 .. MaxEdits, misled' \in BOOLEAN, failed' \in BOOLEAN,
         (\A l \in Layers : ~ mModified'[l]) =>
           Untouched(s) /\ StacksInert(macro', undoStack')
  PROVE  IInv'
<1>1. /\ session' = s /\ Sound(session')
      /\ db' \in Databases /\ tr' \in Transactions /\ fields' \in Fields
      /\ failures' \in 0 .. MaxFailures
  BY SessionSet
<1>2. Shape'
  BY <1>1 DEF Shape, StacksKept
<1>3. Unmodified'
  BY <1>1 DEF Unmodified, StacksInert
<1> QED
  BY <1>1, <1>2, <1>3 DEF IInv

\* The stacks of the state.
LEMMA StackParts ==
  ASSUME Shape, NEW l \in Layers
  PROVE  /\ undoStack[l] \in Seq(Seq(Sent)) /\ undoIndex[l] \in Nat
         /\ undoIndex[l] <= Len(undoStack[l])
         /\ macro[l] \in Seq(Sent) /\ mEditCommandActive[l] \in BOOLEAN
         /\ mModified[l] \in BOOLEAN
         /\ Kept(l) \in Seq(Seq(Sent)) /\ Len(Kept(l)) = undoIndex[l]
         /\ \A i \in DOMAIN Kept(l) : i \in DOMAIN undoStack[l] /\ Kept(l)[i] = undoStack[l][i]
<1>1. /\ undoStack[l] \in Seq(Seq(Sent)) /\ undoIndex[l] \in Nat
      /\ undoIndex[l] <= Len(undoStack[l])
      /\ macro[l] \in Seq(Sent) /\ mEditCommandActive[l] \in BOOLEAN
      /\ mModified[l] \in BOOLEAN
  BY DEF Shape
<1> QED
  BY <1>1, PrefixIs, SMTT(30) DEF Kept

\* The session starts with the invariant.
LEMMA InitIInv == Init => IInv
<1> SUFFICES ASSUME Init PROVE IInv
  OBVIOUS
<1>1. <<>> \in Seq(Savepoints) /\ <<>> \in Seq(Names) /\ <<>> \in Seq(Seq(Sent)) /\ <<>> \in Seq(Sent)
  OBVIOUS
<1>2. db \in Databases /\ tr \in Transactions /\ fields \in Fields
  BY <1>1 DEF Init, Databases, Transactions, Fields
<1>3. Shape
  <2>1. Len(<<>>) = 0
    OBVIOUS
  <2>2. 0 \in 0 .. MaxEdits /\ 0 \in 0 .. MaxFailures
    OBVIOUS
  <2>3. \A l \in Layers : undoIndex[l] <= Len(undoStack[l]) /\ macro[l] = <<>>
    BY <2>1 DEF Init
  <2>4. /\ undoStack \in [Layers -> Seq(Seq(Sent))] /\ undoIndex \in [Layers -> Nat]
        /\ macro \in [Layers -> Seq(Sent)]
        /\ mEditCommandActive \in [Layers -> BOOLEAN]
        /\ mModified \in [Layers -> BOOLEAN]
    BY <1>1 DEF Init
  <2>5. /\ edits \in 0 .. MaxEdits /\ failures \in 0 .. MaxFailures
        /\ misled \in BOOLEAN /\ failed \in BOOLEAN
    BY <2>2 DEF Init
  <2> QED
    BY <1>2, <2>3, <2>4, <2>5 DEF Shape
<1>4. Sound(session)
  <2>1. session \in Sessions
    BY <1>2 DEF session, Sessions
  <2>2. InOrder(session.tr.mSavepoints, session.db.savepoints)
    BY DEF Init, session, InOrder
  <2> QED
    BY <2>1, <2>2 DEF Sound
<1>5. Unmodified
  BY DEF Init, Unmodified, Untouched, session, AllInert
<1> QED
  BY <1>3, <1>4, <1>5 DEF IInv
\* The command of a new edit has a savepoint, or an error.
LEMMA ConstructedSent ==
  ASSUME Shape, Sound(session), NEW l \in Layers, NEW e \in Edits, NEW failing,
         NEW new, new = Constructed(session, l, e, failing)
  PROVE  /\ Sound(new.s) /\ NamesBelow(new.s, FreshName + 1)
         /\ Untouched(session) => Untouched(new.s)
         /\ new.c \in Sent /\ new.c.mSavePointId < FreshName + 1
         /\ new.c.mUndone = FALSE
<1> DEFINE inMacro == mEditCommandActive[l] /\ session.tr.mSavepoints # <<>>
           given == IF inMacro THEN session ELSE createSavepoint(session, FreshName, failing)
           hasError == ~ inMacro /\ ~ SavepointGiven(session, failing)
           id == IF hasError THEN 0 ELSE Last(given.tr.mSavepoints)
           recreate == mEditCommandActive[l] => ~ given.tr.mLastSavePointIsDirty
<1>1. /\ FreshName \in Nat /\ FreshName + 1 \in Nat /\ FreshName < FreshName + 1
      /\ FreshName \in Names /\ NamesBelow(session, FreshName)
  BY FreshNameIs DEF Names
<1>2. /\ Sound(given) /\ NamesBelow(given, FreshName + 1)
      /\ Untouched(session) => Untouched(given)
      /\ ~ hasError => given.tr.mSavepoints # <<>>
  <2>1. CASE inMacro
    <3>1. NamesBelow(session, FreshName + 1)
      BY <1>1, SessionParts DEF NamesBelow, Sound, Names
    <3> QED
      BY <2>1, <3>1
  <2>2. CASE ~ inMacro
    <3>1. NamesBelow(session, FreshName + 1)
      BY <1>1, SessionParts DEF NamesBelow, Sound, Names
    <3> HIDE DEF inMacro
    <3> QED
      BY <2>2, <3>1, <1>1, CreateSavepointSound
  <2> QED
    BY <2>1, <2>2
<1> HIDE DEF inMacro, given, hasError
<1>3. id \in Nat /\ (~ hasError => id # 0) /\ id < FreshName + 1
  <2>1. CASE hasError
    BY <2>1, <1>1
  <2>2. CASE ~ hasError
    <3>1. given.tr.mSavepoints \in Seq(Names) /\ given.tr.mSavepoints # <<>>
      BY <2>2, <1>2, SessionParts DEF Sound
    <3>2. /\ Len(given.tr.mSavepoints) \in DOMAIN given.tr.mSavepoints
          /\ id = given.tr.mSavepoints[Len(given.tr.mSavepoints)]
      BY <3>1, <2>2 DEF Last
    <3>3. id \in Names /\ id < FreshName + 1
      BY <3>1, <3>2, <1>2 DEF NamesBelow
    <3> QED
      BY <2>2, <3>3 DEF Names
  <2> QED
    BY <2>1, <2>2
<1>4. hasError \in BOOLEAN /\ recreate \in BOOLEAN
  <2>1. hasError \in BOOLEAN
    BY DEF hasError
  <2>2. recreate \in BOOLEAN
    BY Zenon
  <2> QED
    BY <2>1, <2>2
<1>5. new.s = given /\ new.c = Command(e, id, hasError, recreate)
  BY DEF Constructed, given, hasError, inMacro
<1> HIDE DEF id, recreate
<1>6. /\ Command(e, id, hasError, recreate) \in Sent
      /\ Command(e, id, hasError, recreate).mSavePointId = id
      /\ Command(e, id, hasError, recreate).mUndone = FALSE
  BY <1>3, <1>4 DEF Command, Sent, Commands
<1> QED
  BY <1>2, <1>3, <1>5, <1>6

\* Commands are pushed: every layer that stays unmodified has got none without
\* an error.
LEMMA PushKept ==
  ASSUME Shape, NEW cmds, DOMAIN cmds \subseteq Layers,
         \A l \in DOMAIN cmds : cmds[l] \in Sent /\ ~ cmds[l].mUndone, Push(cmds)
  PROVE  /\ StacksKept
         /\ \A l \in DOMAIN cmds : ~ mModified'[l] => cmds[l].mHasError
         /\ \A l \in Layers : ~ mModified'[l] => ~ mModified[l]
         /\ (\A l \in Layers : ~ mModified'[l]) /\ StacksInert(macro, undoStack) =>
              StacksInert(macro', undoStack')
<1>1. ASSUME NEW l \in Layers
      PROVE  /\ undoStack'[l] \in Seq(Seq(Sent))
             /\ undoIndex'[l] \in Nat /\ undoIndex'[l] <= Len(undoStack'[l])
             /\ macro'[l] \in Seq(Sent)
             /\ macro'[l] # <<>> => mEditCommandActive'[l]
             /\ mModified'[l] \in BOOLEAN
             /\ ~ mModified'[l] => ~ mModified[l]
             /\ l \in DOMAIN cmds /\ ~ mModified'[l] => cmds[l].mHasError
             /\ (l \in DOMAIN cmds => Inert(cmds[l])) /\ AllInert(macro[l])
                  /\ (\A i \in DOMAIN undoStack[l] : AllInert(undoStack[l][i])) =>
                  /\ AllInert(macro'[l])
                  /\ \A i \in DOMAIN undoStack'[l] : AllInert(undoStack'[l][i])
  <2>1. /\ undoStack[l] \in Seq(Seq(Sent)) /\ undoIndex[l] \in Nat
        /\ undoIndex[l] <= Len(undoStack[l])
        /\ macro[l] \in Seq(Sent) /\ mEditCommandActive[l] \in BOOLEAN
        /\ mModified[l] \in BOOLEAN
        /\ Kept(l) \in Seq(Seq(Sent)) /\ Len(Kept(l)) = undoIndex[l]
        /\ \A i \in DOMAIN Kept(l) : i \in DOMAIN undoStack[l] /\ Kept(l)[i] = undoStack[l][i]
    BY StackParts
  <2>2. /\ macro[l] # <<>> => mEditCommandActive[l]
        /\ mEditCommandActive' = mEditCommandActive
    BY DEF Shape, Push
  <2>3. mModified'[l] = (mModified[l] \/ (l \in DOMAIN cmds /\ ~ cmds[l].mHasError))
    BY DEF Push
  <2>4. /\ mModified'[l] \in BOOLEAN
        /\ ~ mModified'[l] => ~ mModified[l]
        /\ l \in DOMAIN cmds /\ ~ mModified'[l] => cmds[l].mHasError
    BY <2>3, <2>1, Zenon
  <2>5. CASE l \in DOMAIN cmds /\ mEditCommandActive[l]
    <3>1. /\ macro'[l] = Append(macro[l], cmds[l]) /\ undoStack'[l] = undoStack[l]
          /\ undoIndex'[l] = undoIndex[l]
      BY <2>5 DEF Push
    <3>2. /\ macro'[l] \in Seq(Sent) /\ Len(macro'[l]) = Len(macro[l]) + 1
          /\ \A i \in DOMAIN macro'[l] :
               macro'[l][i] = IF i = Len(macro[l]) + 1 THEN cmds[l] ELSE macro[l][i]
          /\ \A i \in DOMAIN macro'[l] : i # Len(macro[l]) + 1 => i \in DOMAIN macro[l]
      BY <3>1, <2>1, <2>5, AppendIs, SMTT(30)
    <3>3. Inert(cmds[l]) /\ AllInert(macro[l]) => AllInert(macro'[l])
      BY <3>2 DEF AllInert
    <3> QED
      BY <2>1, <2>2, <2>4, <2>5, <3>1, <3>2, <3>3
  <2>6. CASE l \in DOMAIN cmds /\ ~ mEditCommandActive[l]
    <3>1. /\ macro'[l] = macro[l] /\ undoStack'[l] = Append(Kept(l), <<cmds[l]>>)
          /\ undoIndex'[l] = undoIndex[l] + 1
      BY <2>6 DEF Push
    <3>2. <<cmds[l]>> \in Seq(Sent)
      BY <2>6
    <3>3. /\ undoStack'[l] \in Seq(Seq(Sent)) /\ Len(undoStack'[l]) = undoIndex[l] + 1
          /\ \A i \in DOMAIN undoStack'[l] :
               undoStack'[l][i] = IF i = Len(Kept(l)) + 1 THEN <<cmds[l]>> ELSE Kept(l)[i]
          /\ \A i \in DOMAIN undoStack'[l] : i # Len(Kept(l)) + 1 => i \in DOMAIN Kept(l)
      BY <3>1, <3>2, <2>1, AppendIs
    <3>4. Inert(cmds[l]) => AllInert(<<cmds[l]>>)
      BY DEF AllInert
    <3>5. Inert(cmds[l]) /\ (\A i \in DOMAIN undoStack[l] : AllInert(undoStack[l][i])) =>
            \A i \in DOMAIN undoStack'[l] : AllInert(undoStack'[l][i])
      BY <3>3, <3>4, <2>1
    <3>6. undoIndex'[l] \in Nat /\ undoIndex'[l] <= Len(undoStack'[l])
      BY <2>1, <3>1, <3>3
    <3>7. macro'[l] \in Seq(Sent) /\ (macro'[l] # <<>> => mEditCommandActive'[l])
      BY <2>1, <2>2, <3>1
    <3>8. (l \in DOMAIN cmds => Inert(cmds[l])) /\ AllInert(macro[l])
            /\ (\A i \in DOMAIN undoStack[l] : AllInert(undoStack[l][i])) =>
            /\ AllInert(macro'[l])
            /\ \A i \in DOMAIN undoStack'[l] : AllInert(undoStack'[l][i])
      BY <2>6, <3>1, <3>5
    <3> QED
      BY <2>4, <3>3, <3>6, <3>7, <3>8
  <2>7. CASE l \notin DOMAIN cmds
    <3>1. /\ macro'[l] = macro[l] /\ undoStack'[l] = undoStack[l]
          /\ undoIndex'[l] = undoIndex[l]
      BY <2>7 DEF Push
    <3> QED
      BY <2>1, <2>2, <2>4, <2>7, <3>1
  <2> QED
    BY <2>1, <2>5, <2>6, <2>7
<1>2. StacksKept
  <2>1. /\ undoStack' = [l \in Layers |-> undoStack'[l]]
        /\ undoIndex' = [l \in Layers |-> undoIndex'[l]]
        /\ macro' = [l \in Layers |-> macro'[l]]
        /\ mModified' = [l \in Layers |-> mModified'[l]]
        /\ mEditCommandActive' \in [Layers -> BOOLEAN]
    BY DEF Push, Shape
  <2>2. /\ undoStack' \in [Layers -> Seq(Seq(Sent))]
        /\ undoIndex' \in [Layers -> Nat]
        /\ macro' \in [Layers -> Seq(Sent)]
        /\ mModified' \in [Layers -> BOOLEAN]
    BY <1>1, <2>1
  <2> QED
    BY <1>1, <2>1, <2>2 DEF StacksKept
<1>3. ASSUME \A l \in Layers : ~ mModified'[l], StacksInert(macro, undoStack)
      PROVE  StacksInert(macro', undoStack')
  <2>1. \A l \in DOMAIN cmds : Inert(cmds[l])
    BY <1>1, <1>3 DEF Inert
  <2> QED
    BY <1>1, <1>3, <2>1 DEF StacksInert
<1> QED
  BY <1>1, <1>2, <1>3

\* The statement of a new edit: without an error, its layer is modified.
LEMMA ModifyIInv ==
  ASSUME IInv, NEW l \in Layers, NEW kind \in Kinds \ {"sql"}, Modify(l, kind)
  PROVE  IInv'
<1> DEFINE e == [layer |-> l, kind |-> kind, number |-> edits + 1]
<1>1. Shape /\ Sound(session) /\ Unmodified
  BY DEF IInv
<1>2. e \in Edits /\ edits' \in 0 .. MaxEdits
  BY <1>1 DEF Shape, Modify, Edits, Numbers
<1>3. PICK failing \in Failing :
        LET new == Constructed(session, l, e, failing)
            done == RedoEdit(new.s, new.c, failing)
        IN /\ SetSession(done.s)
           /\ Push([m \in {l} |-> done.c])
           /\ Fails(failing)
           /\ misled' = (misled \/ (/\ macro[l] = <<>>
                                    /\ ~new.c.mHasError
                                    /\ \/ ~IsPresent(new.s, new.c.mSavePointId)
                                       \/ ~new.c.mRecreateSavePoint))
  BY Zenon DEF Modify
<1> DEFINE new == Constructed(session, l, e, failing)
           done == RedoEdit(new.s, new.c, failing)
           cmds == [m \in {l} |-> done.c]
<1>4. /\ SetSession(done.s) /\ Push(cmds) /\ Fails(failing)
      /\ misled' \in BOOLEAN /\ failed' \in BOOLEAN
  <2>1. misled' \in BOOLEAN /\ SetSession(done.s) /\ Push(cmds) /\ Fails(failing)
    BY <1>3, Zenon
  <2> QED
    BY <2>1, <1>1 DEF Modify, Shape
<1>5. /\ Sound(new.s) /\ NamesBelow(new.s, FreshName + 1)
      /\ Untouched(session) => Untouched(new.s)
      /\ new.c \in Sent /\ new.c.mSavePointId < FreshName + 1 /\ FreshName + 1 \in Nat
      /\ new.c.mUndone = FALSE
  <2> HIDE DEF e
  <2>1. FreshName + 1 \in Nat
    BY <1>1, FreshNameIs DEF Names
  <2> QED
    BY <2>1, <1>1, <1>2, ConstructedSent
<1>6. /\ Sound(done.s) /\ done.c \in Sent /\ done.c.mUndone = FALSE
      /\ Untouched(new.s) /\ done.c.mHasError => Untouched(done.s)
  <2> HIDE DEF new
  <2> QED
    BY <1>5, RedoEditKept DEF CommandKept
<1>7. DOMAIN cmds = {l} /\ cmds[l] = done.c
  OBVIOUS
<1> HIDE DEF e, new, done, cmds
<1>8. /\ StacksKept
      /\ \A m \in DOMAIN cmds : ~ mModified'[m] => cmds[m].mHasError
      /\ \A m \in Layers : ~ mModified'[m] => ~ mModified[m]
      /\ (\A m \in Layers : ~ mModified'[m]) /\ StacksInert(macro, undoStack) =>
           StacksInert(macro', undoStack')
  BY <1>1, <1>4, <1>6, <1>7, PushKept
<1>9. ASSUME \A m \in Layers : ~ mModified'[m]
      PROVE  Untouched(done.s) /\ StacksInert(macro', undoStack')
  <2>1. Untouched(session) /\ StacksInert(macro, undoStack)
    BY <1>1, <1>8, <1>9 DEF Unmodified, StacksInert
  <2> QED
    BY <2>1, <1>5, <1>6, <1>7, <1>8, <1>9
<1> QED
  BY <1>1, <1>2, <1>4, <1>6, <1>8, <1>9, IInvKept
\* SQL in the transaction: every layer gets a command and is modified.
LEMMA ExecuteSqlIInv ==
  ASSUME IInv, "sql" \in Kinds, ExecuteSql
  PROVE  IInv'
<1> DEFINE e == [layer |-> "none", kind |-> "sql", number |-> edits + 1]
<1>1. Shape /\ Sound(session) /\ Unmodified
  BY DEF IInv
<1>2. e \in Edits /\ edits' \in 0 .. MaxEdits
  BY <1>1 DEF Shape, ExecuteSql, Edits, Numbers
<1>3. PICK failing \in Failing :
        LET given == createSavepoint(session, FreshName, failing)
            last == Last(given.tr.mSavepoints)
        IN /\ given.tr.mSavepoints # <<>>
           /\ Fails(failing)
           /\ IF Refused(given, failing, "statement")
                THEN /\ SetSession(rollbackToSavepoint(given, last, "none"))
                     /\ UNCHANGED stackVars
                ELSE /\ SetSession(Apply(given, e))
                     /\ Push([l \in Layers |->
                                Command(e, last, FALSE, ~mEditCommandActive[l])])
           /\ misled' = (misled \/ ~IsPresent(given, last))
  BY Zenon DEF ExecuteSql
<1> DEFINE given == createSavepoint(session, FreshName, failing)
           last == Last(given.tr.mSavepoints)
           cmds == [l \in Layers |-> Command(e, last, FALSE, ~mEditCommandActive[l])]
<1>4. /\ given.tr.mSavepoints # <<>> /\ Fails(failing)
      /\ misled' \in BOOLEAN /\ failed' \in BOOLEAN
  <2>1. misled' \in BOOLEAN /\ given.tr.mSavepoints # <<>> /\ Fails(failing)
    BY <1>3, Zenon
  <2> QED
    BY <2>1, <1>1 DEF ExecuteSql, Shape
<1>5. Sound(given) /\ (Untouched(session) => Untouched(given))
  BY <1>1, FreshNameIs, CreateSavepointSound
<1>6. last \in Names /\ HasSavepoint(given, last)
  <2> HIDE DEF given
  <2>1. given.tr.mSavepoints \in Seq(Names)
    BY <1>5, SessionParts DEF Sound
  <2>2. /\ Len(given.tr.mSavepoints) \in DOMAIN given.tr.mSavepoints
        /\ last = given.tr.mSavepoints[Len(given.tr.mSavepoints)]
    BY <2>1, <1>4 DEF Last
  <2> QED
    BY <2>1, <2>2 DEF HasSavepoint, ToSet
<1>7. CASE Refused(given, failing, "statement")
  <2> DEFINE back == rollbackToSavepoint(given, last, "none")
  <2>1. SetSession(back) /\ UNCHANGED stackVars
    BY <1>3, <1>7, Zenon
  <2> HIDE DEF given, last
  <2>2. Keeps(given, back)
    BY <1>5, <1>6, RollbackKeeps
  <2>3. StacksKept
    BY <2>1, <1>1 DEF stackVars, StacksKept, Shape
  <2>4. ASSUME \A l \in Layers : ~ mModified'[l]
        PROVE  Untouched(back) /\ StacksInert(macro', undoStack')
    <3>1. Untouched(session) /\ StacksInert(macro, undoStack)
      BY <1>1, <2>1, <2>4 DEF Unmodified, StacksInert, stackVars
    <3> QED
      BY <3>1, <2>1, <2>2, <1>5 DEF Keeps, stackVars
  <2>5. Sound(back)
    BY <2>2 DEF Keeps
  <2> HIDE DEF back
  <2> QED
    BY <1>1, <1>2, <1>4, <2>1, <2>3, <2>4, <2>5, IInvKept
<1>8. CASE ~ Refused(given, failing, "statement")
  <2>1. SetSession(Apply(given, e)) /\ Push(cmds)
    BY <1>3, <1>8, Zenon
  <2>2. DOMAIN cmds = Layers
    OBVIOUS
  <2>3. \A l \in Layers : cmds[l] \in Sent /\ ~ cmds[l].mUndone /\ ~ cmds[l].mHasError
    <3> SUFFICES ASSUME NEW l \in Layers
                 PROVE  cmds[l] \in Sent /\ ~ cmds[l].mUndone /\ ~ cmds[l].mHasError
      OBVIOUS
    <3>1. cmds[l] = Command(e, last, FALSE, ~mEditCommandActive[l])
      OBVIOUS
    <3>2. (~mEditCommandActive[l]) \in BOOLEAN
      BY Zenon
    <3> HIDE DEF e, last, cmds
    <3> DEFINE b == ~mEditCommandActive[l]
    <3> HIDE DEF b
    <3>3. Command(e, last, FALSE, b) \in Sent /\ ~ Command(e, last, FALSE, b).mUndone
          /\ ~ Command(e, last, FALSE, b).mHasError
      <4>1. b \in BOOLEAN
        BY <3>2 DEF b
      <4> QED
        BY <4>1, <1>2, <1>6 DEF Command, Sent, Commands, Names
    <3> QED
      BY <3>1, <3>3 DEF b
  <2> HIDE DEF given, cmds, e
  <2>4. StacksKept /\ \A l \in DOMAIN cmds : ~ mModified'[l] => cmds[l].mHasError
    BY <1>1, <2>1, <2>2, <2>3, PushKept
  <2>5. ~ \A l \in Layers : ~ mModified'[l]
    BY <2>2, <2>3, <2>4
  <2>6. Sound(Apply(given, e))
    BY <1>2, <1>5, ApplySound
  <2> QED
    BY <1>1, <1>2, <1>4, <2>1, <2>4, <2>5, <2>6, IInvKept
<1> QED
  BY <1>7, <1>8

\* The stack of one layer is replaced.
LEMMA StackReplaced ==
  ASSUME Shape, NEW l \in Layers, NEW u \in Seq(Seq(Sent)), NEW k \in Nat, k <= Len(u),
         NEW m \in Seq(Sent), m # <<>> => mEditCommandActive'[l],
         undoStack' = [undoStack EXCEPT ![l] = u],
         undoIndex' = [undoIndex EXCEPT ![l] = k],
         macro' = [macro EXCEPT ![l] = m],
         mEditCommandActive' \in [Layers -> BOOLEAN],
         \A x \in Layers \ {l} : mEditCommandActive'[x] = mEditCommandActive[x],
         mModified' = mModified
  PROVE  /\ StacksKept
         /\ StacksInert(macro, undoStack) /\ AllInert(m)
              /\ (\A i \in DOMAIN u : AllInert(u[i])) => StacksInert(macro', undoStack')
<1>1. /\ undoStack' \in [Layers -> Seq(Seq(Sent))]
      /\ undoIndex' \in [Layers -> Nat]
      /\ macro' \in [Layers -> Seq(Sent)]
      /\ mEditCommandActive' \in [Layers -> BOOLEAN]
      /\ mModified' \in [Layers -> BOOLEAN]
  BY DEF Shape
<1>2. ASSUME NEW x \in Layers
      PROVE  /\ undoStack'[x] = (IF x = l THEN u ELSE undoStack[x])
             /\ undoIndex'[x] = (IF x = l THEN k ELSE undoIndex[x])
             /\ macro'[x] = (IF x = l THEN m ELSE macro[x])
             /\ x # l => mEditCommandActive'[x] = mEditCommandActive[x]
  BY DEF Shape
<1>3. StacksKept
  BY <1>1, <1>2 DEF Shape, StacksKept
<1>4. ASSUME StacksInert(macro, undoStack), AllInert(m), \A i \in DOMAIN u : AllInert(u[i])
      PROVE  StacksInert(macro', undoStack')
  BY <1>2, <1>4 DEF StacksInert
<1> QED
  BY <1>3, <1>4

\* What of the stack of a layer does not change.
LEMMA StackSame ==
  ASSUME Shape, NEW l \in Layers
  PROVE  /\ undoStack = [undoStack EXCEPT ![l] = undoStack[l]]
         /\ undoIndex = [undoIndex EXCEPT ![l] = undoIndex[l]]
         /\ macro = [macro EXCEPT ![l] = macro[l]]
BY DEF Shape

\* A macro begins with a savepoint, whose error is ignored.
LEMMA BeginIInv ==
  ASSUME IInv, NEW l \in Layers, BeginEditCommand(l)
  PROVE  IInv'
<1>1. Shape /\ Sound(session) /\ Unmodified
  BY DEF IInv
<1>2. PICK failing \in Failing :
        SetSession(createSavepoint(session, FreshName, failing)) /\ Fails(failing)
  BY DEF BeginEditCommand
<1> DEFINE given == createSavepoint(session, FreshName, failing)
<1>3. Sound(given) /\ (Untouched(session) => Untouched(given))
  BY <1>1, FreshNameIs, CreateSavepointSound
<1>4. /\ Kept(l) \in Seq(Seq(Sent)) /\ Len(Kept(l)) = undoIndex[l] /\ undoIndex[l] \in Nat
      /\ \A i \in DOMAIN Kept(l) : i \in DOMAIN undoStack[l] /\ Kept(l)[i] = undoStack[l][i]
  BY <1>1, StackParts
<1>5. /\ undoStack' = [undoStack EXCEPT ![l] = Kept(l)]
      /\ undoIndex' = [undoIndex EXCEPT ![l] = undoIndex[l]]
      /\ macro' = [macro EXCEPT ![l] = <<>>]
      /\ mEditCommandActive' \in [Layers -> BOOLEAN]
      /\ \A x \in Layers \ {l} : mEditCommandActive'[x] = mEditCommandActive[x]
      /\ mModified' = mModified
  BY <1>1, StackSame DEF BeginEditCommand, Shape
<1>6. <<>> \in Seq(Sent) /\ AllInert(<<>>) /\ undoIndex[l] <= Len(Kept(l))
  BY <1>4 DEF AllInert
<1>7. /\ StacksKept
      /\ StacksInert(macro, undoStack) /\ (\A i \in DOMAIN Kept(l) : AllInert(Kept(l)[i])) =>
           StacksInert(macro', undoStack')
  BY <1>1, <1>4, <1>5, <1>6, StackReplaced
<1> HIDE DEF given
<1>8. ASSUME \A x \in Layers : ~ mModified'[x]
      PROVE  Untouched(given) /\ StacksInert(macro', undoStack')
  <2>1. Untouched(session) /\ StacksInert(macro, undoStack)
    BY <1>1, <1>5, <1>8 DEF Unmodified, StacksInert
  <2>2. \A i \in DOMAIN Kept(l) : AllInert(Kept(l)[i])
    BY <2>1, <1>4 DEF StacksInert
  <2> QED
    BY <2>1, <2>2, <1>3, <1>7
<1>9. edits' \in 0 .. MaxEdits /\ misled' \in BOOLEAN /\ failed' \in BOOLEAN
  BY <1>1 DEF BeginEditCommand, historyVars, Shape
<1>10. SetSession(given)
  BY <1>2 DEF given
<1> QED
  BY <1>1, <1>2, <1>3, <1>7, <1>8, <1>9, <1>10, IInvKept

\* The macro becomes an entry of the stack.
LEMMA EndIInv ==
  ASSUME IInv, NEW l \in Layers, EndEditCommand(l)
  PROVE  IInv'
<1>1. Shape /\ Sound(session) /\ Unmodified
  BY DEF IInv
<1> DEFINE u == Append(undoStack[l], macro[l])
<1>2. /\ undoStack[l] \in Seq(Seq(Sent)) /\ undoIndex[l] \in Nat
      /\ undoIndex[l] <= Len(undoStack[l]) /\ macro[l] \in Seq(Sent)
  BY <1>1, StackParts
<1>3. /\ u \in Seq(Seq(Sent)) /\ undoIndex[l] + 1 <= Len(u)
      /\ \A i \in DOMAIN u : i \notin DOMAIN undoStack[l] => u[i] = macro[l]
      /\ \A i \in DOMAIN undoStack[l] : u[i] = undoStack[l][i]
  BY <1>2, AppendIs, SMTT(30)
<1>4. /\ undoStack' = [undoStack EXCEPT ![l] = u]
      /\ undoIndex' = [undoIndex EXCEPT ![l] = undoIndex[l] + 1]
      /\ macro' = [macro EXCEPT ![l] = <<>>]
      /\ mEditCommandActive' \in [Layers -> BOOLEAN]
      /\ \A x \in Layers \ {l} : mEditCommandActive'[x] = mEditCommandActive[x]
      /\ mModified' = mModified
  BY <1>1 DEF EndEditCommand, Shape
<1>5. <<>> \in Seq(Sent) /\ AllInert(<<>>) /\ undoIndex[l] + 1 \in Nat
  BY <1>2 DEF AllInert
<1> HIDE DEF u
<1>6. /\ StacksKept
      /\ StacksInert(macro, undoStack) /\ (\A i \in DOMAIN u : AllInert(u[i])) =>
           StacksInert(macro', undoStack')
  BY <1>1, <1>2, <1>3, <1>4, <1>5, StackReplaced
<1>7. /\ session' = session /\ db' = db /\ tr' = tr /\ fields' = fields
      /\ edits' = edits /\ failures' = failures /\ misled' = misled /\ failed' = failed
  BY DEF EndEditCommand, session, boundVars, historyVars
<1>8. Unmodified'
  <2> SUFFICES ASSUME \A x \in Layers : ~ mModified'[x]
               PROVE  Untouched(session) /\ StacksInert(macro', undoStack')
    BY <1>7 DEF Unmodified, StacksInert
  <2>1. Untouched(session) /\ StacksInert(macro, undoStack)
    BY <1>1, <1>4 DEF Unmodified, StacksInert
  <2>2. \A i \in DOMAIN u : AllInert(u[i])
    BY <2>1, <1>3 DEF StacksInert
  <2> QED
    BY <2>1, <2>2, <1>6
<1> QED
  BY <1>1, <1>6, <1>7, <1>8 DEF IInv, Shape, StacksKept
\* An entry of the stack of a layer is replaced by what undo or redo made of it.
LEMMA EntryReplaced ==
  ASSUME IInv, NEW l \in Layers, NEW i \in DOMAIN undoStack[l], NEW k \in Nat,
         k <= Len(undoStack[l]), NEW r, NEW n,
         EntryKept(session, undoStack[l][i], r, n),
         SetSession(r.s), NEW failing \in Failing, Fails(failing),
         undoStack' = [undoStack EXCEPT ![l][i] = r.entry],
         undoIndex' = [undoIndex EXCEPT ![l] = k],
         UNCHANGED <<mEditCommandActive, macro, mModified, edits>>,
         misled' \in BOOLEAN, failed' \in BOOLEAN
  PROVE  IInv'
<1>1. Shape /\ Sound(session) /\ Unmodified
  BY DEF IInv
<1> DEFINE u == [undoStack[l] EXCEPT ![i] = r.entry]
<1>2. /\ undoStack[l] \in Seq(Seq(Sent)) /\ macro[l] \in Seq(Sent)
      /\ mEditCommandActive[l] \in BOOLEAN
      /\ macro[l] # <<>> => mEditCommandActive[l]
  BY <1>1, StackParts DEF Shape
<1>3. Sound(r.s) /\ r.entry \in Seq(Sent)
  BY DEF EntryKept
<1>4. /\ u \in Seq(Seq(Sent)) /\ Len(u) = Len(undoStack[l]) /\ DOMAIN u = DOMAIN undoStack[l]
      /\ \A j \in DOMAIN u : u[j] = IF j = i THEN r.entry ELSE undoStack[l][j]
  <2> DEFINE q == undoStack[l]
             S == Seq(Sent)
             x == r.entry
  <2>1. q \in Seq(S) /\ i \in DOMAIN q /\ x \in S
    BY <1>2, <1>3
  <2> HIDE DEF q, S, x
  <2>2. /\ [q EXCEPT ![i] = x] \in Seq(S) /\ Len([q EXCEPT ![i] = x]) = Len(q)
        /\ DOMAIN [q EXCEPT ![i] = x] = DOMAIN q
        /\ \A j \in DOMAIN q : [q EXCEPT ![i] = x][j] = IF j = i THEN x ELSE q[j]
    BY <2>1, ReplaceIs
  <2> QED
    BY <2>2 DEF q, S, x
<1>5. undoStack' = [undoStack EXCEPT ![l] = u]
  BY <1>1 DEF Shape
<1>6. /\ macro' = [macro EXCEPT ![l] = macro[l]]
      /\ mEditCommandActive' = mEditCommandActive
      /\ mEditCommandActive' \in [Layers -> BOOLEAN]
      /\ mModified' = mModified
  BY <1>1, StackSame DEF Shape
<1> HIDE DEF u
<1>7. /\ StacksKept
      /\ StacksInert(macro, undoStack) /\ AllInert(macro[l])
           /\ (\A j \in DOMAIN u : AllInert(u[j])) => StacksInert(macro', undoStack')
  <2>1. /\ k <= Len(u) /\ (macro[l] # <<>> => mEditCommandActive'[l])
        /\ \A x \in Layers \ {l} : mEditCommandActive'[x] = mEditCommandActive[x]
    BY <1>2, <1>4, <1>6
  <2> DEFINE m == macro[l]
  <2>2. /\ m \in Seq(Sent) /\ (m # <<>> => mEditCommandActive'[l])
        /\ macro' = [macro EXCEPT ![l] = m]
    BY <1>2, <1>6, <2>1
  <2> HIDE DEF m
  <2>3. /\ StacksKept
        /\ StacksInert(macro, undoStack) /\ AllInert(m)
             /\ (\A j \in DOMAIN u : AllInert(u[j])) => StacksInert(macro', undoStack')
    BY <1>1, <1>4, <1>5, <1>6, <2>1, <2>2, StackReplaced
  <2> QED
    BY <2>3 DEF m
<1>8. ASSUME \A x \in Layers : ~ mModified'[x]
      PROVE  Untouched(r.s) /\ StacksInert(macro', undoStack')
  <2>1. Untouched(session) /\ StacksInert(macro, undoStack)
    BY <1>1, <1>8 DEF Unmodified, StacksInert
  <2>2. Untouched(r.s) /\ AllInert(r.entry)
    BY <2>1 DEF StacksInert, EntryKept
  <2>3. \A j \in DOMAIN u : AllInert(u[j])
    BY <2>1, <2>2, <1>4 DEF StacksInert
  <2> QED
    BY <2>1, <2>2, <2>3, <1>7 DEF StacksInert
<1>9. edits' \in 0 .. MaxEdits
  BY <1>1 DEF Shape
<1> QED
  BY <1>1, <1>3, <1>7, <1>8, <1>9, IInvKept

\* An entry is undone.
LEMMA UndoIInv ==
  ASSUME IInv, NEW l \in Layers, Undo(l)
  PROVE  IInv'
<1>1. Shape /\ Sound(session) /\ Unmodified
  BY DEF IInv
<1> DEFINE i == undoIndex[l]
           entry == undoStack[l][i]
<1>2. /\ undoStack[l] \in Seq(Seq(Sent)) /\ i \in Nat /\ i <= Len(undoStack[l]) /\ i > 0
  BY <1>1, StackParts DEF Undo
<1>3. i \in DOMAIN undoStack[l] /\ entry \in Seq(Sent) /\ i - 1 \in Nat /\ i - 1 <= Len(undoStack[l])
  BY <1>2
<1>4. PICK at \in DOMAIN entry, failing \in Failing :
        LET r == UndoEntry(session, entry, at, failing)
        IN /\ SetSession(r.s)
           /\ undoStack' = [undoStack EXCEPT ![l][i] = r.entry]
           /\ Fails(failing)
           /\ misled' = (misled \/ OthersChange(l, r.s.db.table))
           /\ failed' = (failed \/ Errors(r.entry) # Errors(entry))
  BY Zenon DEF Undo
<1> DEFINE r == UndoEntry(session, entry, at, failing)
<1>5. /\ FreshName \in Nat /\ NamesBelow(session, FreshName) /\ IdsBelow(entry, FreshName)
  BY <1>1, <1>3, FreshNameIs DEF Names
<1>6. EntryKept(session, entry, r, FreshName)
  <2> HIDE DEF entry
  <2> QED
    BY <1>1, <1>3, <1>5, UndoEntryKept
<1>7. /\ SetSession(r.s) /\ undoStack' = [undoStack EXCEPT ![l][i] = r.entry]
      /\ Fails(failing)
  BY <1>4, Zenon
<1>8. misled' \in BOOLEAN /\ failed' \in BOOLEAN
  BY <1>4, Zenon
<1>9. /\ undoIndex' = [undoIndex EXCEPT ![l] = i - 1]
      /\ UNCHANGED <<mEditCommandActive, macro, mModified, edits>>
  BY DEF Undo
<1> HIDE DEF r
<1> QED
  BY <1>3, <1>6, <1>7, <1>8, <1>9, EntryReplaced

\* An entry is redone, with savepoints under new names.
LEMMA RedoIInv ==
  ASSUME IInv, NEW l \in Layers, Redo(l)
  PROVE  IInv'
<1>1. Shape /\ Sound(session) /\ Unmodified
  BY DEF IInv
<1> DEFINE i == undoIndex[l] + 1
           entry == undoStack[l][i]
<1>2. /\ undoStack[l] \in Seq(Seq(Sent)) /\ undoIndex[l] \in Nat /\ undoIndex[l] < Len(undoStack[l])
  BY <1>1, StackParts DEF Redo
<1>3. i \in DOMAIN undoStack[l] /\ entry \in Seq(Sent) /\ i \in Nat /\ i <= Len(undoStack[l])
  <2>1. i \in 1 .. Len(undoStack[l]) /\ i \in Nat /\ i <= Len(undoStack[l])
    BY <1>2
  <2> HIDE DEF i
  <2>2. DOMAIN undoStack[l] = 1 .. Len(undoStack[l])
    BY <1>2
  <2> QED
    BY <2>1, <2>2, <1>2
<1>4. PICK at \in DOMAIN entry, failing \in Failing :
        LET r == RedoEntry(session, entry, FreshName, at, failing)
        IN /\ SetSession(r.s)
           /\ undoStack' = [undoStack EXCEPT ![l][i] = r.entry]
           /\ Fails(failing)
           /\ misled' = (misled \/ r.stale \/ OthersChange(l, r.s.db.table))
           /\ failed' = (failed \/ Errors(r.entry) # Errors(entry))
  BY Zenon DEF Redo
<1> DEFINE r == RedoEntry(session, entry, FreshName, at, failing)
<1>5. /\ FreshName \in Names /\ NamesBelow(session, FreshName) /\ IdsBelow(entry, FreshName)
  BY <1>1, <1>3, FreshNameIs
<1>6. EntryKept(session, entry, r, FreshName + Len(entry))
  <2> HIDE DEF entry
  <2> QED
    BY <1>1, <1>3, <1>5, RedoEntryKept
<1>7. /\ SetSession(r.s) /\ undoStack' = [undoStack EXCEPT ![l][i] = r.entry]
      /\ Fails(failing)
  BY <1>4, Zenon
<1>8. misled' \in BOOLEAN /\ failed' \in BOOLEAN
  BY <1>4, Zenon
<1>9. /\ undoIndex' = [undoIndex EXCEPT ![l] = i]
      /\ UNCHANGED <<mEditCommandActive, macro, mModified, edits>>
  BY DEF Redo
<1> HIDE DEF r, i
<1> QED
  BY <1>3, <1>6, <1>7, <1>8, <1>9, EntryReplaced

\* A macro is given up: its commands are undone and deleted.
LEMMA DestroyIInv ==
  ASSUME IInv, NEW l \in Layers, DestroyEditCommand(l)
  PROVE  IInv'
<1>1. Shape /\ Sound(session) /\ Unmodified
  BY DEF IInv
<1>2. /\ undoStack[l] \in Seq(Seq(Sent)) /\ undoIndex[l] \in Nat
      /\ undoIndex[l] <= Len(undoStack[l]) /\ macro[l] \in Seq(Sent)
  BY <1>1, StackParts
<1>3. PICK at \in DOMAIN macro[l] \cup {0}, failing \in Failing :
        LET r == UndoEntry(session, macro[l], at, failing)
        IN /\ SetSession(r.s)
           /\ Fails(failing)
           /\ misled' = (misled \/ OthersChange(l, r.s.db.table))
           /\ failed' = (failed \/ Errors(r.entry) # Errors(macro[l]))
  BY Zenon DEF DestroyEditCommand
<1> DEFINE r == UndoEntry(session, macro[l], at, failing)
<1>4. /\ FreshName \in Nat /\ NamesBelow(session, FreshName) /\ IdsBelow(macro[l], FreshName)
  BY <1>1, FreshNameIs DEF Names
<1>5. EntryKept(session, macro[l], r, FreshName)
  BY <1>1, <1>2, <1>4, UndoEntryKept
<1>6. SetSession(r.s) /\ Fails(failing) /\ misled' \in BOOLEAN /\ failed' \in BOOLEAN
  BY <1>3, Zenon
<1>7. /\ undoStack' = [undoStack EXCEPT ![l] = undoStack[l]]
      /\ undoIndex' = [undoIndex EXCEPT ![l] = undoIndex[l]]
      /\ macro' = [macro EXCEPT ![l] = <<>>]
      /\ mEditCommandActive' \in [Layers -> BOOLEAN]
      /\ \A x \in Layers \ {l} : mEditCommandActive'[x] = mEditCommandActive[x]
      /\ mModified' = mModified
  BY <1>1, StackSame DEF DestroyEditCommand, Shape
<1>8. <<>> \in Seq(Sent) /\ AllInert(<<>>)
  BY DEF AllInert
<1> HIDE DEF r
<1>9. /\ StacksKept
      /\ StacksInert(macro, undoStack) /\ (\A i \in DOMAIN undoStack[l] : AllInert(undoStack[l][i])) =>
           StacksInert(macro', undoStack')
  BY <1>1, <1>2, <1>7, <1>8, StackReplaced
<1>10. ASSUME \A x \in Layers : ~ mModified'[x]
       PROVE  Untouched(r.s) /\ StacksInert(macro', undoStack')
  <2>1. Untouched(session) /\ StacksInert(macro, undoStack)
    BY <1>1, <1>7, <1>10 DEF Unmodified, StacksInert
  <2> QED
    BY <2>1, <1>5, <1>9 DEF StacksInert, EntryKept
<1>11. Sound(r.s) /\ edits' \in 0 .. MaxEdits
  BY <1>1, <1>5 DEF EntryKept, DestroyEditCommand, Shape
<1> QED
  BY <1>1, <1>6, <1>9, <1>10, <1>11, IInvKept

-----------------------------------------------------------------------------
(***************************************************************************)
(* The theorems                                                            *)
(***************************************************************************)

\* Every step keeps the invariant.
LEMMA NextIInv == IInv /\ [Next]_vars => IInv'
<1> SUFFICES ASSUME IInv, [Next]_vars PROVE IInv'
  OBVIOUS
<1>1. ASSUME NEW l \in Layers, BeginEditCommand(l) PROVE IInv'
  BY <1>1, BeginIInv
<1>2. ASSUME NEW l \in Layers, EndEditCommand(l) PROVE IInv'
  BY <1>2, EndIInv
<1>3. ASSUME NEW l \in Layers, DestroyEditCommand(l) PROVE IInv'
  BY <1>3, DestroyIInv
<1>4. ASSUME NEW l \in Layers, NEW kind \in Kinds \ {"sql"}, Modify(l, kind) PROVE IInv'
  BY <1>4, ModifyIInv
<1>5. ASSUME NEW l \in Layers, Undo(l) PROVE IInv'
  BY <1>5, UndoIInv
<1>6. ASSUME NEW l \in Layers, Redo(l) PROVE IInv'
  BY <1>6, RedoIInv
<1>7. ASSUME "sql" \in Kinds, ExecuteSql PROVE IInv'
  BY <1>7, ExecuteSqlIInv
<1>8. CASE UNCHANGED vars
  <2>1. /\ db' = db /\ tr' = tr /\ fields' = fields /\ session' = session
        /\ undoStack' = undoStack /\ undoIndex' = undoIndex /\ macro' = macro
        /\ mEditCommandActive' = mEditCommandActive /\ mModified' = mModified
        /\ edits' = edits /\ failures' = failures /\ misled' = misled /\ failed' = failed
    BY <1>8 DEF vars, stackVars, boundVars, historyVars, session
  <2>2. Shape' /\ Sound(session') /\ Unmodified'
    BY <2>1 DEF IInv, Shape, Unmodified
  <2> QED
    BY <2>2 DEF IInv
<1> QED
  BY <1>1, <1>2, <1>3, <1>4, <1>5, <1>6, <1>7, <1>8 DEF Next

\* Every reachable state has the invariant.
LEMMA SpecIInv == Spec => []IInv
BY InitIInv, NextIInv, PTL DEF Spec

\* Every savepoint the transaction lists is one the database still has, in the
\* order of the list and under a name that no other one of the list has,
\* whatever the layers edit, undo and redo and whatever statements fail: no
\* ROLLBACK TO SAVEPOINT names a savepoint that an earlier one destroyed.
THEOREM SavepointsExistHolds == Spec => []SavepointsExist
<1>1. IInv => SavepointsExist
  <2> SUFFICES ASSUME IInv PROVE SavepointsExist
    OBVIOUS
  <2>1. Shape /\ Sound(session) /\ InOrder(tr.mSavepoints, db.savepoints)
    BY DEF IInv, Sound, session
  <2>2. /\ db.table \subseteq Edits /\ db.aborted \in BOOLEAN
        /\ db.savepoints \in Seq([name : Nat \ {0}, table : SUBSET Edits])
        /\ tr.mSavepoints \in Seq(Nat \ {0}) /\ tr.mLastSavePointIsDirty \in BOOLEAN
        /\ fields.provider \subseteq Edits /\ fields.layer \subseteq Edits
    BY <2>1 DEF Shape, Databases, Transactions, Fields, Savepoints, Names
  <2>3. \A l \in Layers :
          /\ undoStack[l] \in Seq(Seq(Commands))
          /\ undoIndex[l] \in 0..Len(undoStack[l])
          /\ macro[l] \in Seq(Commands)
          /\ macro[l] # <<>> => mEditCommandActive[l]
    <3> SUFFICES ASSUME NEW l \in Layers
                 PROVE  /\ undoStack[l] \in Seq(Seq(Commands))
                        /\ undoIndex[l] \in 0..Len(undoStack[l])
                        /\ macro[l] \in Seq(Commands)
                        /\ macro[l] # <<>> => mEditCommandActive[l]
      OBVIOUS
    <3>1. /\ undoStack[l] \in Seq(Seq(Sent)) /\ undoIndex[l] \in Nat
          /\ undoIndex[l] <= Len(undoStack[l]) /\ macro[l] \in Seq(Sent)
          /\ macro[l] # <<>> => mEditCommandActive[l]
      BY <2>1 DEF Shape
    <3>2. Sent \subseteq Commands
      BY DEF Sent
    <3>3. \A seq \in Seq(Sent) : seq \in Seq(Commands)
      BY <3>2
    <3> QED
      BY <3>1, <3>3
  <2>4. TypeOK
    BY <2>1, <2>2, <2>3 DEF Shape, TypeOK
  <2> DEFINE list == tr.mSavepoints
             E(i) == DbIndex(db.savepoints, list[i])
  <2>5. list \in Seq(Names) /\ \A i, j \in DOMAIN list : E(i) # 0 /\ (i < j => E(i) < E(j))
    BY <2>1, <2>2 DEF InOrder, Names
  <2>6. \A i \in DOMAIN list : E(i) \in Nat
    <3>1. db.savepoints \in Seq(Savepoints)
      BY <2>2 DEF Savepoints, Names
    <3> SUFFICES ASSUME NEW i \in DOMAIN list PROVE E(i) \in Nat
      OBVIOUS
    <3>2. IsLastNamed(db.savepoints, list[i], E(i))
      BY <3>1, <2>5, DbIndexFinds
    <3> QED
      BY <3>1, <3>2 DEF IsLastNamed
  <2>7. IsInjective(list)
    <3> SUFFICES ASSUME NEW i \in DOMAIN list, NEW j \in DOMAIN list, list[i] = list[j]
                 PROVE  i = j
      BY DEF IsInjective
    <3>1. E(i) = E(j)
      OBVIOUS
    <3> HIDE DEF E
    <3>2. ~ (i < j) /\ ~ (j < i) /\ i \in Int /\ j \in Int
      BY <3>1, <2>5, <2>6
    <3> QED
      BY <3>2
  <2>8. \A i \in DOMAIN list : E(i) # 0 /\ (i > 1 => E(i - 1) < E(i))
    <3> SUFFICES ASSUME NEW i \in DOMAIN list PROVE E(i) # 0 /\ (i > 1 => E(i - 1) < E(i))
      OBVIOUS
    <3>1. i > 1 => i - 1 \in DOMAIN list /\ i - 1 < i
      BY <2>5
    <3> HIDE DEF E
    <3> QED
      BY <2>5, <3>1
  <2> QED
    BY <2>4, <2>7, <2>8 DEF SavepointsExist
<1> QED
  BY <1>1, SpecIInv, PTL

\* While the database holds an edit of the session some layer is modified:
\* editing does not stop, nor the project close, without a question that
\* somebody could answer with "save".
THEOREM ModifiedIsKnown == Spec => []ModifiedKnown
<1>1. IInv => ModifiedKnown
  BY DEF IInv, Unmodified, Untouched, ModifiedKnown, session
<1> QED
  BY <1>1, SpecIInv, PTL
=============================================================================
