------------------------- MODULE ChunkedEntityProofs -------------------------
(***************************************************************************)
(* Proofs about the terrain tiles.                                         *)
(*                                                                         *)
(* The invariant says of the entity that its queues, its job and the       *)
(* states of its nodes agree (Consistent), that its textures are of the    *)
(* map or are going to be (Fresh), and, when the nodes that a view can ask *)
(* for are no more than are kept (Fits), that what is shown is loaded and  *)
(* covers no ground twice (Shown), and is all that the view asks for once  *)
(* nothing is to be loaded and no update is due (Complete).  Each part of  *)
(* a handler keeps these by a lemma of its own.                            *)
(***************************************************************************)
EXTENDS ChunkedEntity, SequenceLemmas

-----------------------------------------------------------------------------
(***************************************************************************)
(* The operators on queues                                                 *)
(***************************************************************************)

\* What Select has found among the first k elements.
FirstSelected(seq, set, S, f, k) ==
  /\ f \in Seq(S)
  /\ ToSet(f) = {seq[i] : i \in {j \in 1 .. k : seq[j] \in set}}
  /\ IsInjective(seq) => IsInjective(f)

\* One more element is looked at.
SelectStep(seq, set, f, i) == IF seq[i] \in set THEN Append(f, seq[i]) ELSE f

\* The step goes on with what is right so far.
LEMMA SelectOne ==
  ASSUME NEW S, NEW seq \in Seq(S), NEW set, NEW f, NEW k \in Nat, k + 1 <= Len(seq),
         FirstSelected(seq, set, S, f, k)
  PROVE  FirstSelected(seq, set, S, SelectStep(seq, set, f, k + 1), k + 1)
<1> DEFINE x == seq[k + 1]
<1>1. /\ x \in S /\ Len(seq) \in Nat /\ DOMAIN seq = 1 .. Len(seq)
      /\ k + 1 \in 1 .. Len(seq) /\ k + 1 \notin 1 .. k
      /\ 1 .. k \subseteq DOMAIN seq
      /\ \A j \in 1 .. k + 1 : j \in 1 .. k \/ j = k + 1
      /\ 1 .. k \subseteq 1 .. k + 1
  OBVIOUS
<1>2. CASE seq[k + 1] \notin set
  <2>1. SelectStep(seq, set, f, k + 1) = f
    BY <1>2 DEF SelectStep
  <2>2. {j \in 1 .. k + 1 : seq[j] \in set} = {j \in 1 .. k : seq[j] \in set}
    BY <1>1, <1>2
  <2> QED
    BY <2>1, <2>2 DEF FirstSelected
<1>3. CASE seq[k + 1] \in set
  <2>1. SelectStep(seq, set, f, k + 1) = Append(f, x)
    BY <1>3 DEF SelectStep
  <2>2. {j \in 1 .. k + 1 : seq[j] \in set} = {j \in 1 .. k : seq[j] \in set} \cup {k + 1}
    BY <1>1, <1>3
  <2>3. {seq[i] : i \in {j \in 1 .. k + 1 : seq[j] \in set}} = ToSet(f) \cup {x}
    BY <2>2 DEF FirstSelected
  <2>4. f \in Seq(S) /\ x \in S
    BY <1>1 DEF FirstSelected
  <2>5. IsInjective(seq) => x \notin ToSet(f)
    <3> SUFFICES ASSUME IsInjective(seq), x \in ToSet(f) PROVE FALSE
      OBVIOUS
    <3>1. PICK i \in 1 .. k : seq[i] = x
      BY DEF FirstSelected
    <3>2. i \in DOMAIN seq /\ k + 1 \in DOMAIN seq /\ i # k + 1
      BY <1>1, <3>1
    <3> QED
      BY <3>1, <3>2 DEF IsInjective
  <2> HIDE DEF x
  <2> DEFINE r == Append(f, x)
  <2>6. /\ r \in Seq(S) /\ ToSet(r) = ToSet(f) \cup {x}
        /\ IsInjective(f) /\ x \notin ToSet(f) => IsInjective(r)
    BY <2>4, AppendIs, AppendSet
  <2>7. IsInjective(seq) => IsInjective(f)
    BY DEF FirstSelected
  <2> HIDE DEF r
  <2>8. FirstSelected(seq, set, S, r, k + 1)
    BY <2>3, <2>5, <2>6, <2>7 DEF FirstSelected
  <2> QED
    BY <2>1, <2>8 DEF r
<1> QED
  BY <1>2, <1>3

\* The elements that are in the set, each as often as it was.
LEMMA SelectIs ==
  ASSUME NEW S, NEW seq \in Seq(S), NEW set
  PROVE  /\ Select(seq, set) \in Seq(S)
         /\ ToSet(Select(seq, set)) = ToSet(seq) \cap set
         /\ IsInjective(seq) => IsInjective(Select(seq, set))
<1> DEFINE N == Len(seq)
           T == Seq(S)
           Good(f, i) == FirstSelected(seq, set, S, f, i)
           step == [p \in T \X (1 .. N) |->
                      SelectStep(seq, set, p[1], p[2])]
<1>1. /\ N \in Nat /\ DOMAIN seq = 1 .. N /\ <<>> \in T
      /\ \A i \in 1 .. N : seq[i] \in S
  OBVIOUS
<1>2. Good(<<>>, 0)
  BY DEF FirstSelected, ToSet, IsInjective
<1>3. PICK g \in [0 .. N -> T] : Follows(g, N, <<>>, step)
  <2>1. ASSUME NEW f \in T, NEW i \in 1 .. N PROVE SelectStep(seq, set, f, i) \in T
    BY <1>1 DEF SelectStep
  <2>2. step \in [T \X (1 .. N) -> T]
    BY <2>1
  <2> HIDE DEF step, T, N
  <2> QED
    BY <1>1, <2>2, RecursionExists
<1> DEFINE first[i \in 0 .. Len(seq)] ==
             IF i = 0 THEN <<>>
             ELSE IF seq[i] \in set THEN Append(first[i - 1], seq[i]) ELSE first[i - 1]
           H(f) == [i \in 0 .. Len(seq) |->
             IF i = 0 THEN <<>>
             ELSE IF seq[i] \in set THEN Append(f[i - 1], seq[i]) ELSE f[i - 1]]
<1>4. ASSUME NEW f
      PROVE  /\ H(f) = [i \in 0 .. N |-> H(f)[i]]
             /\ H(f)[0] = <<>>
             /\ \A i \in 1 .. N : H(f)[i] = SelectStep(seq, set, f[i - 1], i)
  <2>1. H(f) = [i \in 0 .. N |-> H(f)[i]] /\ H(f)[0] = <<>>
    OBVIOUS
  <2>2. ASSUME NEW i \in 1 .. N PROVE H(f)[i] = SelectStep(seq, set, f[i - 1], i)
    <3>1. i \in 0 .. Len(seq) /\ i # 0
      OBVIOUS
    <3> QED
      BY <3>1, Zenon DEF SelectStep
  <2> QED
    BY <2>1, <2>2
<1>5. g = H(g)
  <2> HIDE DEF H, T
  <2>1. ASSUME NEW i \in 0 .. N PROVE g[i] = H(g)[i]
    <3>1. CASE i = 0
      BY <3>1, <1>3, <1>4 DEF Follows
    <3>2. CASE i # 0
      <4>1. i \in 1 .. N /\ i - 1 \in 0 .. N
        BY <3>2
      <4>2. g[i] = step[<<g[i - 1], i>>] /\ g[i - 1] \in T
        BY <4>1, <1>3 DEF Follows
      <4>3. g[i] = SelectStep(seq, set, g[i - 1], i)
        BY <4>1, <4>2
      <4> QED
        BY <4>1, <4>3, <1>4
    <3> QED
      BY <3>1, <3>2
  <2>2. g = [i \in 0 .. N |-> g[i]]
    BY <1>3
  <2> QED
    BY <2>1, <2>2, <1>4
<1>6. first = H(first)
  BY <1>5, Zenon DEF H
<1>7. Select(seq, set) = first[Len(seq)]
  BY DEF Select
<1> HIDE DEF H, first, T, step
<1>8. first[0] = <<>> /\ \A i \in 1 .. N : first[i] = SelectStep(seq, set, first[i - 1], i)
  BY <1>6, <1>4
<1> DEFINE I == {k \in Nat : k <= N => Good(first[k], k)}
<1>9. 0 \in I
  BY <1>2, <1>8
<1>10. ASSUME NEW k \in I PROVE k + 1 \in I
  <2> SUFFICES ASSUME k + 1 <= N PROVE Good(first[k + 1], k + 1)
    BY <1>10
  <2>1. k + 1 \in 1 .. N /\ Good(first[k], k) /\ (k + 1) - 1 = k /\ k \in Nat
    BY <1>1, <1>10
  <2>2. first[k + 1] = SelectStep(seq, set, first[k], k + 1)
    BY <1>8, <2>1
  <2> QED
    BY <2>1, <2>2, SelectOne
<1>11. Good(first[N], N)
  <2>1. I \in SUBSET Nat
    OBVIOUS
  <2>2. N \in I
    <3> HIDE DEF I
    <3> QED
      BY <1>1, <1>9, <1>10, <2>1, SetInduction
  <2> QED
    BY <2>2, <1>1
<1>12. ToSet(seq) \cap set = {seq[i] : i \in {j \in 1 .. N : seq[j] \in set}}
  BY <1>1 DEF ToSet
<1> QED
  BY <1>7, <1>11, <1>12 DEF FirstSelected

\* The nodes that move to the front of a queue are its first ones, and no node
\* is in it twice.
LEMMA ToFrontIs ==
  ASSUME NEW queue \in Seq(Nodes), IsInjective(queue),
         NEW nodes \in Seq(Nodes), IsInjective(nodes)
  PROVE  /\ ToFront(queue, nodes) \in Seq(Nodes) /\ IsInjective(ToFront(queue, nodes))
         /\ ToSet(ToFront(queue, nodes)) = ToSet(queue) \cup ToSet(nodes)
         /\ Len(nodes) <= Len(ToFront(queue, nodes))
         /\ \A n \in ToSet(nodes) : \E i \in 1 .. Len(nodes) : ToFront(queue, nodes)[i] = n
<1> DEFINE rest == Without(queue, ToSet(nodes))
           front == Reverse(nodes)
<1>1. /\ rest \in Seq(Nodes) /\ IsInjective(rest)
      /\ ToSet(rest) = ToSet(queue) \ ToSet(nodes)
  <2>1. ToSet(queue) \subseteq Nodes
    BY ToSetFinite
  <2> QED
    BY <2>1, SelectIs DEF Without
<1>2. /\ front \in Seq(Nodes) /\ Len(front) = Len(nodes) /\ ToSet(front) = ToSet(nodes)
      /\ IsInjective(front)
  BY ReverseSet
<1>3. ToFront(queue, nodes) = front \o rest
  BY DEF ToFront
<1> HIDE DEF rest, front
<1>4. /\ front \o rest \in Seq(Nodes) /\ Len(front \o rest) = Len(front) + Len(rest)
      /\ \A i \in 1 .. Len(front) : (front \o rest)[i] = front[i]
      /\ ToSet(front \o rest) = ToSet(front) \cup ToSet(rest)
      /\ IsInjective(front \o rest)
  <2>1. ToSet(front) \cap ToSet(rest) = {}
    BY <1>1, <1>2
  <2> QED
    BY <1>1, <1>2, <2>1, ConcatSet
<1>5. \A n \in ToSet(nodes) : \E i \in 1 .. Len(front) : front[i] = n
  <2>1. ASSUME NEW n \in ToSet(front) PROVE \E i \in 1 .. Len(front) : front[i] = n
    BY <1>2 DEF ToSet
  <2> QED
    BY <2>1, <1>2
<1>6. Len(rest) \in Nat /\ Len(front) \in Nat
  BY <1>1, <1>2
<1> DEFINE all == front \o rest
<1>7. ToFront(queue, nodes) = all
  BY <1>3
<1>8. all \in Seq(Nodes) /\ IsInjective(all) /\ ToSet(all) = ToSet(queue) \cup ToSet(nodes)
  BY <1>1, <1>2, <1>4
<1>9. Len(nodes) <= Len(all)
  BY <1>2, <1>4, <1>6
<1>10. \A n \in ToSet(nodes) : \E i \in 1 .. Len(nodes) : all[i] = n
  BY <1>2, <1>4, <1>5
<1> HIDE DEF all
<1> QED
  BY <1>7, <1>8, <1>9, <1>10
-----------------------------------------------------------------------------
(***************************************************************************)
(* The parts of the invariant                                              *)
(***************************************************************************)

Statuses == {"Skeleton", "QueuedForLoad", "Loading"} \cup WithEntity

Jobs(m) == [node : Nodes, renders : {"heights", "map"}, image : 0 .. m]

\* The entities while the map is at version m.
Entities(m) ==
  [state : [Nodes -> Statuses], hasData : [Nodes -> BOOLEAN], image : [Nodes -> 0 .. m],
   loaderQueue : Seq(Nodes), replacementQueue : Seq(Nodes), activeNodes : Seq(Nodes),
   enabled : SUBSET Nodes, activeJob : Jobs(m) \cup {NoJob}, needsUpdate : BOOLEAN]

Members == {"state", "hasData", "image", "loaderQueue", "replacementQueue", "activeNodes",
            "enabled", "activeJob", "needsUpdate"}

\* The entity has the members of a QgsChunkedEntity, and those its values.
Typed(e, m) ==
  /\ e = [x \in Members |-> e[x]]
  /\ e.state \in [Nodes -> Statuses]
  /\ e.hasData \in [Nodes -> BOOLEAN]
  /\ e.image \in [Nodes -> 0 .. m]
  /\ e.loaderQueue \in Seq(Nodes)
  /\ e.replacementQueue \in Seq(Nodes)
  /\ e.activeNodes \in Seq(Nodes)
  /\ e.enabled \in SUBSET Nodes
  /\ e.activeJob \in Jobs(m) \cup {NoJob}
  /\ e.needsUpdate \in BOOLEAN

\* An entity is a record of the members, each of the type the code gives it.
LEMMA TypedIs ==
  ASSUME NEW m, NEW e
  PROVE  e \in Entities(m) <=> Typed(e, m)
<1>1. ASSUME e \in Entities(m) PROVE Typed(e, m)
  BY <1>1 DEF Entities, Typed, Members
<1>2. ASSUME Typed(e, m) PROVE e \in Entities(m)
  <2>1. e = [state |-> e.state, hasData |-> e.hasData, image |-> e.image,
             loaderQueue |-> e.loaderQueue, replacementQueue |-> e.replacementQueue,
             activeNodes |-> e.activeNodes, enabled |-> e.enabled,
             activeJob |-> e.activeJob, needsUpdate |-> e.needsUpdate]
    BY <1>2 DEF Typed, Members
  <2> QED
    BY <2>1, <1>2 DEF Typed, Entities
<1> QED
  BY <1>1, <1>2

InLoaderQueue(e) == {n \in Nodes : e.state[n] \in {"QueuedForLoad", "QueuedForUpdate"}}

AtWork(e) == {n \in Nodes : e.state[n] \in {"Loading", "Updating"}}

Loaded(e) == {n \in Nodes : Resident(e, n)}

\* The queues and the job are what the states of the nodes say.
Consistent(e) ==
  /\ IsInjective(e.loaderQueue) /\ IsInjective(e.replacementQueue)
  /\ IsInjective(e.activeNodes)
  /\ ToSet(e.loaderQueue) = InLoaderQueue(e)
  /\ ToSet(e.replacementQueue) = Loaded(e)
  /\ AtWork(e) = (IF e.activeJob = NoJob THEN {} ELSE {e.activeJob.node})
  /\ Loaded(e) \cap NoData = {}
  /\ \A n \in Nodes \ NoData : e.hasData[n]

\* No tile is to be loaded or being loaded.
NoLoads(e) == \A n \in Nodes : e.state[n] \notin {"QueuedForLoad", "Loading"}

\* No tile is rendered again.
Calm(e) == \A n \in Nodes : e.state[n] \notin {"QueuedForUpdate", "Updating"}

\* All tiles can be loaded at the same time.
Roomy(k) == Cardinality(Nodes \ NoData) <= k

\* k nodes are enough for what update() may ask for, in every view.
Fits(k) == \A v \in Views : Cardinality(Reach(v)) <= k

\* A limit under which no tile is unloaded that waits to be rendered again.
Apart(e) == Roomy(limit.loaded) \/ Calm(e)

\* What is shown is loaded, and no ground is shown twice.
Shown(e) ==
  /\ e.enabled = ToSet(e.activeNodes)
  /\ \A n \in e.enabled : Resident(e, n) /\ Above[n] \cap e.enabled = {}

\* Textures, and those that a job makes, are of version m, but for the nodes
\* of l, which a loader rendered.
Fresh(e, m, l) ==
  \A n \in Nodes :
    /\ Resident(e, n) /\ n \notin l =>
         e.image[n] = m \/ e.state[n] \in {"QueuedForUpdate", "Updating"}
    /\ e.state[n] = "Updating" => e.activeJob.image = m
    /\ e.state[n] = "Loading" /\ n \notin l /\ e.activeJob.renders = "map" =>
         e.activeJob.image = m

-----------------------------------------------------------------------------
(***************************************************************************)
(* The parts of the handlers                                               *)
(***************************************************************************)

\* A job is not NoJob.
LEMMA JobIsOne ==
  ASSUME NEW m \in Nat, NEW j \in Jobs(m)
  PROVE  j # NoJob
BY NoJobAssumption DEF Jobs

\* What is shown is the same.
ShowsSame(e, r) == r.activeNodes = e.activeNodes /\ r.enabled = e.enabled

\* The nodes are the first ones of the queue.
AreFirst(nodes, queue) ==
  \A n \in nodes : \E i \in 1 .. Cardinality(nodes) : i \in DOMAIN queue /\ queue[i] = n

\* The nodes have an entity, or are known to have no data.
AllThere(nodes, e) == \A n \in nodes : n \in Loaded(e) \/ ~e.hasData[n]

\* Nodes that have an entity are moved to the front, and the others queued.
LEMMA RequestKeeps ==
  ASSUME NEW m \in Nat, NEW e \in Entities(m), Consistent(e),
         NEW nodes \in Seq(Nodes), IsInjective(nodes),
         NEW l, NEW r, r = requestResidency(e, nodes)
  PROVE  /\ r \in Entities(m) /\ Consistent(r)
         /\ Calm(e) => Calm(r)
         /\ Fresh(e, m, l) => Fresh(r, m, l)
         /\ Loaded(r) = Loaded(e)
         /\ ShowsSame(e, r)
         /\ AreFirst(ToSet(nodes) \cap Loaded(e), r.replacementQueue)
         /\ NoLoads(r) => AllThere(ToSet(nodes), e)
<1> DEFINE resident == Select(nodes, {n \in Nodes : Resident(e, n)})
           load == Select(nodes, {n \in Nodes : \/ e.state[n] = "QueuedForLoad"
                                                \/ e.state[n] = "Skeleton" /\ e.hasData[n]})
           state == [n \in Nodes |-> IF n \in ToSet(load) THEN "QueuedForLoad" ELSE e.state[n]]
           front == ToFront(e.replacementQueue, resident)
           queue == ToFront(e.loaderQueue, load)
<1>0. Typed(e, m)
  BY TypedIs
<1>1. r = [e EXCEPT !.replacementQueue = front, !.loaderQueue = queue, !.state = state]
  BY DEF requestResidency
<1>2. /\ resident \in Seq(Nodes) /\ IsInjective(resident)
      /\ ToSet(resident) = ToSet(nodes) \cap Loaded(e)
  BY SelectIs DEF Loaded
<1>3. /\ load \in Seq(Nodes) /\ IsInjective(load) /\ ToSet(load) \subseteq Nodes
      /\ \A n \in ToSet(load) : e.state[n] \in {"QueuedForLoad", "Skeleton"}
  BY SelectIs
<1>a. \A n \in ToSet(nodes) \cap Nodes :
        e.state[n] = "Skeleton" /\ e.hasData[n] => n \in ToSet(load)
  BY SelectIs
<1>4. /\ front \in Seq(Nodes) /\ IsInjective(front)
      /\ ToSet(front) = Loaded(e)
      /\ Len(resident) <= Len(front)
      /\ \A n \in ToSet(resident) : \E i \in 1 .. Len(resident) : front[i] = n
  <2> DEFINE old == e.replacementQueue
  <2>1. old \in Seq(Nodes) /\ IsInjective(old) /\ ToSet(old) = Loaded(e)
    BY <1>0 DEF Typed, Consistent
  <2> HIDE DEF resident, old
  <2>2. ToSet(old) \cup ToSet(resident) = Loaded(e)
    BY <1>2, <2>1
  <2>3. /\ ToFront(old, resident) \in Seq(Nodes) /\ IsInjective(ToFront(old, resident))
        /\ ToSet(ToFront(old, resident)) = ToSet(old) \cup ToSet(resident)
        /\ Len(resident) <= Len(ToFront(old, resident))
        /\ \A n \in ToSet(resident) :
             \E i \in 1 .. Len(resident) : ToFront(old, resident)[i] = n
    BY <1>2, <2>1, ToFrontIs
  <2> QED
    BY <2>2, <2>3 DEF old
<1>5. /\ queue \in Seq(Nodes) /\ IsInjective(queue)
      /\ ToSet(queue) = InLoaderQueue(e) \cup ToSet(load)
  <2> DEFINE old == e.loaderQueue
  <2>1. old \in Seq(Nodes) /\ IsInjective(old) /\ ToSet(old) = InLoaderQueue(e)
    BY <1>0 DEF Typed, Consistent
  <2> HIDE DEF load, old
  <2>2. /\ ToFront(old, load) \in Seq(Nodes) /\ IsInjective(ToFront(old, load))
        /\ ToSet(ToFront(old, load)) = ToSet(old) \cup ToSet(load)
    BY <1>3, <2>1, ToFrontIs
  <2> QED
    BY <2>1, <2>2 DEF old
<1>6. state \in [Nodes -> Statuses]
  BY <1>0 DEF Typed, Statuses
<1> HIDE DEF resident, load, front, queue
<1>7. \A n \in Nodes : state[n] = IF n \in ToSet(load) THEN "QueuedForLoad" ELSE e.state[n]
  OBVIOUS
<1> HIDE DEF state
<1>8. /\ r.replacementQueue = front /\ r.loaderQueue = queue /\ r.state = state
      /\ r.hasData = e.hasData /\ r.image = e.image /\ r.activeNodes = e.activeNodes
      /\ r.enabled = e.enabled /\ r.activeJob = e.activeJob /\ r.needsUpdate = e.needsUpdate
      /\ r = [x \in Members |-> r[x]]
  BY <1>0, <1>1 DEF Typed, Members
<1>9. r \in Entities(m)
  <2>1. Typed(r, m)
    BY <1>0, <1>4, <1>5, <1>6, <1>8 DEF Typed
  <2> QED
    BY <2>1, TypedIs
<1>10. Loaded(r) = Loaded(e) /\ AtWork(r) = AtWork(e)
       /\ InLoaderQueue(r) = InLoaderQueue(e) \cup ToSet(load)
  BY <1>3, <1>7, <1>8 DEF Loaded, AtWork, InLoaderQueue, Resident, WithEntity
<1>11. Consistent(r)
  BY <1>4, <1>5, <1>8, <1>10 DEF Consistent
<1>12. Calm(e) => Calm(r)
  BY <1>7, <1>8 DEF Calm
<1>13. Fresh(e, m, l) => Fresh(r, m, l)
  BY <1>3, <1>7, <1>8 DEF Fresh, Resident, WithEntity
<1>14. ASSUME NEW n \in ToSet(nodes) \cap Loaded(e)
       PROVE  \E i \in 1 .. Cardinality(ToSet(nodes) \cap Loaded(e)) :
                i \in DOMAIN r.replacementQueue /\ r.replacementQueue[i] = n
  <2>1. Len(resident) = Cardinality(ToSet(resident))
    BY <1>2, InjectiveLength
  <2>2. PICK i \in 1 .. Len(resident) : front[i] = n
    BY <1>2, <1>4
  <2>3. i \in DOMAIN front
    BY <1>2, <1>4
  <2> QED
    BY <1>2, <1>8, <2>1, <2>2, <2>3
<1>15. AreFirst(ToSet(nodes) \cap Loaded(e), r.replacementQueue)
  BY <1>14 DEF AreFirst
<1>16. ASSUME NoLoads(r), NEW n \in ToSet(nodes) PROVE n \in Loaded(e) \/ ~e.hasData[n]
  <2>1. n \in Nodes /\ e.state[n] \in Statuses
    BY <1>0, ToSetFinite DEF Typed
  <2>2. n \notin ToSet(load) /\ e.state[n] \notin {"QueuedForLoad", "Loading"}
    BY <1>7, <1>8, <1>16, <2>1 DEF NoLoads
  <2>3. ~(e.state[n] = "Skeleton" /\ e.hasData[n])
    BY <1>a, <2>1, <2>2
  <2> QED
    BY <2>1, <2>2, <2>3 DEF Loaded, Resident, Statuses
<1> QED
  BY <1>8, <1>9, <1>10, <1>11, <1>12, <1>13, <1>15, <1>16 DEF ShowsSame, AllThere
\* The nodes at the end of the queue are unloaded; none of them waits to be
\* rendered again, as unloadChunk() asserts.
LEMMA UnloadKeeps ==
  ASSUME NEW m \in Nat, NEW e \in Entities(m), Consistent(e), Apart(e), limit.loaded \in Nat,
         NEW l, NEW r, r = unloadChunks(e)
  PROVE  /\ r \in Entities(m) /\ Consistent(r)
         /\ Calm(e) => Calm(r)
         /\ Fresh(e, m, l) => Fresh(r, m, l)
         /\ r.activeNodes = e.activeNodes
         /\ r.enabled = e.enabled \ (Loaded(e) \ Loaded(r))
         /\ \A i \in DOMAIN e.replacementQueue :
              i <= limit.loaded => e.replacementQueue[i] \in Loaded(r)
         /\ NoLoads(r) => NoLoads(e)
<1> DEFINE queue == e.replacementQueue
           k == IF Len(queue) > limit.loaded THEN limit.loaded ELSE Len(queue)
           kept == SubSeq(queue, 1, k)
           gone == ToSet(queue) \ ToSet(kept)
           state == [n \in Nodes |-> IF n \in gone THEN "Skeleton" ELSE e.state[n]]
<1>0. Typed(e, m)
  BY TypedIs
<1>1. r = [e EXCEPT !.replacementQueue = kept, !.enabled = e.enabled \ gone, !.state = state]
  BY DEF unloadChunks
<1>2. queue \in Seq(Nodes) /\ IsInjective(queue) /\ ToSet(queue) = Loaded(e)
  BY <1>0 DEF Typed, Consistent
<1> HIDE DEF queue
<1>3. /\ k \in Nat /\ k <= Len(queue) /\ DOMAIN queue = 1 .. Len(queue)
      /\ Len(queue) <= limit.loaded => k = Len(queue)
      /\ \A i \in 1 .. Len(queue) : i <= limit.loaded => i \in 1 .. k
  BY <1>2
<1> HIDE DEF k
<1>4. /\ kept \in Seq(Nodes) /\ IsInjective(kept) /\ ToSet(kept) \subseteq ToSet(queue)
      /\ ToSet(kept) = {queue[i] : i \in 1 .. k}
  BY <1>2, <1>3, PrefixIs, PrefixSet
<1> HIDE DEF kept
<1>5. \A n \in gone : n \in Nodes /\ e.state[n] = "Loaded"
  <2>1. CASE Roomy(limit.loaded)
    <3>1. IsFiniteSet(Nodes \ NoData)
      BY NodesAssumption, FS_Subset
    <3>2. ToSet(queue) \subseteq Nodes \ NoData
      BY <1>2 DEF Consistent, Loaded
    <3>3. Cardinality(ToSet(queue)) <= Cardinality(Nodes \ NoData)
      BY <3>1, <3>2, FS_Subset
    <3>4. Cardinality(ToSet(queue)) = Len(queue) /\ Len(queue) \in Nat
      BY <1>2, InjectiveLength
    <3>5. Cardinality(Nodes \ NoData) \in Nat
      BY <3>1, FS_CardinalityType
    <3>6. Len(queue) <= limit.loaded
      BY <2>1, <3>3, <3>4, <3>5 DEF Roomy
    <3>7. k = Len(queue)
      BY <1>3, <3>6
    <3>8. ToSet(kept) = ToSet(queue)
      BY <1>3, <1>4, <3>7 DEF ToSet
    <3> QED
      BY <3>8
  <2>2. CASE Calm(e)
    <3>1. gone \subseteq Loaded(e)
      BY <1>2
    <3> QED
      BY <2>2, <3>1 DEF Calm, Loaded, Resident, WithEntity
  <2> QED
    BY <2>1, <2>2 DEF Apart
<1>6. gone \subseteq Loaded(e) /\ ToSet(kept) = Loaded(e) \ gone
  BY <1>2, <1>4
<1> HIDE DEF gone
<1>7. state \in [Nodes -> Statuses]
      /\ \A n \in Nodes : state[n] = IF n \in gone THEN "Skeleton" ELSE e.state[n]
  BY <1>0 DEF Typed, Statuses
<1> HIDE DEF state
<1>8. /\ r.replacementQueue = kept /\ r.enabled = e.enabled \ gone /\ r.state = state
      /\ r.hasData = e.hasData /\ r.image = e.image /\ r.loaderQueue = e.loaderQueue
      /\ r.activeNodes = e.activeNodes
      /\ r.activeJob = e.activeJob /\ r.needsUpdate = e.needsUpdate
      /\ r = [x \in Members |-> r[x]]
  BY <1>0, <1>1 DEF Typed, Members
<1>9. r \in Entities(m)
  <2>1. Typed(r, m)
    BY <1>0, <1>4, <1>7, <1>8 DEF Typed
  <2> QED
    BY <2>1, TypedIs
<1>10. Loaded(r) = Loaded(e) \ gone /\ AtWork(r) = AtWork(e)
       /\ InLoaderQueue(r) = InLoaderQueue(e)
  BY <1>5, <1>7, <1>8 DEF Loaded, AtWork, InLoaderQueue, Resident, WithEntity
<1>11. Consistent(r)
  BY <1>4, <1>6, <1>8, <1>10 DEF Consistent
<1>12. Calm(e) => Calm(r)
  BY <1>7, <1>8 DEF Calm
<1>13. Fresh(e, m, l) => Fresh(r, m, l)
  BY <1>5, <1>7, <1>8 DEF Fresh, Resident, WithEntity
<1>14. r.enabled = e.enabled \ (Loaded(e) \ Loaded(r))
  BY <1>6, <1>8, <1>10
<1>15. ASSUME NEW i \in DOMAIN queue, i <= limit.loaded
       PROVE  queue[i] \in Loaded(r)
  <2>1. i \in 1 .. k
    BY <1>3, <1>15
  <2> QED
    BY <2>1, <1>4, <1>6, <1>10
<1>16. NoLoads(r) => NoLoads(e)
  BY <1>5, <1>7, <1>8 DEF NoLoads
<1> QED
  BY <1>8, <1>9, <1>11, <1>12, <1>13, <1>14, <1>15, <1>16 DEF queue

\* The node is going to have a texture of version m.
Anew(e, n, m) ==
  \/ e.state[n] = "QueuedForUpdate"
  \/ e.state[n] = "Updating" /\ e.activeJob.image = m

\* A loader that has started since has not come to the texture.
LoadingIsOlder(e, r, n) ==
  r.state[n] = "Loading" =>
    \/ e.state[n] = "Loading" /\ r.activeJob = e.activeJob
    \/ r.activeJob.renders = "heights"

\* The first node of the queue is no longer in it, and is the one at work.
LEMMA StartJobKeeps ==
  ASSUME NEW m \in Nat, NEW e \in Entities(m), Consistent(e),
         NEW l, NEW r, r = startJob(e, m)
  PROVE  /\ r \in Entities(m) /\ Consistent(r)
         /\ Calm(e) => Calm(r)
         /\ Fresh(e, m, l) => Fresh(r, m, l)
         /\ Loaded(r) = Loaded(e)
         /\ r.activeNodes = e.activeNodes /\ r.enabled = e.enabled
         /\ \A n \in Nodes : Anew(e, n, m) => Anew(r, n, m)
         /\ \A n \in Nodes : LoadingIsOlder(e, r, n)
         /\ NoLoads(r) => NoLoads(e)
         /\ r.needsUpdate = e.needsUpdate
<1>0. Typed(e, m)
  BY TypedIs
<1>1. CASE e.activeJob # NoJob \/ e.loaderQueue = <<>>
  <2>1. r = e
    BY <1>1 DEF startJob
  <2>2. e.activeJob = NoJob => AtWork(e) = {}
    BY DEF Consistent
  <2> QED
    BY <2>1 DEF LoadingIsOlder
<1>2. CASE ~(e.activeJob # NoJob \/ e.loaderQueue = <<>>)
  <2> DEFINE queue == e.loaderQueue
             n == Head(queue)
             load == e.state[n] = "QueuedForLoad"
             state == [e.state EXCEPT ![n] = IF load THEN "Loading" ELSE "Updating"]
             job == [node |-> n, renders |-> IF load THEN "heights" ELSE "map",
                     image |-> IF load THEN 0 ELSE m]
             rest == Tail(queue)
  <2>1. r = [e EXCEPT !.loaderQueue = rest, !.state = state, !.activeJob = job]
    BY <1>2, <1>0 DEF startJob, Typed
  <2>2. queue \in Seq(Nodes) /\ queue # <<>> /\ IsInjective(queue)
        /\ ToSet(queue) = InLoaderQueue(e)
    BY <1>0, <1>2 DEF Typed, Consistent
  <2> HIDE DEF queue
  <2>3. /\ rest \in Seq(Nodes) /\ n \in Nodes /\ n \in InLoaderQueue(e)
        /\ IsInjective(rest) /\ ToSet(rest) = InLoaderQueue(e) \ {n}
    BY <2>2, TailSet
  <2> HIDE DEF rest, n
  <2>4. job \in Jobs(m) /\ job.node = n /\ job # NoJob
        /\ job.renders = (IF load THEN "heights" ELSE "map")
        /\ job.image = (IF load THEN 0 ELSE m)
    <3>1. job \in Jobs(m)
      BY <2>3 DEF Jobs
    <3>2. job # NoJob
      BY <3>1, JobIsOne
    <3> QED
      BY <3>1, <3>2
  <2> HIDE DEF job
  <2>5. /\ state \in [Nodes -> Statuses]
        /\ \A x \in Nodes : x # n => state[x] = e.state[x]
        /\ load => state[n] = "Loading"
        /\ ~load => state[n] = "Updating" /\ e.state[n] = "QueuedForUpdate"
    BY <2>3, <1>0 DEF Typed, Statuses, WithEntity, InLoaderQueue
  <2> HIDE DEF state
  <2>6. /\ r.loaderQueue = rest /\ r.state = state /\ r.activeJob = job
        /\ r.hasData = e.hasData /\ r.image = e.image /\ r.activeNodes = e.activeNodes
        /\ r.replacementQueue = e.replacementQueue
        /\ r.enabled = e.enabled /\ r.needsUpdate = e.needsUpdate
        /\ r = [x \in Members |-> r[x]]
    BY <1>0, <2>1 DEF Typed, Members
  <2>7. r \in Entities(m)
    <3>1. Typed(r, m)
      BY <1>0, <2>3, <2>4, <2>5, <2>6 DEF Typed
    <3> QED
      BY <3>1, TypedIs
  <2>8. AtWork(e) = {}
    BY <1>2 DEF Consistent
  <2>9. /\ Loaded(r) = Loaded(e) /\ AtWork(r) = {n}
        /\ InLoaderQueue(r) = InLoaderQueue(e) \ {n}
    BY <2>3, <2>5, <2>6, <2>8 DEF Loaded, AtWork, InLoaderQueue, Resident, WithEntity
  <2>10. Consistent(r)
    BY <2>3, <2>4, <2>6, <2>9 DEF Consistent
  <2>11. Calm(e) => Calm(r)
    BY <2>3, <2>5, <2>6 DEF Calm
  <2>12. Fresh(e, m, l) => Fresh(r, m, l)
    <3>1. \A x \in Nodes : e.state[x] \notin {"Loading", "Updating"}
      BY <2>8 DEF AtWork
    <3> QED
      BY <2>3, <2>4, <2>5, <2>6, <3>1 DEF Fresh, Resident, WithEntity
  <2>13. \A x \in Nodes : r.state[x] = "Loading" => r.activeJob.renders = "heights"
    BY <2>3, <2>4, <2>5, <2>6, <2>8 DEF AtWork
  <2>14. \A x \in Nodes : Anew(e, x, m) => Anew(r, x, m)
    BY <2>3, <2>4, <2>5, <2>6, <2>8 DEF AtWork, Anew, InLoaderQueue
  <2>15. NoLoads(r) => NoLoads(e)
    BY <2>3, <2>5, <2>6 DEF NoLoads
  <2> QED
    BY <2>6, <2>7, <2>9, <2>10, <2>11, <2>12, <2>13, <2>14, <2>15 DEF LoadingIsOlder
<1> QED
  BY <1>1, <1>2

\* The node of the job is no longer at work.
LEMMA CancelKeeps ==
  ASSUME NEW m \in Nat, NEW e \in Entities(m), Consistent(e), e.activeJob # NoJob,
         NEW r, r = cancelActiveJob(e)
  PROVE  /\ r \in Entities(m) /\ Consistent(r)
         /\ r.activeJob = NoJob
         /\ Loaded(r) = Loaded(e)
         /\ r.activeNodes = e.activeNodes /\ r.enabled = e.enabled
         /\ r.loaderQueue = e.loaderQueue /\ r.replacementQueue = e.replacementQueue
         /\ r.image = e.image
         /\ e.activeJob.node \in Nodes
         /\ \A n \in Nodes : n # e.activeJob.node => r.state[n] = e.state[n]
         /\ r.state[e.activeJob.node] \in {"Skeleton", "Loaded"}
<1> DEFINE n == e.activeJob.node
           state == [e.state EXCEPT ![n] = IF e.state[n] = "Loading" THEN "Skeleton" ELSE "Loaded"]
<1>0. Typed(e, m)
  BY TypedIs
<1>1. n \in Nodes /\ AtWork(e) = {n}
  BY <1>0 DEF Typed, Jobs, Consistent
<1>2. r = [e EXCEPT !.activeJob = NoJob, !.state = state]
  BY <1>0, <1>1 DEF cancelActiveJob, Typed
<1> HIDE DEF n
<1>3. /\ state \in [Nodes -> Statuses]
      /\ \A x \in Nodes : x # n => state[x] = e.state[x]
      /\ \/ e.state[n] = "Loading" /\ state[n] = "Skeleton"
         \/ e.state[n] = "Updating" /\ state[n] = "Loaded"
  BY <1>0, <1>1 DEF Typed, Statuses, WithEntity, AtWork
<1> HIDE DEF state
<1>4. /\ r.activeJob = NoJob /\ r.state = state /\ r.loaderQueue = e.loaderQueue
      /\ r.hasData = e.hasData /\ r.image = e.image /\ r.activeNodes = e.activeNodes
      /\ r.replacementQueue = e.replacementQueue
      /\ r.enabled = e.enabled /\ r.needsUpdate = e.needsUpdate
      /\ r = [x \in Members |-> r[x]]
  BY <1>0, <1>2 DEF Typed, Members
<1>5. r \in Entities(m)
  <2>1. Typed(r, m)
    BY <1>0, <1>3, <1>4 DEF Typed
  <2> QED
    BY <2>1, TypedIs
<1>6. /\ Loaded(r) = Loaded(e) /\ AtWork(r) = {}
      /\ InLoaderQueue(r) = InLoaderQueue(e)
  BY <1>1, <1>3, <1>4 DEF Loaded, AtWork, InLoaderQueue, Resident, WithEntity
<1>7. Consistent(r)
  BY <1>4, <1>6 DEF Consistent
<1> QED
  BY <1>1, <1>3, <1>4, <1>5, <1>6, <1>7 DEF n
\* Nodes with an entity are queued for an update, those at work too.
LEMMA UpdateNodesKeeps ==
  ASSUME NEW m \in Nat, NEW e \in Entities(m), Consistent(e),
         NEW nodes \in Seq(Nodes), IsInjective(nodes), ToSet(nodes) \subseteq Loaded(e),
         NEW r, r = updateNodes(e, nodes, m)
  PROVE  /\ r \in Entities(m) /\ Consistent(r)
         /\ Loaded(r) = Loaded(e)
         /\ r.activeNodes = e.activeNodes /\ r.enabled = e.enabled
         /\ \A n \in Nodes : n \in ToSet(nodes) \/ Anew(e, n, m) => Anew(r, n, m)
         /\ \A n \in Nodes : LoadingIsOlder(e, r, n)
<1> DEFINE updating == e.activeJob # NoJob /\ e.activeJob.node \in ToSet(nodes)
           kept == IF updating THEN cancelActiveJob(e) ELSE e
           queue == Without(kept.loaderQueue, ToSet(nodes)) \o nodes
           state == [n \in Nodes |-> IF n \in ToSet(nodes)
                                       THEN "QueuedForUpdate" ELSE kept.state[n]]
           queued == [kept EXCEPT !.loaderQueue = queue, !.state = state]
<1>1. r = startJob(queued, m)
  BY DEF updateNodes
<1>2. ToSet(nodes) \subseteq Nodes
  BY DEF Loaded
<1>3. /\ kept \in Entities(m) /\ Consistent(kept)
      /\ Loaded(kept) = Loaded(e)
      /\ kept.activeNodes = e.activeNodes /\ kept.enabled = e.enabled
      /\ \A n \in Nodes \ ToSet(nodes) : kept.state[n] = e.state[n]
      /\ \/ kept.activeJob = e.activeJob /\ (e.activeJob # NoJob => e.activeJob.node \notin ToSet(nodes))
         \/ e.activeJob # NoJob /\ e.activeJob.node \in ToSet(nodes) /\ kept.activeJob = NoJob
  <2>1. CASE updating
    <3>1. kept = cancelActiveJob(e)
      BY <2>1
    <3> HIDE DEF kept
    <3>2. /\ kept \in Entities(m) /\ Consistent(kept)
          /\ kept.activeJob = NoJob
          /\ Loaded(kept) = Loaded(e)
          /\ kept.activeNodes = e.activeNodes /\ kept.enabled = e.enabled
          /\ \A n \in Nodes : n # e.activeJob.node => kept.state[n] = e.state[n]
      BY <2>1, <3>1, CancelKeeps
    <3> QED
      BY <2>1, <3>2
  <2>2. CASE ~updating
    <3>1. kept = e
      BY <2>2
    <3> HIDE DEF kept
    <3> QED
      BY <2>2, <3>1
  <2> QED
    BY <2>1, <2>2
<1> HIDE DEF kept
<1>4. Typed(kept, m)
  BY <1>3, TypedIs
<1>5. /\ \A n \in ToSet(nodes) : kept.state[n] \in {"Loaded", "QueuedForUpdate"}
      /\ AtWork(kept) \cap ToSet(nodes) = {}
  <2>1. AtWork(kept) \cap ToSet(nodes) = {}
    BY <1>3 DEF Consistent
  <2> QED
    BY <1>2, <1>3, <2>1 DEF AtWork, Loaded, Resident, WithEntity
<1>6. queue \in Seq(Nodes) /\ IsInjective(queue)
      /\ ToSet(queue) = InLoaderQueue(kept) \cup ToSet(nodes)
  <2> DEFINE old == kept.loaderQueue
             rest == Without(old, ToSet(nodes))
  <2>1. old \in Seq(Nodes) /\ IsInjective(old) /\ ToSet(old) = InLoaderQueue(kept)
    BY <1>3, <1>4 DEF Typed, Consistent
  <2> HIDE DEF old
  <2>2. /\ rest \in Seq(Nodes) /\ IsInjective(rest)
        /\ ToSet(rest) = InLoaderQueue(kept) \ ToSet(nodes)
    BY <2>1, SelectIs DEF Without, InLoaderQueue
  <2> HIDE DEF rest
  <2>3. /\ rest \o nodes \in Seq(Nodes) /\ IsInjective(rest \o nodes)
        /\ ToSet(rest \o nodes) = ToSet(rest) \cup ToSet(nodes)
    <3>1. ToSet(rest) \cap ToSet(nodes) = {}
      BY <2>2
    <3> QED
      BY <2>2, <3>1, ConcatSet
  <2> QED
    BY <2>2, <2>3 DEF rest, old
<1> HIDE DEF queue
<1>7. /\ state \in [Nodes -> Statuses]
      /\ \A n \in ToSet(nodes) : state[n] = "QueuedForUpdate"
      /\ \A n \in Nodes \ ToSet(nodes) : state[n] = kept.state[n]
  BY <1>2, <1>4 DEF Typed, Statuses, WithEntity
<1> HIDE DEF state
<1>8. /\ queued.loaderQueue = queue /\ queued.state = state
      /\ queued.hasData = kept.hasData /\ queued.image = kept.image
      /\ queued.activeNodes = kept.activeNodes
      /\ queued.replacementQueue = kept.replacementQueue /\ queued.activeJob = kept.activeJob
      /\ queued.enabled = kept.enabled /\ queued.needsUpdate = kept.needsUpdate
      /\ queued = [x \in Members |-> queued[x]]
  BY <1>4 DEF Typed, Members
<1> HIDE DEF queued
<1>9. queued \in Entities(m)
  <2>1. Typed(queued, m)
    BY <1>4, <1>6, <1>7, <1>8 DEF Typed
  <2> QED
    BY <2>1, TypedIs
<1>10. /\ Loaded(queued) = Loaded(e)
       /\ AtWork(queued) = AtWork(kept)
       /\ InLoaderQueue(queued) = InLoaderQueue(kept) \cup ToSet(nodes)
  <2>1. Loaded(queued) = Loaded(kept)
    BY <1>2, <1>5, <1>7, <1>8 DEF Loaded, Resident, WithEntity
  <2>2. AtWork(queued) = AtWork(kept)
    BY <1>2, <1>5, <1>7, <1>8 DEF AtWork
  <2>3. InLoaderQueue(queued) = InLoaderQueue(kept) \cup ToSet(nodes)
    BY <1>2, <1>7, <1>8 DEF InLoaderQueue
  <2> QED
    BY <1>3, <2>1, <2>2, <2>3
<1>11. Consistent(queued)
  BY <1>3, <1>6, <1>8, <1>10 DEF Consistent
<1>12. ASSUME NEW n \in Nodes, n \in ToSet(nodes) \/ Anew(e, n, m) PROVE Anew(queued, n, m)
  <2>1. CASE n \in ToSet(nodes)
    BY <2>1, <1>7, <1>8 DEF Anew
  <2>2. CASE n \notin ToSet(nodes) /\ e.state[n] = "QueuedForUpdate"
    BY <2>2, <1>3, <1>7, <1>8 DEF Anew
  <2>3. CASE n \notin ToSet(nodes) /\ e.state[n] = "Updating" /\ e.activeJob.image = m
    <3>1. queued.state[n] = "Updating" /\ n \in AtWork(e)
      BY <2>3, <1>3, <1>7, <1>8 DEF AtWork
    <3>2. e.activeJob # NoJob /\ n = e.activeJob.node
      BY <3>1 DEF Consistent
    <3>3. queued.activeJob = e.activeJob
      BY <2>3, <3>2, <1>3, <1>8
    <3> QED
      BY <2>3, <3>1, <3>3 DEF Anew
  <2> QED
    BY <1>12, <2>1, <2>2, <2>3 DEF Anew
<1>13. ASSUME NEW n \in Nodes, queued.state[n] = "Loading"
       PROVE  e.state[n] = "Loading" /\ queued.activeJob = e.activeJob
  <2>1. n \notin ToSet(nodes) /\ e.state[n] = "Loading" /\ n \in AtWork(e)
    BY <1>13, <1>3, <1>7, <1>8 DEF AtWork
  <2>2. e.activeJob # NoJob /\ n = e.activeJob.node
    BY <2>1 DEF Consistent
  <2> QED
    BY <2>1, <2>2, <1>3, <1>8
<1>14. /\ r \in Entities(m) /\ Consistent(r)
       /\ Loaded(r) = Loaded(queued)
       /\ r.activeNodes = queued.activeNodes /\ r.enabled = queued.enabled
       /\ \A n \in Nodes : Anew(queued, n, m) => Anew(r, n, m)
       /\ \A n \in Nodes : LoadingIsOlder(queued, r, n)
  BY <1>1, <1>9, <1>11, StartJobKeeps
<1>15. \A n \in Nodes : LoadingIsOlder(e, r, n)
  BY <1>13, <1>14 DEF LoadingIsOlder
<1> QED
  BY <1>3, <1>8, <1>10, <1>12, <1>14, <1>15
-----------------------------------------------------------------------------
(***************************************************************************)
(* update()                                                                *)
(***************************************************************************)

\* A visited node has been reached through nodes whose children all had
\* entities; so have the children that are asked for.
LEMMA RequestedIsReached ==
  ASSUME NEW m \in Nat, NEW e \in Entities(m), Loaded(e) \cap NoData = {},
         NEW v \in [culled : SUBSET Nodes, fine : SUBSET Nodes],
         NEW opened, opened = Opened(e, v),
         NEW visited, visited = Visited(v, opened),
         NEW req, req = Requested(e, v, visited, opened),
         NEW after, after = Rendered(e, visited, opened)
  PROVE  /\ req \in Seq(Nodes) /\ IsInjective(req)
         /\ after \in Seq(Nodes) /\ IsInjective(after)
         /\ ToSet(after) \subseteq ToSet(req) \cap Loaded(e)
         /\ ToSet(req) \cap Loaded(e) \subseteq Reach(v)
         /\ \A n \in ToSet(after) : Above[n] \cap ToSet(after) = {}
<1> DEFINE asking == {n \in visited \ opened : TooCoarse(e, v, n)}
           asked == visited \cup UNION {ToSet(Children[n]) : n \in asking}
<1>0. descendants \in Seq(Nodes) /\ IsInjective(descendants) /\ ToSet(descendants) = Nodes
  BY TreeAssumption
<1>1. /\ opened \subseteq {n \in Nodes : n \notin v.culled \cup v.fine}
      /\ visited \subseteq {n \in Nodes \ v.culled : Above[n] \subseteq opened}
  BY DEF Opened, Visited, TooCoarse
<1>2. asking \subseteq {n \in visited : n \notin v.culled \cup v.fine}
  BY <1>1 DEF TooCoarse
<1>3. asked \subseteq Nodes
  <2>1. \A n \in Nodes : ToSet(Children[n]) \subseteq Nodes
    BY NodesAssumption, ToSetFinite
  <2> QED
    BY <1>1, <1>2, <2>1
<1>4. /\ req \in Seq(Nodes) /\ IsInjective(req) /\ ToSet(req) = asked
  <2>1. req = Select(descendants, asked)
    BY DEF Requested
  <2> HIDE DEF asked
  <2>2. ToSet(descendants) \cap asked = asked
    BY <1>0, <1>3
  <2>3. /\ Select(descendants, asked) \in Seq(Nodes)
        /\ ToSet(Select(descendants, asked)) = ToSet(descendants) \cap asked
        /\ IsInjective(Select(descendants, asked))
    BY <1>0, SelectIs
  <2> QED
    BY <2>1, <2>2, <2>3
<1>5. /\ after \in Seq(Nodes) /\ IsInjective(after)
      /\ ToSet(after) = {n \in visited \ opened : Resident(e, n)}
  <2> DEFINE front == {n \in visited \ opened : Resident(e, n)}
  <2>1. after = Select(descendants, front)
    BY DEF Rendered
  <2>2. ToSet(descendants) \cap front = front
    BY <1>0, <1>1
  <2> HIDE DEF front
  <2>3. /\ Select(descendants, front) \in Seq(Nodes)
        /\ ToSet(Select(descendants, front)) = ToSet(descendants) \cap front
        /\ IsInjective(Select(descendants, front))
    BY <1>0, SelectIs
  <2> QED
    BY <2>1, <2>2, <2>3 DEF front
<1>6. ToSet(after) \subseteq ToSet(req) \cap Loaded(e)
  BY <1>1, <1>4, <1>5 DEF Loaded
<1>7. ASSUME NEW n \in asked \cap Loaded(e) PROVE n \in Reach(v)
  <2>1. n \in Nodes \ NoData
    BY DEF Loaded
  <2>2. CASE n \in visited
    <3>1. Above[n] \subseteq opened
      BY <2>2, <1>1
    <3> QED
      BY <2>1, <3>1, <1>1 DEF Reach
  <2>3. CASE n \notin visited
    <3>1. PICK p \in asking : n \in ToSet(Children[p])
      BY <2>3
    <3>2. p \in Nodes /\ p \notin v.culled \cup v.fine /\ Above[p] \subseteq opened
      BY <3>1, <1>1, <1>2
    <3>3. Above[n] = Above[p] \cup {p}
      BY <3>1, <3>2, TreeAssumption
    <3> QED
      BY <2>1, <3>2, <3>3, <1>1 DEF Reach
  <2> QED
    BY <2>2, <2>3
<1>8. \A n \in ToSet(after) : Above[n] \cap ToSet(after) = {}
  BY <1>1, <1>5
<1> HIDE DEF asked
<1> QED
  BY <1>4, <1>5, <1>6, <1>7, <1>8

\* When all that is asked for is there, the view shows all that it is to show:
\* what is above such a node has been opened, from the root on.
LEMMA CompleteIsWanted ==
  ASSUME NEW m \in Nat, NEW e \in Entities(m), Consistent(e),
         NEW v \in [culled : SUBSET Nodes, fine : SUBSET Nodes],
         NEW opened, opened = Opened(e, v),
         NEW visited, visited = Visited(v, opened),
         NEW req, req = Requested(e, v, visited, opened),
         NEW after, after = Rendered(e, visited, opened),
         AllThere(ToSet(req), e)
  PROVE  ToSet(after) = WantedIn(v)
<1> DEFINE asking == {n \in visited \ opened : TooCoarse(e, v, n)}
           asked == visited \cup UNION {ToSet(Children[n]) : n \in asking}
<1>0. descendants \in Seq(Nodes) /\ IsInjective(descendants) /\ ToSet(descendants) = Nodes
  BY TreeAssumption
<1>1. /\ opened \subseteq Nodes /\ visited \subseteq Nodes
      /\ visited = {n \in Nodes \ v.culled : Above[n] \subseteq opened}
      /\ \A n \in Nodes : n \in opened <=>
           n \notin v.culled \cup v.fine /\ n \in Loaded(e) /\ allChildChunksResident(e, n)
  BY DEF Opened, Visited, TooCoarse, Loaded
<1>2. asked \subseteq Nodes
  <2>1. \A n \in Nodes : ToSet(Children[n]) \subseteq Nodes
    BY NodesAssumption, ToSetFinite
  <2> QED
    BY <1>1, <2>1
<1>3. ToSet(req) = asked
  <2>1. req = Select(descendants, asked)
    BY DEF Requested
  <2> HIDE DEF asked
  <2>2. ToSet(descendants) \cap asked = asked
    BY <1>0, <1>2
  <2>3. ToSet(Select(descendants, asked)) = ToSet(descendants) \cap asked
    BY <1>0, SelectIs
  <2> QED
    BY <2>1, <2>2, <2>3
<1>4. ToSet(after) = {n \in visited \ opened : Resident(e, n)}
  <2> DEFINE front == {n \in visited \ opened : Resident(e, n)}
  <2>1. after = Select(descendants, front)
    BY DEF Rendered
  <2>2. ToSet(descendants) \cap front = front
    BY <1>0, <1>1
  <2> HIDE DEF front
  <2>3. ToSet(Select(descendants, front)) = ToSet(descendants) \cap front
    BY <1>0, SelectIs
  <2> QED
    BY <2>1, <2>2, <2>3 DEF front
<1>5. \A n \in asked : n \in Loaded(e) \/ ~e.hasData[n]
  <2> HIDE DEF asked
  <2> QED
    BY <1>3 DEF AllThere
\* A visited node that is not opened has an acceptable error, or no children.
<1>6. ASSUME NEW n \in visited, n \notin opened, n \in Loaded(e)
      PROVE  n \in v.fine \/ Children[n] = <<>>
  <2> SUFFICES ASSUME n \notin v.fine, Children[n] # <<>> PROVE FALSE
    OBVIOUS
  <2>1. n \in asking
    BY <1>6 DEF TooCoarse, Loaded
  <2>2. \A c \in ToSet(Children[n]) : c \in Loaded(e) \/ ~e.hasData[c]
    BY <1>5, <2>1
  <2>3. allChildChunksResident(e, n)
    BY <2>2 DEF allChildChunksResident, Loaded
  <2>4. n \in Nodes /\ n \notin v.culled
    BY <1>1, <1>6
  <2> QED
    BY <1>1, <1>6, <2>3, <2>4
<1>7. \A n \in Loaded(e) : n \in Nodes \ NoData
  BY DEF Consistent, Loaded
<1>8. ASSUME NEW n \in ToSet(after) PROVE n \in WantedIn(v)
  <2>1. n \in visited /\ n \notin opened /\ n \in Loaded(e) /\ n \in Nodes /\ n \notin v.culled
    BY <1>1, <1>4, <1>8 DEF Loaded
  <2>2. n \in v.fine \/ Children[n] = <<>>
    BY <1>6, <2>1
  <2>3. \A p \in Above[n] : p \notin v.culled \cup v.fine \cup NoData
    BY <1>1, <1>7, <2>1
  <2> QED
    BY <1>7, <2>1, <2>2, <2>3 DEF WantedIn
<1>9. ASSUME NEW n \in WantedIn(v) PROVE n \in ToSet(after)
  <2>1. /\ n \in Nodes /\ n \notin v.culled /\ n \notin NoData
        /\ n \in v.fine \/ Children[n] = <<>>
        /\ \A p \in Above[n] : p \in Nodes /\ p \notin v.culled \cup v.fine \cup NoData
    BY <1>9 DEF WantedIn, Above
  \* Of the nodes above that are not opened, one has the fewest above it.
  <2>2. Above[n] \subseteq opened
    <3> SUFFICES ASSUME Above[n] \ opened # {} PROVE FALSE
      OBVIOUS
    <3> DEFINE Depths == {Cardinality(Above[p]) : p \in Above[n] \ opened}
    <3>1. ASSUME NEW p \in Nodes PROVE IsFiniteSet(Above[p]) /\ Cardinality(Above[p]) \in Nat
      <4>1. Above[p] \subseteq Nodes
        BY DEF Above
      <4> QED
        BY <4>1, NodesAssumption, FS_Subset, FS_CardinalityType
    <3>2. Depths \in SUBSET Nat /\ Depths # {}
      BY <2>1, <3>1
    <3>3. PICK d \in Depths : \A x \in Depths : d <= x
      BY <3>2, LeastElement
    <3>4. PICK p \in Above[n] \ opened : Cardinality(Above[p]) = d
      BY <3>3
    <3>5. /\ p \in Nodes /\ p \notin v.culled \cup v.fine \cup NoData
          /\ Above[p] \subseteq Above[n] /\ p \notin Above[p] /\ Children[p] # <<>>
      BY <2>1, <3>4, TreeAssumption
    <3>6. ASSUME NEW q \in Above[p] PROVE q \in opened
      <4> SUFFICES ASSUME q \notin opened PROVE FALSE
        OBVIOUS
      <4>1. q \in Above[n] \ opened /\ q \in Nodes
        BY <2>1, <3>5, <3>6
      <4>2. Above[q] \subseteq Above[p] /\ q \notin Above[q]
        BY <3>5, <3>6, TreeAssumption
      <4>3. Cardinality(Above[q]) < Cardinality(Above[p])
        <5>1. IsFiniteSet(Above[p])
          BY <3>1, <3>5
        <5>2. Cardinality(Above[q]) <= Cardinality(Above[p])
          BY <4>2, <5>1, FS_Subset
        <5>3. Cardinality(Above[q]) # Cardinality(Above[p])
          BY <4>2, <5>1, <3>6, FS_Subset
        <5>4. Cardinality(Above[q]) \in Nat /\ Cardinality(Above[p]) \in Nat
          BY <3>1, <3>5, <4>1
        <5> QED
          BY <5>2, <5>3, <5>4
      <4>4. d <= Cardinality(Above[q])
        BY <3>3, <4>1
      <4>5. Cardinality(Above[q]) \in Nat /\ Cardinality(Above[p]) \in Nat
        BY <3>1, <3>5, <4>1
      <4> QED
        BY <3>4, <4>3, <4>4, <4>5
    <3>7. p \in visited
      BY <1>1, <3>5, <3>6
    <3>8. p \in Loaded(e)
      <4>1. p \in Loaded(e) \/ ~e.hasData[p]
        BY <1>5, <3>7
      <4>2. e.hasData[p]
        BY <3>5 DEF Consistent
      <4> QED
        BY <4>1, <4>2
    <3> QED
      BY <1>6, <3>4, <3>5, <3>7, <3>8
  <2>3. n \in visited
    BY <1>1, <2>1, <2>2
  <2>4. n \in Loaded(e)
    <3>1. n \in Loaded(e) \/ ~e.hasData[n]
      BY <1>5, <2>3
    <3>2. e.hasData[n]
      BY <2>1 DEF Consistent
    <3> QED
      BY <3>1, <3>2
  <2>5. n \notin opened
    BY <1>1, <2>1 DEF allChildChunksResident
  <2> QED
    BY <1>4, <2>3, <2>4, <2>5 DEF Loaded
<1> QED
  BY <1>8, <1>9

\* Other nodes are shown.
Showing(e, after, enabled) == [e EXCEPT !.activeNodes = after, !.enabled = enabled]

\* Of what is shown, and of the updates that are due, no other part of the
\* entity speaks.
LEMMA ShowingKeeps ==
  ASSUME NEW m \in Nat, NEW e \in Entities(m), Consistent(e),
         NEW after \in Seq(Nodes), IsInjective(after), NEW enabled \in SUBSET Nodes,
         NEW l, NEW r, r = Showing(e, after, enabled)
  PROVE  /\ r \in Entities(m) /\ Consistent(r)
         /\ Calm(e) => Calm(r)
         /\ Fresh(e, m, l) => Fresh(r, m, l)
         /\ Loaded(r) = Loaded(e)
         /\ r.activeNodes = after /\ r.enabled = enabled
         /\ r.replacementQueue = e.replacementQueue
         /\ NoLoads(r) => NoLoads(e)
<1>0. Typed(e, m)
  BY TypedIs
<1>1. /\ r.activeNodes = after /\ r.enabled = enabled
      /\ r.state = e.state /\ r.hasData = e.hasData /\ r.image = e.image
      /\ r.loaderQueue = e.loaderQueue /\ r.replacementQueue = e.replacementQueue
      /\ r.activeJob = e.activeJob /\ r.needsUpdate = e.needsUpdate
      /\ r = [x \in Members |-> r[x]]
  BY <1>0 DEF Typed, Members, Showing
<1>2. r \in Entities(m)
  <2>1. Typed(r, m)
    BY <1>0, <1>1 DEF Typed
  <2> QED
    BY <2>1, TypedIs
<1>3. /\ Loaded(r) = Loaded(e) /\ AtWork(r) = AtWork(e)
      /\ InLoaderQueue(r) = InLoaderQueue(e)
  BY <1>1 DEF Loaded, AtWork, InLoaderQueue, Resident
<1>4. Consistent(r)
  BY <1>1, <1>3 DEF Consistent
<1> QED
  BY <1>1, <1>2, <1>3, <1>4 DEF Calm, Fresh, Resident, NoLoads

\* An update of the view becomes due, or is done.
WithDue(e, r) == r \in {[e EXCEPT !.needsUpdate = due] : due \in BOOLEAN}

\* No other part of the entity speaks of the updates that are due.
LEMMA NeedsUpdateKeeps ==
  ASSUME NEW m \in Nat, NEW e \in Entities(m), Consistent(e), NEW l, NEW r, WithDue(e, r)
  PROVE  /\ r \in Entities(m) /\ Consistent(r)
         /\ Calm(e) => Calm(r)
         /\ Fresh(e, m, l) => Fresh(r, m, l)
         /\ Shown(e) => Shown(r)
         /\ Loaded(r) = Loaded(e)
         /\ r.activeNodes = e.activeNodes
         /\ \A n \in Nodes : Anew(e, n, m) => Anew(r, n, m)
         /\ \A n \in Nodes : LoadingIsOlder(e, r, n)
         /\ NoLoads(r) => NoLoads(e)
         /\ r.enabled = e.enabled
<1>0. Typed(e, m)
  BY TypedIs
<1>1. /\ r.activeNodes = e.activeNodes /\ r.enabled = e.enabled
      /\ r.state = e.state /\ r.hasData = e.hasData /\ r.image = e.image
      /\ r.loaderQueue = e.loaderQueue /\ r.replacementQueue = e.replacementQueue
      /\ r.activeJob = e.activeJob /\ r.needsUpdate \in BOOLEAN
      /\ r = [x \in Members |-> r[x]]
  BY <1>0 DEF Typed, Members, WithDue
<1>2. r \in Entities(m)
  <2>1. Typed(r, m)
    BY <1>0, <1>1 DEF Typed
  <2> QED
    BY <2>1, TypedIs
<1>3. /\ Loaded(r) = Loaded(e) /\ AtWork(r) = AtWork(e)
      /\ InLoaderQueue(r) = InLoaderQueue(e)
  BY <1>1 DEF Loaded, AtWork, InLoaderQueue, Resident
<1>4. Consistent(r)
  BY <1>1, <1>3 DEF Consistent
<1>5. /\ Calm(e) => Calm(r)
      /\ Fresh(e, m, l) => Fresh(r, m, l)
      /\ Shown(e) => Shown(r)
      /\ NoLoads(r) => NoLoads(e)
  BY <1>1 DEF Calm, Fresh, Resident, Shown, NoLoads
<1>6. /\ \A n \in Nodes : Anew(e, n, m) => Anew(r, n, m)
      /\ \A n \in Nodes : LoadingIsOlder(e, r, n)
  BY <1>1 DEF Anew, LoadingIsOlder
<1> QED
  BY <1>1, <1>2, <1>3, <1>4, <1>5, <1>6

\* What is shown after an update is among the nodes moved to the front of the
\* replacement queue, and is not unloaded.
LEMMA UpdateKeeps ==
  ASSUME map \in Nat, NEW e \in Entities(map), Consistent(e), Apart(e), limit.loaded \in Nat,
         NEW v \in [culled : SUBSET Nodes, fine : SUBSET Nodes],
         NEW l, NEW r, r = update(e, v)
  PROVE  /\ r \in Entities(map) /\ Consistent(r) /\ Apart(r)
         /\ Fresh(e, map, l) => Fresh(r, map, l)
         /\ Cardinality(Reach(v)) <= limit.loaded /\ Shown(e) => Shown(r)
         /\ Cardinality(Reach(v)) <= limit.loaded /\ Shown(e) /\ NoLoads(r) =>
              r.enabled = WantedIn(v)
         /\ ~r.needsUpdate
<1> DEFINE opened == Opened(e, v)
           visited == Visited(v, opened)
           before == ToSet(e.activeNodes)
           after == Rendered(e, visited, opened)
           req == Requested(e, v, visited, opened)
           asked == requestResidency(e, req)
           enabled == (asked.enabled \cup (ToSet(after) \ before)) \ (before \ ToSet(after))
           shown == [asked EXCEPT !.activeNodes = after, !.enabled = enabled]
           unloaded == unloadChunks(shown)
           started == startJob(unloaded, map)
<1>1. r = [started EXCEPT !.needsUpdate = FALSE]
  BY DEF update
<1>2. /\ req \in Seq(Nodes) /\ IsInjective(req)
      /\ after \in Seq(Nodes) /\ IsInjective(after)
      /\ ToSet(after) \subseteq ToSet(req) \cap Loaded(e)
      /\ ToSet(req) \cap Loaded(e) \subseteq Reach(v)
      /\ \A n \in ToSet(after) : Above[n] \cap ToSet(after) = {}
  <2>1. Loaded(e) \cap NoData = {}
    BY DEF Consistent
  <2> QED
    BY <2>1, RequestedIsReached
<1>c. AllThere(ToSet(req), e) => ToSet(after) = WantedIn(v)
  BY CompleteIsWanted
<1>a. asked = requestResidency(e, req)
  OBVIOUS
<1> HIDE DEF req, after, asked
<1>3. /\ asked \in Entities(map) /\ Consistent(asked)
      /\ Calm(e) => Calm(asked)
      /\ Fresh(e, map, l) => Fresh(asked, map, l)
      /\ Loaded(asked) = Loaded(e)
      /\ asked.activeNodes = e.activeNodes /\ asked.enabled = e.enabled
      /\ AreFirst(ToSet(req) \cap Loaded(e), asked.replacementQueue)
      /\ NoLoads(asked) => AllThere(ToSet(req), e)
  <2>1. /\ asked \in Entities(map) /\ Consistent(asked)
        /\ Calm(e) => Calm(asked)
        /\ Fresh(e, map, l) => Fresh(asked, map, l)
        /\ Loaded(asked) = Loaded(e)
        /\ ShowsSame(e, asked)
        /\ AreFirst(ToSet(req) \cap Loaded(e), asked.replacementQueue)
        /\ NoLoads(asked) => AllThere(ToSet(req), e)
    BY <1>a, <1>2, RequestKeeps
  <2> QED
    BY <2>1 DEF ShowsSame
<1>4. enabled \in SUBSET Nodes
  <2>1. ToSet(after) \subseteq Nodes /\ Typed(asked, map)
    BY <1>2, <1>3, ToSetFinite, TypedIs
  <2> QED
    BY <2>1 DEF Typed
<1>5. Shown(e) => enabled = ToSet(after)
  BY <1>3 DEF Shown
<1> HIDE DEF enabled
<1>b. shown = Showing(asked, after, enabled)
  BY DEF Showing
<1> HIDE DEF shown
<1>6. /\ shown \in Entities(map) /\ Consistent(shown)
      /\ Calm(asked) => Calm(shown)
      /\ Fresh(asked, map, l) => Fresh(shown, map, l)
      /\ Loaded(shown) = Loaded(asked)
      /\ shown.activeNodes = after /\ shown.enabled = enabled
      /\ shown.replacementQueue = asked.replacementQueue
      /\ NoLoads(shown) => NoLoads(asked)
  BY <1>b, <1>2, <1>3, <1>4, ShowingKeeps
<1>7. Apart(shown)
  BY <1>3, <1>6 DEF Apart
<1>8. /\ unloaded \in Entities(map) /\ Consistent(unloaded)
      /\ Calm(shown) => Calm(unloaded)
      /\ Fresh(shown, map, l) => Fresh(unloaded, map, l)
      /\ unloaded.activeNodes = shown.activeNodes
      /\ unloaded.enabled = shown.enabled \ (Loaded(shown) \ Loaded(unloaded))
      /\ \A i \in DOMAIN shown.replacementQueue :
           i <= limit.loaded => shown.replacementQueue[i] \in Loaded(unloaded)
      /\ NoLoads(unloaded) => NoLoads(shown)
  BY <1>6, <1>7, UnloadKeeps
<1> HIDE DEF unloaded
<1>9. /\ started \in Entities(map) /\ Consistent(started)
      /\ Calm(unloaded) => Calm(started)
      /\ Fresh(unloaded, map, l) => Fresh(started, map, l)
      /\ Loaded(started) = Loaded(unloaded)
      /\ started.activeNodes = unloaded.activeNodes /\ started.enabled = unloaded.enabled
      /\ NoLoads(started) => NoLoads(unloaded)
  BY <1>8, StartJobKeeps
<1> HIDE DEF started
<1>10. ASSUME Cardinality(Reach(v)) <= limit.loaded, Shown(e)
       PROVE  Shown(started) /\ started.enabled = ToSet(after)
  <2> DEFINE front == ToSet(req) \cap Loaded(e)
  <2>1. Cardinality(front) <= limit.loaded /\ Cardinality(front) \in Nat
    <3>1. IsFiniteSet(Reach(v))
      BY NodesAssumption, FS_Subset DEF Reach
    <3>2. IsFiniteSet(front) /\ Cardinality(front) <= Cardinality(Reach(v))
      BY <1>2, <3>1, FS_Subset
    <3>3. Cardinality(front) \in Nat /\ Cardinality(Reach(v)) \in Nat
      BY <3>1, <3>2, FS_CardinalityType
    <3> QED
      BY <1>10, <3>2, <3>3
  <2>2. ASSUME NEW n \in ToSet(after) PROVE n \in Loaded(unloaded)
    <3>1. PICK i \in 1 .. Cardinality(front) :
            i \in DOMAIN asked.replacementQueue /\ asked.replacementQueue[i] = n
      BY <1>2, <1>3, <2>2 DEF AreFirst
    <3> HIDE DEF front
    <3>2. i <= limit.loaded
      BY <2>1, <3>1
    <3> QED
      BY <1>6, <1>8, <3>1, <3>2
  <2>3. started.enabled = ToSet(after) /\ started.activeNodes = after
    BY <1>2, <1>5, <1>6, <1>8, <1>9, <1>10, <2>2
  <2>4. \A n \in ToSet(after) : Resident(started, n)
    BY <1>9, <2>2 DEF Loaded
  <2> QED
    BY <1>2, <2>3, <2>4 DEF Shown
<1>11. /\ r \in Entities(map) /\ Consistent(r)
       /\ Calm(started) => Calm(r)
       /\ Fresh(started, map, l) => Fresh(r, map, l)
       /\ Shown(started) => Shown(r)
       /\ NoLoads(r) => NoLoads(started)
       /\ r.enabled = started.enabled
  <2>1. WithDue(started, r)
    BY <1>1 DEF WithDue
  <2> QED
    BY <1>9, <2>1, NeedsUpdateKeeps
<1>14. r.needsUpdate = FALSE
  <2>1. Typed(started, map)
    BY <1>9, TypedIs
  <2> QED
    BY <1>1, <2>1 DEF Typed, Members
<1>12. Apart(r)
  BY <1>3, <1>6, <1>8, <1>9, <1>11 DEF Apart
<1>13. NoLoads(r) => ToSet(after) = WantedIn(v)
  BY <1>c, <1>3, <1>6, <1>8, <1>9, <1>11
<1> QED
  BY <1>3, <1>6, <1>8, <1>9, <1>10, <1>11, <1>12, <1>13, <1>14
-----------------------------------------------------------------------------
(***************************************************************************)
(* The invariant                                                           *)
(***************************************************************************)

\* When no load is under way and no update is due, the view is complete.
Complete(e, v) ==
  NoLoads(e) /\ ~e.needsUpdate /\ Fits(limit.loaded) => e.enabled = WantedIn(v)

\* The invariant.  Tiles are unloaded only where the map does not change, as
\* the limits are chosen (Apart, and the two conjuncts on the limit).
IInv ==
  /\ TypeOK
  /\ Consistent(entity)
  /\ Fits(limit.loaded) => Shown(entity)
  /\ Fresh(entity, map, late)
  /\ Apart(entity)
  /\ Roomy(limit.loaded) \/ limit.changes = 0
  /\ \E x \in Limits : x.loaded = limit.loaded
  /\ mTerrain = "shown" => Complete(entity, view)

\* When there is room for all tiles, there is for those of a view.
LEMMA RoomyFits ==
  ASSUME NEW k \in Nat, Roomy(k)
  PROVE  Fits(k)
<1> SUFFICES ASSUME NEW v \in Views PROVE Cardinality(Reach(v)) <= k
  BY DEF Fits
<1>1. IsFiniteSet(Nodes \ NoData) /\ Reach(v) \subseteq Nodes \ NoData
  BY NodesAssumption, FS_Subset DEF Reach
<1>2. Cardinality(Reach(v)) <= Cardinality(Nodes \ NoData) /\ IsFiniteSet(Reach(v))
  BY <1>1, FS_Subset
<1>3. Cardinality(Reach(v)) \in Nat /\ Cardinality(Nodes \ NoData) \in Nat
  BY <1>1, <1>2, FS_CardinalityType
<1> QED
  BY <1>2, <1>3 DEF Roomy

\* An entity before its first update has all that is asked of one.
LEMMA NewEntityIs ==
  ASSUME NEW m \in Nat, NEW l
  PROVE  /\ NewEntity \in Entities(m) /\ Consistent(NewEntity)
         /\ Calm(NewEntity) /\ Shown(NewEntity) /\ Fresh(NewEntity, m, l)
<1>1. /\ NewEntity.state = [n \in Nodes |-> "Skeleton"]
      /\ NewEntity.loaderQueue = <<>> /\ NewEntity.replacementQueue = <<>>
      /\ NewEntity.activeNodes = <<>> /\ NewEntity.enabled = {}
      /\ NewEntity.activeJob = NoJob /\ NewEntity.hasData = [n \in Nodes |-> TRUE]
  BY DEF NewEntity
<1>2. NewEntity \in Entities(m)
  BY DEF NewEntity, Entities, Statuses
<1>3. ToSet(<<>>) = {} /\ IsInjective(<<>>)
  BY DEF ToSet, IsInjective
<1>4. Consistent(NewEntity)
  BY <1>1, <1>3 DEF Consistent, InLoaderQueue, AtWork, Loaded, Resident, WithEntity
<1> QED
  BY <1>1, <1>2, <1>3, <1>4 DEF Calm, Shown, Fresh, Resident, WithEntity

\* A node of which nothing is left is not late.
LEMMA FreshStays ==
  ASSUME NEW m, NEW e, NEW l, Fresh(e, m, l)
  PROVE  Fresh(e, m, {n \in l : e.state[n] # "Skeleton"})
BY DEF Fresh, Resident, WithEntity

\* The terrain of a new scene has been updated for the first view.
LEMMA InitIInv == Init => IInv
<1> SUFFICES ASSUME Init PROVE IInv
  OBVIOUS
<1>1. /\ map = 1 /\ limit \in Limits /\ view \in Views
      /\ entity = update(NewEntity, view)
      /\ mTerrain = "shown" /\ moves = MaxMoves /\ late = {}
  BY DEF Init
<1>2. mSceneState \in {"Ready", "Updating"}
  BY DEF Init, SceneState
<1>3. limit \in [loaded : Nat, changes : Nat] /\ limit.loaded \in Nat /\ limit.changes \in Nat
  BY <1>1, BoundsAssumption
<1>4. view \in [culled : SUBSET Nodes, fine : SUBSET Nodes]
  BY <1>1, ViewsAssumption
<1>5. Roomy(limit.loaded) \/ limit.changes = 0
  BY <1>1, <1>3, LimitsAssumption DEF Roomy
<1>6. /\ NewEntity \in Entities(map) /\ Consistent(NewEntity)
      /\ Apart(NewEntity) /\ Shown(NewEntity) /\ Fresh(NewEntity, map, late)
  <2>1. map \in Nat
    BY <1>1
  <2> QED
    BY <2>1, NewEntityIs DEF Apart
<1>7. /\ entity \in Entities(map) /\ Consistent(entity) /\ Apart(entity)
      /\ Fresh(entity, map, late)
      /\ Cardinality(Reach(view)) <= limit.loaded => Shown(entity)
      /\ Cardinality(Reach(view)) <= limit.loaded /\ NoLoads(entity) =>
           entity.enabled = WantedIn(view)
  <2>1. map \in Nat
    BY <1>1
  <2> QED
    BY <2>1, <1>1, <1>3, <1>4, <1>6, UpdateKeeps
<1>8. (Fits(limit.loaded) => Shown(entity)) /\ Complete(entity, view)
  BY <1>1, <1>7 DEF Fits, Complete
<1>9. TypeOK
  BY <1>1, <1>2, <1>3, <1>7, BoundsAssumption DEF TypeOK, Entities, Statuses, Jobs
<1> QED
  BY <1>1, <1>5, <1>7, <1>8, <1>9 DEF IInv

\* What the invariant says of the types, in the words of the lemmas.
LEMMA IInvParts ==
  ASSUME IInv
  PROVE  /\ entity \in Entities(map) /\ Typed(entity, map) /\ map \in Nat
         /\ limit.loaded \in Nat /\ limit.changes \in Nat /\ moves \in 0 .. MaxMoves
         /\ view \in Views /\ view \in [culled : SUBSET Nodes, fine : SUBSET Nodes]
         /\ late \subseteq Nodes
         /\ \A v \in Views : v \in [culled : SUBSET Nodes, fine : SUBSET Nodes]
         /\ \A v \in Views : Fits(limit.loaded) => Cardinality(Reach(v)) <= limit.loaded
<1>1. entity \in Entities(map) /\ map \in Nat
  BY DEF IInv, TypeOK, Entities, Statuses, Jobs
<1>2. Typed(entity, map)
  BY <1>1, TypedIs
<1>3. limit.loaded \in Nat /\ limit.changes \in Nat /\ moves \in 0 .. MaxMoves
  BY DEF IInv, TypeOK
<1>4. view \in Views /\ late \subseteq Nodes
  BY DEF IInv, TypeOK
<1> QED
  BY <1>1, <1>2, <1>3, <1>4, ViewsAssumption DEF Fits

\* The job goes on with the texture; no state of a node changes.
LEMMA OnHeightMapReadyIInv == IInv /\ OnHeightMapReady => IInv'
<1> SUFFICES ASSUME IInv, OnHeightMapReady PROVE IInv'
  OBVIOUS
<1> DEFINE old == entity.activeJob
           job == [[old EXCEPT !.renders = "map"] EXCEPT !.image = map]
<1>1. /\ entity' = [entity EXCEPT !.activeJob.renders = "map", !.activeJob.image = map]
      /\ old # NoJob
      /\ UNCHANGED <<mTerrain, mSceneState, view, map, limit, moves, late>>
  BY DEF OnHeightMapReady
<1>2. Typed(entity, map) /\ map \in Nat /\ Consistent(entity) /\ Fresh(entity, map, late)
  BY IInvParts DEF IInv
<1>3. old \in Jobs(map)
  BY <1>1, <1>2 DEF Typed
<1> HIDE DEF old
<1>4. job \in Jobs(map) /\ job.node = old.node /\ job.image = map
  <2> DEFINE mid == [old EXCEPT !.renders = "map"]
  <2>1. mid \in Jobs(map) /\ mid.node = old.node
    BY <1>3 DEF Jobs
  <2> HIDE DEF mid
  <2>2. /\ [mid EXCEPT !.image = map] \in Jobs(map)
        /\ [mid EXCEPT !.image = map].node = mid.node
        /\ [mid EXCEPT !.image = map].image = map
    BY <1>2, <2>1 DEF Jobs
  <2> QED
    BY <2>1, <2>2 DEF mid
<1>5. job # NoJob
  BY <1>2, <1>4, JobIsOne
<1>6. /\ entity'.activeJob = job /\ entity'.state = entity.state
      /\ entity'.hasData = entity.hasData /\ entity'.image = entity.image
      /\ entity'.activeNodes = entity.activeNodes /\ entity'.enabled = entity.enabled
      /\ entity'.loaderQueue = entity.loaderQueue
      /\ entity'.replacementQueue = entity.replacementQueue
      /\ entity'.needsUpdate = entity.needsUpdate
      /\ entity' = [x \in Members |-> entity'[x]]
  BY <1>1, <1>2 DEF Typed, Members, old
<1> HIDE DEF job
<1>7. entity' \in Entities(map)
  <2>1. Typed(entity', map)
    BY <1>2, <1>4, <1>6 DEF Typed
  <2> QED
    BY <2>1, TypedIs
<1>8. /\ Loaded(entity') = Loaded(entity) /\ AtWork(entity') = AtWork(entity)
      /\ InLoaderQueue(entity') = InLoaderQueue(entity)
  BY <1>6 DEF Loaded, AtWork, InLoaderQueue, Resident
<1>9. Consistent(entity')
  BY <1>1, <1>2, <1>4, <1>5, <1>6, <1>8 DEF Consistent, old
<1>10. Fresh(entity', map, late)
  BY <1>2, <1>4, <1>6 DEF Fresh, Resident
<1>11. (Calm(entity) => Calm(entity')) /\ (Shown(entity) => Shown(entity'))
  BY <1>6 DEF Calm, Shown, Resident
<1>12. TypeOK'
  BY <1>1, <1>7 DEF IInv, TypeOK, Entities, Statuses, Jobs
<1>13. Complete(entity, view) => Complete(entity, view)'
  BY <1>1, <1>6 DEF Complete, NoLoads
<1> QED
  BY <1>1, <1>9, <1>10, <1>11, <1>12, <1>13 DEF IInv, Apart

\* When no node loses its entity, what is shown stays so.
LEMMA ShownStays ==
  ASSUME NEW m, NEW e \in Entities(m), NEW r, Shown(e),
         r.activeNodes = e.activeNodes, r.enabled = e.enabled, Loaded(e) \subseteq Loaded(r)
  PROVE  Shown(r)
<1>1. e.enabled \subseteq Nodes
  BY TypedIs DEF Typed
<1> QED
  BY <1>1 DEF Shown, Loaded

\* A job has delivered what makes the entity `idle`, and the next one starts.
LEMMA DeliveredIInv ==
  ASSUME IInv, NEW idle \in Entities(map), Consistent(idle),
         Calm(entity) => Calm(idle), Shown(entity) => Shown(idle),
         NEW l, l \subseteq late, Fresh(idle, map, l),
         entity' = startJob(idle, map), view' \in Views,
         late' = l \/ late' = {n \in l : entity'.state[n] # "Skeleton"},
         \/ idle.needsUpdate
         \/ /\ view' = view /\ (NoLoads(idle) => NoLoads(entity))
            /\ idle.needsUpdate = entity.needsUpdate /\ idle.enabled = entity.enabled,
         UNCHANGED <<mTerrain, mSceneState, map, limit, moves>>
  PROVE  IInv'
<1>1. map \in Nat /\ late \subseteq Nodes
  BY IInvParts
<1>2. /\ entity' \in Entities(map) /\ Consistent(entity')
      /\ Calm(idle) => Calm(entity')
      /\ Fresh(idle, map, l) => Fresh(entity', map, l)
      /\ Loaded(entity') = Loaded(idle)
      /\ entity'.activeNodes = idle.activeNodes /\ entity'.enabled = idle.enabled
      /\ NoLoads(entity') => NoLoads(idle)
      /\ entity'.needsUpdate = idle.needsUpdate
  BY <1>1, StartJobKeeps
<1>3. Shown(idle) => Shown(entity')
  BY <1>2, ShownStays
<1>4. Fresh(entity', map, late')
  BY <1>2, FreshStays
<1>5. Apart(entity) => Roomy(limit.loaded) \/ Calm(entity')
  BY <1>2 DEF Apart
<1>6. TypeOK'
  BY <1>1, <1>2 DEF IInv, TypeOK, Entities, Statuses, Jobs
<1>7. Complete(entity, view) => Complete(entity, view)'
  <2> USE DEF Complete
  <2>1. CASE idle.needsUpdate
    BY <1>2, <2>1
  <2>2. CASE /\ view' = view /\ (NoLoads(idle) => NoLoads(entity))
             /\ idle.needsUpdate = entity.needsUpdate /\ idle.enabled = entity.enabled
    <3>1. NoLoads(entity') => NoLoads(entity)
      BY <1>2, <2>2
    <3>2. entity'.needsUpdate = entity.needsUpdate /\ entity'.enabled = entity.enabled
      BY <1>2, <2>2
    <3>3. WantedIn(view') = WantedIn(view)
      BY <2>2
    <3> QED
      BY <3>1, <3>2, <3>3
  <2> QED
    BY <2>1, <2>2
<1> QED
  BY <1>2, <1>3, <1>4, <1>5, <1>6, <1>7 DEF IInv, Apart

\* A loaded node enters the replacement queue with the texture of its job, a
\* node without data is a skeleton again; in both cases an update becomes due.
LEMMA OnChunkLoadedIInv == IInv /\ OnChunkLoaded => IInv'
<1> SUFFICES ASSUME IInv, OnChunkLoaded PROVE IInv'
  OBVIOUS
<1> DEFINE n == entity.activeJob.node
           loaded == [entity EXCEPT !.state[n] = "Loaded",
                                    !.image[n] = entity.activeJob.image,
                                    !.replacementQueue = <<n>> \o @]
           empty == [entity EXCEPT !.state[n] = "Skeleton", !.hasData[n] = FALSE]
           done == IF n \in NoData THEN empty ELSE loaded
           idle == [done EXCEPT !.activeJob = NoJob, !.needsUpdate = TRUE]
<1>1. /\ entity.activeJob # NoJob
      /\ entity.state[n] = "Loading" /\ entity.activeJob.renders = "map"
      /\ entity' = startJob(idle, map)
      /\ view' \in IF n \in NoData THEN {view} ELSE Reshaped(n)
      /\ late' = {x \in late : entity'.state[x] # "Skeleton"}
      /\ UNCHANGED <<mTerrain, mSceneState, map, limit, moves>>
  BY DEF OnChunkLoaded, StillLate
<1>0. entity \in Entities(map)
  BY IInvParts
<1>2. /\ Typed(entity, map) /\ map \in Nat /\ Consistent(entity) /\ Fresh(entity, map, late)
      /\ view \in Views
  BY IInvParts DEF IInv
<1>3. /\ entity.activeJob \in Jobs(map) /\ n \in Nodes /\ entity.activeJob.image \in 0 .. map
      /\ AtWork(entity) = {n}
  BY <1>1, <1>2 DEF Typed, Jobs, Consistent
<1>4. view' \in Views
  BY <1>1, <1>2 DEF Reshaped
<1> HIDE DEF n
\* The entity before the next job: nothing, or a tile, has come for the node.
<1>5. CASE n \in NoData
  <2> DEFINE state == [entity.state EXCEPT ![n] = "Skeleton"]
             hasData == [entity.hasData EXCEPT ![n] = FALSE]
  <2>1. done = [entity EXCEPT !.state = state, !.hasData = hasData]
    BY <1>2, <1>5 DEF Typed
  <2>2. /\ state \in [Nodes -> Statuses] /\ state[n] = "Skeleton"
        /\ \A x \in Nodes : x # n => state[x] = entity.state[x]
    BY <1>2, <1>3 DEF Typed, Statuses
  <2>3. /\ hasData \in [Nodes -> BOOLEAN]
        /\ \A x \in Nodes : x # n => hasData[x] = entity.hasData[x]
    BY <1>2 DEF Typed
  <2> HIDE DEF state, hasData, done
  <2>4. /\ done.state = state /\ done.hasData = hasData /\ done.image = entity.image
        /\ done.loaderQueue = entity.loaderQueue
        /\ done.replacementQueue = entity.replacementQueue
        /\ done.activeNodes = entity.activeNodes /\ done.enabled = entity.enabled
        /\ done.needsUpdate = entity.needsUpdate
        /\ done = [x \in Members |-> done[x]]
    BY <1>2, <2>1 DEF Typed, Members
  <2>5. /\ idle.state = state /\ idle.hasData = hasData /\ idle.image = entity.image
        /\ idle.loaderQueue = entity.loaderQueue
        /\ idle.replacementQueue = entity.replacementQueue
        /\ idle.activeNodes = entity.activeNodes /\ idle.enabled = entity.enabled
        /\ idle.needsUpdate = TRUE /\ idle.activeJob = NoJob
        /\ idle = [x \in Members |-> idle[x]]
    BY <2>4 DEF Members
  <2> HIDE DEF idle
  <2>6. idle \in Entities(map)
    <3>1. Typed(idle, map)
      BY <1>2, <2>2, <2>3, <2>5 DEF Typed
    <3> QED
      BY <3>1, TypedIs
  <2>7. /\ Loaded(idle) = Loaded(entity) /\ AtWork(idle) = {}
        /\ InLoaderQueue(idle) = InLoaderQueue(entity)
    BY <1>1, <1>3, <2>2, <2>5 DEF n, Loaded, AtWork, InLoaderQueue, Resident, WithEntity
  <2>8. Consistent(idle)
    <3>1. \A x \in Nodes \ NoData : idle.hasData[x]
      BY <1>2, <1>5, <2>3, <2>5 DEF Consistent
    <3> QED
      BY <1>2, <2>5, <2>7, <3>1 DEF Consistent
  <2>9. Fresh(idle, map, late)
    <3>1. \A x \in Nodes : state[x] \notin {"Loading", "Updating"}
      BY <2>5, <2>7 DEF AtWork
    <3> QED
      BY <1>2, <1>3, <2>2, <2>5, <3>1 DEF Fresh, Resident, WithEntity
  <2>10. Calm(entity) => Calm(idle)
    BY <2>2, <2>5 DEF Calm
  <2>11. Shown(entity) => Shown(idle)
    BY <1>0, <2>5, <2>6, <2>7, ShownStays
  <2> QED
    BY <1>1, <1>2, <1>4, <2>5, <2>6, <2>8, <2>9, <2>10, <2>11, DeliveredIInv
<1>6. CASE n \notin NoData
  <2> DEFINE state == [entity.state EXCEPT ![n] = "Loaded"]
             image == [entity.image EXCEPT ![n] = entity.activeJob.image]
             queue == <<n>> \o entity.replacementQueue
  <2>1. done = [entity EXCEPT !.state = state, !.image = image, !.replacementQueue = queue]
    BY <1>2, <1>6 DEF Typed
  <2>2. /\ state \in [Nodes -> Statuses] /\ state[n] = "Loaded"
        /\ \A x \in Nodes : x # n => state[x] = entity.state[x]
    BY <1>2, <1>3 DEF Typed, Statuses, WithEntity
  <2>3. /\ image \in [Nodes -> 0 .. map] /\ image[n] = entity.activeJob.image
        /\ \A x \in Nodes : x # n => image[x] = entity.image[x]
    BY <1>2, <1>3 DEF Typed
  <2>4. /\ queue \in Seq(Nodes) /\ IsInjective(queue)
        /\ ToSet(queue) = Loaded(entity) \cup {n}
    <3> DEFINE old == entity.replacementQueue
    <3>1. old \in Seq(Nodes) /\ IsInjective(old) /\ ToSet(old) = Loaded(entity)
      BY <1>2 DEF Typed, Consistent
    <3>2. n \notin Loaded(entity)
      BY <1>1, <1>3 DEF n, Loaded, Resident, WithEntity
    <3>3. <<n>> \in Seq(Nodes) /\ IsInjective(<<n>>) /\ ToSet(<<n>>) = {n}
      BY <1>3 DEF IsInjective, ToSet
    <3> DEFINE one == <<n>>
    <3>4. one \in Seq(Nodes) /\ IsInjective(one) /\ ToSet(one) = {n}
      BY <3>3
    <3> HIDE DEF old, one
    <3>5. /\ one \o old \in Seq(Nodes) /\ IsInjective(one \o old)
          /\ ToSet(one \o old) = ToSet(one) \cup ToSet(old)
      <4>1. ToSet(one) \cap ToSet(old) = {}
        BY <3>1, <3>2, <3>4
      <4> QED
        BY <3>1, <3>4, <4>1, ConcatSet
    <3> QED
      BY <3>1, <3>4, <3>5 DEF old, one
  <2> HIDE DEF state, image, queue, done
  <2>5. /\ done.state = state /\ done.image = image /\ done.replacementQueue = queue
        /\ done.hasData = entity.hasData
        /\ done.loaderQueue = entity.loaderQueue
        /\ done.activeNodes = entity.activeNodes /\ done.enabled = entity.enabled
        /\ done.needsUpdate = entity.needsUpdate
        /\ done = [x \in Members |-> done[x]]
    BY <1>2, <2>1 DEF Typed, Members
  <2>6. /\ idle.state = state /\ idle.image = image /\ idle.replacementQueue = queue
        /\ idle.hasData = entity.hasData
        /\ idle.loaderQueue = entity.loaderQueue
        /\ idle.activeNodes = entity.activeNodes /\ idle.enabled = entity.enabled
        /\ idle.needsUpdate = TRUE /\ idle.activeJob = NoJob
        /\ idle = [x \in Members |-> idle[x]]
    BY <2>5 DEF Members
  <2> HIDE DEF idle
  <2>7. idle \in Entities(map)
    <3>1. Typed(idle, map)
      BY <1>2, <2>2, <2>3, <2>4, <2>6 DEF Typed
    <3> QED
      BY <3>1, TypedIs
  <2>8. /\ Loaded(idle) = Loaded(entity) \cup {n} /\ AtWork(idle) = {}
        /\ InLoaderQueue(idle) = InLoaderQueue(entity)
    BY <1>1, <1>3, <2>2, <2>6 DEF n, Loaded, AtWork, InLoaderQueue, Resident, WithEntity
  <2>9. Consistent(idle)
    BY <1>2, <1>6, <2>4, <2>6, <2>8 DEF Consistent
  <2>10. Fresh(idle, map, late)
    <3>1. \A x \in Nodes : state[x] \notin {"Loading", "Updating"}
      BY <2>6, <2>8 DEF AtWork
    <3>2. n \notin late => image[n] = map
      BY <1>1, <1>2, <1>3, <2>3 DEF Fresh, n
    <3> QED
      BY <1>2, <1>3, <2>2, <2>3, <2>6, <3>1, <3>2 DEF Fresh, Resident, WithEntity
  <2>11. Calm(entity) => Calm(idle)
    BY <2>2, <2>6 DEF Calm
  <2>12. Shown(entity) => Shown(idle)
    BY <1>0, <2>6, <2>7, <2>8, ShownStays
  <2> QED
    BY <1>1, <1>2, <1>4, <2>6, <2>7, <2>9, <2>10, <2>11, <2>12, DeliveredIInv
<1> QED
  BY <1>5, <1>6

\* A node that was updated has the texture of the map, as the update was made
\* anew when the map changed.
LEMMA OnChunkUpdatedIInv == IInv /\ OnChunkUpdated => IInv'
<1> SUFFICES ASSUME IInv, OnChunkUpdated PROVE IInv'
  OBVIOUS
<1> DEFINE n == entity.activeJob.node
           idle == [entity EXCEPT !.state[n] = "Loaded",
                                  !.image[n] = entity.activeJob.image,
                                  !.activeJob = NoJob]
<1>1. /\ entity.activeJob # NoJob
      /\ entity.state[n] = "Updating"
      /\ entity' = startJob(idle, map)
      /\ late' = late \ {n}
      /\ UNCHANGED <<mTerrain, mSceneState, view, map, limit, moves>>
  BY DEF OnChunkUpdated
<1>0. entity \in Entities(map)
  BY IInvParts
<1>2. /\ Typed(entity, map) /\ map \in Nat /\ Consistent(entity) /\ Fresh(entity, map, late)
      /\ view \in Views
  BY IInvParts DEF IInv
<1>3. /\ entity.activeJob \in Jobs(map) /\ n \in Nodes /\ entity.activeJob.image \in 0 .. map
      /\ AtWork(entity) = {n}
  BY <1>1, <1>2 DEF Typed, Jobs, Consistent
<1> HIDE DEF n
<1> DEFINE state == [entity.state EXCEPT ![n] = "Loaded"]
           image == [entity.image EXCEPT ![n] = entity.activeJob.image]
<1>4. idle = [entity EXCEPT !.state = state, !.image = image, !.activeJob = NoJob]
  BY <1>2 DEF Typed
<1>5. /\ state \in [Nodes -> Statuses] /\ state[n] = "Loaded"
      /\ \A x \in Nodes : x # n => state[x] = entity.state[x]
  BY <1>2, <1>3 DEF Typed, Statuses, WithEntity
<1>6. /\ image \in [Nodes -> 0 .. map] /\ image[n] = entity.activeJob.image
      /\ \A x \in Nodes : x # n => image[x] = entity.image[x]
  BY <1>2, <1>3 DEF Typed
<1> HIDE DEF state, image, idle
<1>7. /\ idle.state = state /\ idle.image = image /\ idle.activeJob = NoJob
      /\ idle.replacementQueue = entity.replacementQueue
      /\ idle.hasData = entity.hasData
      /\ idle.loaderQueue = entity.loaderQueue
      /\ idle.activeNodes = entity.activeNodes /\ idle.enabled = entity.enabled
      /\ idle.needsUpdate = entity.needsUpdate
      /\ idle = [x \in Members |-> idle[x]]
  BY <1>2, <1>4 DEF Typed, Members
<1>8. idle \in Entities(map)
  <2>1. Typed(idle, map)
    BY <1>2, <1>5, <1>6, <1>7 DEF Typed
  <2> QED
    BY <2>1, TypedIs
<1>9. /\ Loaded(idle) = Loaded(entity) /\ AtWork(idle) = {}
      /\ InLoaderQueue(idle) = InLoaderQueue(entity)
  BY <1>1, <1>3, <1>5, <1>7 DEF n, Loaded, AtWork, InLoaderQueue, Resident, WithEntity
<1>10. Consistent(idle)
  BY <1>2, <1>7, <1>9 DEF Consistent
<1>11. Fresh(idle, map, late \ {n})
  <2>1. \A x \in Nodes : state[x] \notin {"Loading", "Updating"}
    BY <1>7, <1>9 DEF AtWork
  <2>2. image[n] = map
    BY <1>1, <1>2, <1>3, <1>6 DEF Fresh, n
  <2> QED
    BY <1>2, <1>3, <1>5, <1>6, <1>7, <2>1, <2>2 DEF Fresh, Resident, WithEntity
<1>12. Calm(entity) => Calm(idle)
  BY <1>5, <1>7 DEF Calm
<1>13. Shown(entity) => Shown(idle)
  BY <1>0, <1>7, <1>8, <1>9, ShownStays
<1>14. NoLoads(idle) => NoLoads(entity)
  BY <1>1, <1>3, <1>5, <1>7 DEF NoLoads, n
<1> QED
  BY <1>1, <1>2, <1>7, <1>8, <1>10, <1>11, <1>12, <1>13, <1>14, DeliveredIInv

\* The entity is updated, once or for two views one after the other.
LEMMA UpdatedIs ==
  ASSUME IInv, NEW e \in Entities(map), Consistent(e), Apart(e), Fresh(e, map, late),
         Fits(limit.loaded) => Shown(e), NEW v \in Views, NEW r, r = update(e, v)
  PROVE  /\ r \in Entities(map) /\ Consistent(r) /\ Apart(r) /\ Fresh(r, map, late)
         /\ Fits(limit.loaded) => Shown(r)
         /\ Complete(r, v) /\ ~r.needsUpdate
<1>1. /\ map \in Nat /\ limit.loaded \in Nat
      /\ v \in [culled : SUBSET Nodes, fine : SUBSET Nodes]
      /\ Fits(limit.loaded) => Cardinality(Reach(v)) <= limit.loaded
  BY IInvParts
<1>2. /\ r \in Entities(map) /\ Consistent(r) /\ Apart(r)
      /\ Fresh(e, map, late) => Fresh(r, map, late)
      /\ Cardinality(Reach(v)) <= limit.loaded /\ Shown(e) => Shown(r)
      /\ Cardinality(Reach(v)) <= limit.loaded /\ Shown(e) /\ NoLoads(r) =>
           r.enabled = WantedIn(v)
      /\ ~r.needsUpdate
  BY <1>1, UpdateKeeps
<1> QED
  BY <1>1, <1>2 DEF Complete

\* A step of the scene leaves the entity in such a state.
LEMMA SceneIInv ==
  ASSUME IInv, entity' \in Entities(map), Consistent(entity'),
         Apart(entity) => Roomy(limit.loaded) \/ Calm(entity'),
         Fits(limit.loaded) => Shown(entity'), NEW l, l \subseteq late, Fresh(entity', map, l),
         late' = l \/ late' = {n \in l : entity'.state[n] # "Skeleton"},
         mTerrain' \in {"shown", "leaving", "none"}, mSceneState' \in {"Ready", "Updating"},
         view' \in Views, moves' \in 0 .. MaxMoves, UNCHANGED <<map, limit>>,
         mTerrain' = "shown" => Complete(entity', view')
  PROVE  IInv'
<1>1. map \in Nat /\ late \subseteq Nodes
  BY IInvParts
<1>2. Fresh(entity', map, late')
  BY FreshStays
<1>3. TypeOK'
  BY <1>1 DEF IInv, TypeOK, Entities, Statuses, Jobs
<1>4. (mTerrain = "shown" => Complete(entity, view))'
  BY DEF Complete
<1> QED
  BY <1>2, <1>3, <1>4 DEF IInv, Apart

\* The camera moves, and nothing is left to update.
LEMMA OnCameraChangedIInv == IInv /\ OnCameraChanged => IInv' /\ ~entity'.needsUpdate
<1> SUFFICES ASSUME IInv, OnCameraChanged PROVE IInv' /\ ~entity'.needsUpdate
  OBVIOUS
<1>1. PICK v \in Views :
        \/ view' = v /\ entity' = update(entity, v)
        \/ \E w \in Views \ {v} : view' = w /\ entity' = update(update(entity, v), w)
  BY Zenon DEF OnCameraChanged
<1>2. /\ moves > 0 /\ mTerrain = "shown" /\ mSceneState' = SceneState(FALSE, entity')
      /\ moves' = moves - 1 /\ late' = StillLate(entity')
      /\ UNCHANGED <<mTerrain, map, limit>>
  BY Zenon DEF OnCameraChanged
<1>3. /\ entity \in Entities(map) /\ Consistent(entity) /\ Apart(entity)
      /\ Fresh(entity, map, late) /\ (Fits(limit.loaded) => Shown(entity))
      /\ moves \in 0 .. MaxMoves
  BY IInvParts DEF IInv
<1> DEFINE first == update(entity, v)
<1>4. /\ first \in Entities(map) /\ Consistent(first) /\ Apart(first)
      /\ Fresh(first, map, late) /\ (Fits(limit.loaded) => Shown(first))
      /\ Complete(first, v) /\ ~first.needsUpdate
  BY <1>3, UpdatedIs
<1> HIDE DEF first
<1>5. /\ entity' \in Entities(map) /\ Consistent(entity')
      /\ Roomy(limit.loaded) \/ Calm(entity')
      /\ Fresh(entity', map, late) /\ (Fits(limit.loaded) => Shown(entity'))
      /\ view' \in Views /\ Complete(entity', view') /\ ~entity'.needsUpdate
  <2>1. CASE view' = v /\ entity' = first
    BY <1>4, <2>1 DEF Apart
  <2>2. ASSUME NEW w \in Views, view' = w, entity' = update(first, w)
        PROVE  /\ entity' \in Entities(map) /\ Consistent(entity')
               /\ Roomy(limit.loaded) \/ Calm(entity')
               /\ Fresh(entity', map, late) /\ (Fits(limit.loaded) => Shown(entity'))
               /\ Complete(entity', view') /\ ~entity'.needsUpdate
    <3> DEFINE r == update(first, w)
    <3>1. /\ r \in Entities(map) /\ Consistent(r) /\ Apart(r)
          /\ Fresh(r, map, late) /\ (Fits(limit.loaded) => Shown(r))
          /\ Complete(r, w) /\ ~r.needsUpdate
      BY <1>4, <2>2, UpdatedIs
    <3>2. entity' = r
      BY <2>2
    <3> HIDE DEF r
    <3> QED
      BY <2>2, <3>1, <3>2 DEF Apart
  <2> QED
    BY <1>1, <2>1, <2>2 DEF first
<1>6. late' = {n \in late : entity'.state[n] # "Skeleton"}
  BY <1>2 DEF StillLate
<1>7. mSceneState' \in {"Ready", "Updating"}
  BY <1>2 DEF SceneState
<1>8. moves' \in 0 .. MaxMoves
  BY <1>2, <1>3, BoundsAssumption
<1> QED
  BY <1>2, <1>5, <1>6, <1>7, <1>8, SceneIInv DEF IInv, TypeOK

\* A frame, after which a terrain that is shown has nothing left to update.
LEMMA OnFrameTriggeredIInv ==
  IInv /\ OnFrameTriggered => IInv' /\ (mTerrain = "shown" => ~entity'.needsUpdate)
<1> SUFFICES ASSUME IInv, OnFrameTriggered
             PROVE  IInv' /\ (mTerrain = "shown" => ~entity'.needsUpdate)
  OBVIOUS
<1>0. (mTerrain = "shown" /\ entity' = entity => ~entity.needsUpdate)
         \/ entity' = update(entity, view)
  BY DEF OnFrameTriggered
<1>1. /\ entity' = update(entity, view) \/ entity' = entity
      /\ mSceneState' = SceneState(mTerrain # "shown", entity')
      /\ late' = {n \in late : entity'.state[n] # "Skeleton"}
      /\ UNCHANGED <<mTerrain, view, map, limit, moves>>
  BY DEF OnFrameTriggered, StillLate
<1>2. /\ entity \in Entities(map) /\ Consistent(entity) /\ Apart(entity)
      /\ Fresh(entity, map, late) /\ (Fits(limit.loaded) => Shown(entity))
      /\ moves \in 0 .. MaxMoves /\ view \in Views
      /\ mTerrain = "shown" => Complete(entity, view)
  BY IInvParts DEF IInv
<1> DEFINE r == update(entity, view)
<1>3. /\ r \in Entities(map) /\ Consistent(r) /\ Apart(r)
      /\ Fresh(r, map, late) /\ (Fits(limit.loaded) => Shown(r))
      /\ Complete(r, view) /\ ~r.needsUpdate
  BY <1>2, UpdatedIs
<1> HIDE DEF r
<1>4. /\ entity' \in Entities(map) /\ Consistent(entity')
      /\ Roomy(limit.loaded) \/ Calm(entity')
      /\ Fresh(entity', map, late) /\ (Fits(limit.loaded) => Shown(entity'))
      /\ mTerrain' = "shown" => Complete(entity', view')
      /\ mTerrain = "shown" => ~entity'.needsUpdate
  BY <1>0, <1>1, <1>2, <1>3 DEF Apart, r
<1>5. mSceneState' \in {"Ready", "Updating"}
  BY <1>1 DEF SceneState
<1>6. mTerrain \in {"shown", "leaving", "none"}
  BY DEF IInv, TypeOK
<1> QED
  BY <1>1, <1>2, <1>4, <1>5, <1>6, SceneIInv

\* The entity goes on until it is deleted.
LEMMA CreateTerrainIInv == IInv /\ CreateTerrain => IInv'
<1> SUFFICES ASSUME IInv, CreateTerrain PROVE IInv'
  OBVIOUS
<1>1. /\ moves > 0 /\ mTerrain' = "leaving" /\ mSceneState' = "Updating" /\ moves' = moves - 1
      /\ UNCHANGED <<entity, view, map, limit, late>>
  BY DEF CreateTerrain
<1>2. /\ entity \in Entities(map) /\ Consistent(entity) /\ Apart(entity)
      /\ Fresh(entity, map, late) /\ (Fits(limit.loaded) => Shown(entity))
      /\ moves \in 0 .. MaxMoves /\ view \in Views
  BY IInvParts DEF IInv
<1>3. moves' \in 0 .. MaxMoves
  BY <1>1, <1>2, BoundsAssumption
<1> QED
  BY <1>1, <1>2, <1>3, SceneIInv DEF Apart

\* A new entity is updated for the view.
LEMMA CreateTerrainDeferredIInv == IInv /\ CreateTerrainDeferred => IInv'
<1> SUFFICES ASSUME IInv, CreateTerrainDeferred PROVE IInv'
  OBVIOUS
<1>1. /\ entity' = update(NewEntity, view)
      /\ mTerrain' = "shown" /\ mSceneState' = "Updating"
      /\ UNCHANGED <<view, map, limit, moves, late>>
  BY DEF CreateTerrainDeferred
<1>2. map \in Nat /\ view \in Views /\ moves \in 0 .. MaxMoves
  BY IInvParts
<1>3. /\ NewEntity \in Entities(map) /\ Consistent(NewEntity) /\ Apart(NewEntity)
      /\ Fresh(NewEntity, map, late) /\ Shown(NewEntity)
  BY <1>2, NewEntityIs DEF Apart
<1> DEFINE r == update(NewEntity, view)
<1>4. /\ r \in Entities(map) /\ Consistent(r) /\ Apart(r)
      /\ Fresh(r, map, late) /\ (Fits(limit.loaded) => Shown(r))
      /\ Complete(r, view)
  BY <1>2, <1>3, UpdatedIs
<1>5. entity' = r
  BY <1>1
<1> HIDE DEF r
<1> QED
  BY <1>1, <1>2, <1>4, <1>5, SceneIInv DEF Apart
\* Cancelling the job and the queue leaves skeletons and nodes of the
\* replacement queue, which are unloaded.
LEMMA DestroyTerrainIInv == IInv /\ DestroyTerrain => IInv'
<1> SUFFICES ASSUME IInv, DestroyTerrain PROVE IInv'
  OBVIOUS
<1> DEFINE idle == IF entity.activeJob # NoJob THEN cancelActiveJob(entity) ELSE entity
           cancelled == [n \in Nodes |-> CASE n \notin ToSet(idle.loaderQueue) -> idle.state[n]
                                      [] n \in ToSet(idle.loaderQueue) /\ Resident(idle, n) ->
                                           "Loaded"
                                      [] OTHER -> "Skeleton"]
           state == [n \in Nodes |->
                       IF n \in ToSet(idle.replacementQueue) THEN "Skeleton" ELSE cancelled[n]]
<1>1. /\ mTerrain' = "none"
      /\ entity' = [NewEntity EXCEPT !.state = state]
      /\ late' = {}
      /\ UNCHANGED <<mSceneState, view, map, limit, moves>>
  BY DEF DestroyTerrain
<1>2. /\ entity \in Entities(map) /\ map \in Nat /\ Consistent(entity)
      /\ moves \in 0 .. MaxMoves /\ view \in Views
      /\ mSceneState \in {"Ready", "Updating"}
  BY IInvParts DEF IInv, TypeOK
<1>3. idle \in Entities(map) /\ Consistent(idle) /\ AtWork(idle) = {}
  <2>1. CASE entity.activeJob # NoJob
    <3> DEFINE r == cancelActiveJob(entity)
    <3>1. r \in Entities(map) /\ Consistent(r) /\ r.activeJob = NoJob
      BY <1>2, <2>1, CancelKeeps
    <3>2. idle = r
      BY <2>1
    <3> HIDE DEF idle, r
    <3> QED
      BY <3>1, <3>2 DEF Consistent
  <2>2. CASE entity.activeJob = NoJob
    <3>1. idle = entity
      BY <2>2
    <3> HIDE DEF idle
    <3> QED
      BY <1>2, <2>2, <3>1 DEF Consistent
  <2> QED
    BY <2>1, <2>2
<1> HIDE DEF idle
<1>4. ASSUME NEW n \in Nodes PROVE state[n] = "Skeleton"
  <2>1. idle.state[n] \in Statuses
    BY <1>3, TypedIs DEF Typed
  <2>2. CASE n \in ToSet(idle.replacementQueue)
    BY <2>2
  <2>3. CASE n \notin ToSet(idle.replacementQueue) /\ n \in ToSet(idle.loaderQueue)
    <3>1. ~Resident(idle, n)
      BY <1>3, <2>3 DEF Consistent, Loaded
    <3> QED
      BY <2>3, <3>1
  <2>4. CASE n \notin ToSet(idle.replacementQueue) /\ n \notin ToSet(idle.loaderQueue)
    <3>1. idle.state[n] = "Skeleton"
      BY <1>3, <2>1, <2>4
      DEF Consistent, Loaded, InLoaderQueue, AtWork, Resident, Statuses, WithEntity
    <3> QED
      BY <2>4, <3>1
  <2> QED
    BY <2>2, <2>3, <2>4
<1>5. entity' = NewEntity
  <2>1. state = [n \in Nodes |-> "Skeleton"]
    BY <1>4
  <2> HIDE DEF state
  <2> QED
    BY <1>1, <2>1 DEF NewEntity
<1>6. /\ NewEntity \in Entities(map) /\ Consistent(NewEntity) /\ Calm(NewEntity)
      /\ Fresh(NewEntity, map, {}) /\ Shown(NewEntity)
  BY <1>2, NewEntityIs
<1> HIDE DEF state
<1> QED
  BY <1>1, <1>2, <1>5, <1>6, SceneIInv

\* Every loaded node is queued for an update, the active ones first, and a job
\* that was rendering is given up or its node is late.
LEMMA InvalidateMapImagesIInv == IInv /\ InvalidateMapImages => IInv'
<1> SUFFICES ASSUME IInv, InvalidateMapImages PROVE IInv'
  OBVIOUS
<1> DEFINE m == map + 1
           active == updateNodes(entity, entity.activeNodes, m)
           inactive == Select(descendants, {n \in Nodes : Resident(active, n)}
                                             \ ToSet(active.activeNodes))
           all == updateNodes(active, inactive, m)
           l == late \cup {n \in Nodes : /\ entity.state[n] = "Loading"
                                        /\ entity.activeJob.renders = "map"}
<1>1. /\ limit.changes > 0
      /\ limit' = [limit EXCEPT !.changes = @ - 1]
      /\ map' = m
      /\ entity' = [all EXCEPT !.needsUpdate = TRUE]
      /\ late' = l
      /\ UNCHANGED <<mTerrain, mSceneState, view, moves>>
  BY DEF InvalidateMapImages
<1>2. /\ entity \in Entities(map) /\ Typed(entity, map) /\ map \in Nat /\ Consistent(entity)
      /\ Fits(limit.loaded) => Shown(entity)
      /\ limit.loaded \in Nat /\ limit.changes \in Nat /\ late \subseteq Nodes
      /\ limit \in [loaded : Nat, changes : Nat]
  BY IInvParts DEF IInv, TypeOK
<1>3. Roomy(limit.loaded) /\ Shown(entity)
  BY <1>1, <1>2, RoomyFits DEF IInv
<1>4. /\ m \in Nat /\ entity \in Entities(m)
  <2>1. 0 .. map \subseteq 0 .. m
    BY <1>2
  <2>2. entity.image \in [Nodes -> 0 .. m]
    BY <1>2, <2>1 DEF Typed
  <2>3. entity.activeJob \in Jobs(m) \cup {NoJob}
    BY <1>2, <2>1 DEF Typed, Jobs
  <2>4. Typed(entity, m)
    BY <1>2, <2>2, <2>3 DEF Typed
  <2> QED
    BY <1>2, <2>4, TypedIs
<1>5. limit' \in [loaded : Nat, changes : Nat] /\ limit'.loaded = limit.loaded
  BY <1>1, <1>2
<1>6. l \subseteq Nodes
  BY <1>2
<1> HIDE DEF m, l
\* The nodes shown are queued for an update, and then the others.
<1>7. /\ active \in Entities(m) /\ Consistent(active)
      /\ Loaded(active) = Loaded(entity)
      /\ active.activeNodes = entity.activeNodes /\ active.enabled = entity.enabled
      /\ \A n \in Nodes : n \in ToSet(entity.activeNodes) \/ Anew(entity, n, m) =>
                            Anew(active, n, m)
      /\ \A n \in Nodes : LoadingIsOlder(entity, active, n)
  <2> DEFINE nodes == entity.activeNodes
  <2>1. nodes \in Seq(Nodes) /\ IsInjective(nodes)
    BY <1>2 DEF Typed, Consistent
  <2>2. ToSet(nodes) \subseteq Loaded(entity)
    BY <1>2, <1>3 DEF Typed, Shown, Loaded
  <2> HIDE DEF nodes
  <2>3. active = updateNodes(entity, nodes, m)
    BY DEF nodes
  <2> HIDE DEF active
  <2>4. /\ active \in Entities(m) /\ Consistent(active)
        /\ Loaded(active) = Loaded(entity)
        /\ active.activeNodes = entity.activeNodes /\ active.enabled = entity.enabled
        /\ \A n \in Nodes : n \in ToSet(nodes) \/ Anew(entity, n, m) => Anew(active, n, m)
        /\ \A n \in Nodes : LoadingIsOlder(entity, active, n)
    BY <1>2, <1>4, <2>1, <2>2, <2>3, UpdateNodesKeeps
  <2> QED
    BY <2>4 DEF nodes
<1> HIDE DEF active
<1>8. /\ inactive \in Seq(Nodes) /\ IsInjective(inactive)
      /\ ToSet(inactive) = Loaded(active) \ ToSet(active.activeNodes)
  <2> DEFINE rest == {n \in Nodes : Resident(active, n)} \ ToSet(active.activeNodes)
  <2>1. descendants \in Seq(Nodes) /\ IsInjective(descendants) /\ ToSet(descendants) = Nodes
    BY TreeAssumption
  <2>2. rest = Loaded(active) \ ToSet(active.activeNodes) /\ Nodes \cap rest = rest
    BY DEF Loaded
  <2>3. inactive = Select(descendants, rest)
    OBVIOUS
  <2> HIDE DEF rest
  <2>4. /\ Select(descendants, rest) \in Seq(Nodes)
        /\ ToSet(Select(descendants, rest)) = ToSet(descendants) \cap rest
        /\ IsInjective(Select(descendants, rest))
    BY <2>1, SelectIs
  <2> QED
    BY <2>1, <2>2, <2>3, <2>4
<1> HIDE DEF inactive
<1>9. /\ all \in Entities(m) /\ Consistent(all)
      /\ Loaded(all) = Loaded(active)
      /\ all.activeNodes = active.activeNodes /\ all.enabled = active.enabled
      /\ \A n \in Nodes : n \in ToSet(inactive) \/ Anew(active, n, m) => Anew(all, n, m)
      /\ \A n \in Nodes : LoadingIsOlder(active, all, n)
  <2>1. ToSet(inactive) \subseteq Loaded(active)
    BY <1>8
  <2> HIDE DEF all
  <2>2. all = updateNodes(active, inactive, m)
    BY DEF all
  <2> QED
    BY <1>4, <1>7, <1>8, <2>1, <2>2, UpdateNodesKeeps
<1> HIDE DEF all
<1>10. /\ entity' \in Entities(m) /\ Consistent(entity')
       /\ Shown(all) => Shown(entity')
       /\ Loaded(entity') = Loaded(all)
       /\ \A n \in Nodes : Anew(all, n, m) => Anew(entity', n, m)
       /\ \A n \in Nodes : LoadingIsOlder(all, entity', n)
       /\ entity'.needsUpdate
  <2>1. entity' = [all EXCEPT !.needsUpdate = TRUE]
    BY <1>1
  <2>2. WithDue(all, entity')
    BY <2>1 DEF WithDue
  <2>3. entity'.needsUpdate
    <3>1. Typed(all, m)
      BY <1>4, <1>9, TypedIs
    <3> QED
      BY <2>1, <3>1 DEF Typed, Members
  <2> QED
    BY <1>4, <1>9, <2>2, <2>3, NeedsUpdateKeeps
<1>11. Shown(entity')
  <2>1. Shown(all)
    BY <1>3, <1>4, <1>7, <1>9, ShownStays
  <2> QED
    BY <1>10, <2>1
<1>12. ASSUME NEW n \in Loaded(entity') PROVE Anew(entity', n, m)
  <2>1. n \in Nodes /\ n \in Loaded(active)
    BY <1>9, <1>10 DEF Loaded
  <2>2. n \in ToSet(entity.activeNodes) \/ n \in ToSet(inactive)
    BY <1>7, <1>8, <2>1
  <2> QED
    BY <1>7, <1>9, <1>10, <2>1, <2>2
<1>13. ASSUME NEW n \in Nodes, entity'.state[n] = "Loading", entity'.activeJob.renders = "map"
       PROVE  n \in l
  <2>1. all.state[n] = "Loading" /\ entity'.activeJob = all.activeJob
    BY <1>10, <1>13 DEF LoadingIsOlder
  <2>2. active.state[n] = "Loading" /\ all.activeJob = active.activeJob
    BY <1>9, <1>13, <2>1 DEF LoadingIsOlder
  <2>3. entity.state[n] = "Loading" /\ active.activeJob = entity.activeJob
    BY <1>7, <1>13, <2>1, <2>2 DEF LoadingIsOlder
  <2> QED
    BY <1>13, <2>1, <2>2, <2>3 DEF l
<1>14. Fresh(entity', m, l)
  <2>1. ASSUME NEW n \in Nodes, Resident(entity', n)
        PROVE  /\ entity'.state[n] \in {"QueuedForUpdate", "Updating"}
               /\ entity'.state[n] = "Updating" => entity'.activeJob.image = m
    <3>1. Anew(entity', n, m)
      BY <1>12, <2>1 DEF Loaded
    <3> QED
      BY <3>1 DEF Anew
  <2>2. \A n \in Nodes : entity'.state[n] = "Updating" => Resident(entity', n)
    BY DEF Resident, WithEntity
  <2> QED
    BY <1>13, <2>1, <2>2 DEF Fresh
<1>15. TypeOK'
  <2>1. entity' \in Entities(map')
    BY <1>1, <1>10
  <2>2. map' \in Nat /\ late' \subseteq Nodes
    BY <1>1, <1>4, <1>6
  <2> QED
    BY <1>1, <1>5, <2>1, <2>2 DEF IInv, TypeOK, Entities, Statuses, Jobs
<1>16. Complete(entity, view)'
  BY <1>10 DEF Complete
<1> QED
  BY <1>1, <1>3, <1>5, <1>10, <1>11, <1>14, <1>15, <1>16 DEF IInv, Apart

\* Every step keeps the invariant.
LEMMA NextIInv == IInv /\ [Next]_vars => IInv'
<1> SUFFICES ASSUME IInv, [Next]_vars PROVE IInv'
  OBVIOUS
<1>1. CASE OnHeightMapReady
  BY <1>1, OnHeightMapReadyIInv
<1>2. CASE OnChunkLoaded
  BY <1>2, OnChunkLoadedIInv
<1>3. CASE OnChunkUpdated
  BY <1>3, OnChunkUpdatedIInv
<1>4. CASE OnCameraChanged
  BY <1>4, OnCameraChangedIInv
<1>5. CASE OnFrameTriggered
  BY <1>5, OnFrameTriggeredIInv
<1>6. CASE InvalidateMapImages
  BY <1>6, InvalidateMapImagesIInv
<1>7. CASE CreateTerrain
  BY <1>7, CreateTerrainIInv
<1>8. CASE DestroyTerrain
  BY <1>8, DestroyTerrainIInv
<1>9. CASE CreateTerrainDeferred
  BY <1>9, CreateTerrainDeferredIInv
<1>10. CASE UNCHANGED vars
  BY <1>10 DEF vars, IInv, TypeOK, Consistent, Shown, Fresh, Apart, Calm, InLoaderQueue,
               AtWork, Loaded, Resident, Complete, NoLoads
<1> QED
  BY <1>1, <1>2, <1>3, <1>4, <1>5, <1>6, <1>7, <1>8, <1>9, <1>10 DEF Next, Deliver

\* The invariant holds in every behaviour.
LEMMA SpecIInv == Spec => []IInv
BY InitIInv, NextIInv, PTL DEF Spec

-----------------------------------------------------------------------------
(***************************************************************************)
(* The properties                                                          *)
(***************************************************************************)

\* What QgsChunkNode says of its state is true of the queues and of the job of
\* the entity, whatever the camera, the jobs, the map and the settings do: a
\* node is in the loader queue when it waits, in the replacement queue when it
\* has an entity, and at work when the job is its own.
THEOREM StatesMatchQueuesHolds == Spec => []StatesMatchQueues
<1>1. IInv => StatesMatchQueues
  BY DEF IInv, Consistent, StatesMatchQueues, InLoaderQueue, AtWork, Loaded
<1> QED
  BY <1>1, SpecIInv, PTL

\* When no view asks for more tiles than are kept, the tiles that are visible
\* are the active nodes, all of them loaded, and no ground is covered twice,
\* on any tree and from any views.
THEOREM VisibleOnceHolds ==
  ASSUME ViewsFit
  PROVE  Spec => []VisibleOnce
<1>1. IInv => VisibleOnce
  <2> SUFFICES ASSUME IInv PROVE VisibleOnce
    OBVIOUS
  <2>1. Fits(limit.loaded)
    BY DEF IInv, ViewsFit, Fits
  <2>2. Shown(entity) /\ entity.enabled \subseteq Nodes
    BY <2>1, IInvParts DEF IInv, Typed
  <2>3. ASSUME NEW n \in entity.enabled PROVE Beneath[n] \cap entity.enabled = {}
    <3> SUFFICES ASSUME NEW x \in Beneath[n] \cap entity.enabled PROVE FALSE
      OBVIOUS
    <3>1. n \in Nodes /\ x \in Nodes
      BY <2>2, <2>3
    <3>2. n \in Above[x]
      BY <3>1 DEF Above
    <3> QED
      BY <2>2, <2>3, <3>2 DEF Shown
  <2> QED
    BY <2>2, <2>3 DEF VisibleOnce, Shown
<1> QED
  BY <1>1, SpecIInv, PTL

\* In an entity without jobs and without an update that is due, all that the
\* view asks for is shown, and has the texture of the map.
LEMMA IdleShowsAll ==
  ASSUME NEW m \in Nat, NEW e \in Entities(m), Consistent(e), Shown(e),
         NEW l, Fresh(e, m, l), NEW v, NoLoads(e) => e.enabled = WantedIn(v),
         pendingJobsCount(e) = 0
  PROVE  /\ e.enabled = WantedIn(v)
         /\ \A n \in WantedIn(v) : e.image[n] = m \/ n \in l
<1>1. e.loaderQueue \in Seq(Nodes)
  BY TypedIs DEF Typed
<1>2. e.loaderQueue = <<>> /\ e.activeJob = NoJob
  <2>1. Len(e.loaderQueue) \in Nat
    BY <1>1
  <2>2. Len(e.loaderQueue) = 0 /\ e.activeJob = NoJob
    <3> DEFINE k == Len(e.loaderQueue)
               one == IF e.activeJob # NoJob THEN 1 ELSE 0
    <3>1. k + one = 0
      BY DEF pendingJobsCount
    <3>2. k \in Nat /\ one \in {0, 1} /\ (one = 0 => e.activeJob = NoJob)
      BY <2>1
    <3> HIDE DEF k, one
    <3>3. k = 0 /\ one = 0
      BY <3>1, <3>2
    <3> QED
      BY <3>2, <3>3 DEF k
  <2> QED
    BY <1>1, <2>2
<1>3. InLoaderQueue(e) = {} /\ AtWork(e) = {}
  <2>1. ToSet(<<>>) = {}
    BY DEF ToSet
  <2> QED
    BY <1>2, <2>1 DEF Consistent
<1>4. NoLoads(e) /\ Calm(e)
  BY <1>3 DEF NoLoads, Calm, InLoaderQueue, AtWork
<1>5. \A n \in e.enabled : n \in Nodes /\ Resident(e, n)
  BY TypedIs DEF Typed, Shown
<1> QED
  BY <1>4, <1>5 DEF Fresh, Calm

\* Only a camera move and a frame make the scene Ready: with the terrain shown,
\* no job left, and no update of the view that is due.
LEMMA BecomesReady ==
  ASSUME IInv, [Next]_vars, mSceneState = "Updating", mSceneState' = "Ready"
  PROVE  /\ mTerrain' = "shown"
         /\ pendingJobsCount(entity') = 0 /\ ~entity'.needsUpdate
<1> DEFINE pending == pendingJobsCount(entity')
<1>0. IInv'
  BY NextIInv
<1>1. pending \in Nat
  <2>1. entity'.loaderQueue \in Seq(Nodes)
    BY <1>0 DEF IInv, TypeOK
  <2>2. Len(entity'.loaderQueue) \in Nat
    BY <2>1
  <2> DEFINE k == Len(entity'.loaderQueue)
             one == IF entity'.activeJob # NoJob THEN 1 ELSE 0
  <2>3. pending = k + one
    BY DEF pendingJobsCount
  <2>4. one \in {0, 1}
    OBVIOUS
  <2> HIDE DEF k, one, pending
  <2> QED
    BY <2>2, <2>3, <2>4 DEF k
<1>2. ASSUME NEW scheduled, mSceneState' = SceneState(scheduled, entity')
      PROVE  ~scheduled /\ pending = 0
  <2>1. ~scheduled /\ ~(pending > 0)
    BY <1>2 DEF SceneState
  <2> QED
    BY <1>1, <2>1
<1> HIDE DEF pending
<1>3. CASE OnCameraChanged
  <2>1. /\ mTerrain = "shown" /\ mTerrain' = mTerrain
        /\ mSceneState' = SceneState(FALSE, entity')
    BY <1>3, Zenon DEF OnCameraChanged
  <2>2. ~entity'.needsUpdate
    BY <1>3, OnCameraChangedIInv
  <2>3. pending = 0
    BY <1>2, <2>1
  <2> QED
    BY <2>1, <2>2, <2>3 DEF pending
<1>4. CASE OnFrameTriggered
  <2>1. mTerrain' = mTerrain /\ mSceneState' = SceneState(mTerrain # "shown", entity')
    BY <1>4 DEF OnFrameTriggered
  <2>2. mTerrain = "shown" /\ pending = 0
    BY <1>2, <2>1
  <2>3. ~entity'.needsUpdate
    BY <1>4, <2>2, OnFrameTriggeredIInv
  <2> QED
    BY <2>1, <2>2, <2>3 DEF pending
<1>5. CASE \/ OnHeightMapReady \/ OnChunkLoaded \/ OnChunkUpdated
           \/ InvalidateMapImages \/ DestroyTerrain \/ UNCHANGED vars
  BY <1>5, Zenon DEF OnHeightMapReady, OnChunkLoaded, OnChunkUpdated, InvalidateMapImages,
                     DestroyTerrain, vars
<1>6. CASE CreateTerrain \/ CreateTerrainDeferred
  BY <1>6 DEF CreateTerrain, CreateTerrainDeferred
<1> QED
  BY <1>3, <1>4, <1>5, <1>6 DEF Next, Deliver

\* When no view asks for more tiles than are kept, the scene is never called
\* Ready while a tile that the view asks for is not shown in its detail, or
\* waits to be rendered again: not after a camera move that updates twice, nor
\* when jobs end, the map changes or the terrain is replaced in between.
THEOREM ReadyIsCompleteHolds ==
  ASSUME ViewsFit
  PROVE  Spec => ReadyIsComplete
<1> DEFINE Becomes == mSceneState = "Updating" /\ mSceneState' = "Ready" =>
             /\ entity'.enabled = Wanted'
             /\ \A n \in Wanted' : entity'.image[n] = map' \/ n \in late'
<1>1. ASSUME IInv, [Next]_vars, IInv', mSceneState = "Updating", mSceneState' = "Ready"
      PROVE  /\ entity'.enabled = Wanted'
             /\ \A n \in Wanted' : entity'.image[n] = map' \/ n \in late'
  <2>1. mTerrain' = "shown" /\ pendingJobsCount(entity') = 0 /\ ~entity'.needsUpdate
    BY <1>1, BecomesReady
  <2>2. entity' \in Entities(map') /\ map' \in Nat
    BY <1>1 DEF IInv, TypeOK, Entities, Statuses, Jobs
  <2>3. Fits(limit'.loaded)
    BY <1>1 DEF IInv, ViewsFit, Fits
  <2>4. /\ Consistent(entity') /\ Shown(entity') /\ Fresh(entity', map', late')
        /\ NoLoads(entity') => entity'.enabled = WantedIn(view')
    BY <1>1, <2>1, <2>3 DEF IInv, Complete
  <2>5. /\ entity'.enabled = WantedIn(view')
        /\ \A n \in WantedIn(view') : entity'.image[n] = map' \/ n \in late'
    BY <2>1, <2>2, <2>4, IdleShowsAll
  <2> QED
    BY <2>5 DEF Wanted
<1>2. IInv /\ IInv' /\ [Next]_vars => [Becomes]_vars
  BY <1>1
<1> QED
  BY <1>2, SpecIInv, PTL DEF Spec, ReadyIsComplete

\* A loaded tile with an old texture waits for an update, or is being updated
\* to the map as it is, but for those whose loader rendered when the map
\* changed; however often the map changes and jobs are cancelled.
THEOREM TexturesFollowMapHolds == Spec => []TexturesFollowMap
<1>1. IInv => TexturesFollowMap
  BY DEF IInv, Fresh, TexturesFollowMap
<1> QED
  BY <1>1, SpecIInv, PTL
=============================================================================
