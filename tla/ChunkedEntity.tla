--------------------------- MODULE ChunkedEntity ---------------------------
(***************************************************************************)
(* The terrain of a 3D scene: QgsChunkedEntity                             *)
(* (src/3d/chunks/qgschunkedentity_p.cpp), a quadtree of tiles that are    *)
(* loaded and unloaded as the camera moves, QgsTerrainEntity               *)
(* (src/3d/terrain/qgsterrainentity_p.cpp), which renders the map on the   *)
(* tiles again when it changes, and Qgs3DMapScene (src/3d/qgs3dmapscene.   *)
(* cpp), which updates the entity and says when the scene is ready.        *)
(*                                                                         *)
(* All of it runs in the main thread; one job at a time works in a pool    *)
(* thread, and what it delivers is handled at any later moment.  A step of *)
(* the model is a handler of the main thread.  The geometry of the camera  *)
(* is abstracted to a view: which tiles are outside the frustum and which  *)
(* are shown with an acceptable error.                                     *)
(***************************************************************************)
EXTENDS Integers, FiniteSets, Sequences, SequencesExt

CONSTANTS
  Nodes,
  Root,
  Children,  \* [Nodes -> Seq(Nodes)], <<>> for the nodes of level mMaxLevel
  NoData,    \* nodes for which there is nothing to load
  Views,     \* the views: [culled : SUBSET Nodes, fine : SUBSET Nodes]
  Limits,    \* the values of mMaxLoadedChunks with a bound on map changes
  MaxMoves,  \* bound: camera moves, and new terrains
  NoJob      \* mActiveJob is NULLPTR

ASSUME NodesAssumption ==
  /\ IsFiniteSet(Nodes) /\ Root \in Nodes /\ NoData \subseteq Nodes
  /\ Children \in [Nodes -> Seq(Nodes)]
ASSUME NoJobAssumption ==
  NoJob \notin [node : Nodes, renders : {"heights", "map"}, image : Nat]
ASSUME ViewsAssumption == Views \subseteq [culled : SUBSET Nodes, fine : SUBSET Nodes]
ASSUME BoundsAssumption ==
  /\ Limits \subseteq [loaded : Nat \ {0}, changes : Nat]
  /\ MaxMoves \in Nat

VARIABLES
  entity,      \* the state of QgsChunkedEntity and its nodes, see TypeOK
  mTerrain,    \* "shown", "leaving" (deleteLater() called) or "none"
  mSceneState,
  view,        \* what the camera sees
  map,         \* version of the map that the tiles show
  limit,       \* mMaxLoadedChunks and the changes of the map still to come
  moves,       \* camera moves and new terrains still to come
  late         \* history: nodes whose loader rendered a map that has changed since

\* The nodes of `late` that are still there.
StillLate(e) == {n \in late : e.state[n] # "Skeleton"}

vars == <<entity, mTerrain, mSceneState, view, map, limit, moves, late>>

WithEntity == {"Loaded", "QueuedForUpdate", "Updating"}

Resident(e, n) == e.state[n] \in WithEntity

(***************************************************************************)
(* The tree.                                                               *)
(***************************************************************************)
\* Each node before its children.
descendants ==
  LET visit[n \in Nodes] ==
        <<n>> \o FlattenSeq([i \in DOMAIN Children[n] |-> visit[Children[n][i]]])
  IN visit[Root]

Beneath ==
  LET below[n \in Nodes] == 
        ToSet(Children[n]) \cup UNION {below[m] : m \in ToSet(Children[n])}
  IN [n \in Nodes |-> below[n]]

Above == [n \in Nodes |-> {m \in Nodes : n \in Beneath[m]}]

\* The nodes are a tree: every node is met once from the root, and has one
\* parent, which is beneath all others that are above the node.
ASSUME TreeAssumption ==
  /\ descendants \in Seq(Nodes) /\ IsInjective(descendants)
  /\ ToSet(descendants) = Nodes
  /\ \A n \in Nodes : \A m \in ToSet(Children[n]) : Above[m] = Above[n] \cup {n}
  /\ \A n \in Nodes : \A m \in Above[n] :
       Above[m] \subseteq Above[n] /\ m \notin Above[m] /\ Children[m] # <<>>

\* A limit that tiles can be unloaded under goes without changes of the map:
\* unloadChunk() asserts that the tile does not wait to be rendered again, and
\* what it does otherwise is not defined.
ASSUME LimitsAssumption ==
  \A x \in Limits : x.changes > 0 => Cardinality(Nodes \ NoData) <= x.loaded

\* What update() can ask for in a view: the nodes that can be reached through
\* nodes in the frustum whose error is not acceptable.
Reach(v) == {n \in Nodes \ NoData : \A m \in Above[n] : m \notin v.culled \cup v.fine}

\* No view asks for more tiles than are kept loaded.  Otherwise update() would
\* unload tiles that it has just made active.
ViewsFit == \A x \in Limits : \A v \in Views : Cardinality(Reach(v)) <= x.loaded

\* The elements of a sequence that are in the set, in their order.
Select(seq, set) ==
  LET first[i \in 0..Len(seq)] ==
        IF i = 0 THEN <<>>
        ELSE IF seq[i] \in set THEN Append(first[i - 1], seq[i]) ELSE first[i - 1]
  IN first[Len(seq)]



(***************************************************************************)
(* Which nodes update() visits, asks for and makes active.                 *)
(***************************************************************************)
allChildChunksResident(e, n) ==
  /\ Children[n] # <<>>
  /\ \A m \in ToSet(Children[n]) : e.hasData[m] => Resident(e, m)

\* The node has an entity, of an error that is not acceptable.
TooCoarse(e, v, n) == Resident(e, n) /\ n \notin v.fine

\* The nodes whose children are visited instead, and the nodes visited.
Opened(e, v) ==
  {n \in Nodes \ v.culled : TooCoarse(e, v, n) /\ allChildChunksResident(e, n)}

Visited(v, opened) == {n \in Nodes \ v.culled : Above[n] \subseteq opened}

\* The nodes requestResidency() is called for: those visited, and the children
\* of those that are too coarse.
Requested(e, v, visited, opened) ==
  LET asking == {n \in visited \ opened : TooCoarse(e, v, n)}
      asked == visited \cup UNION {ToSet(Children[m]) : m \in asking}
  IN Select(descendants, asked)

\* mActiveNodes after update().
Rendered(e, visited, opened) ==
  Select(descendants, {n \in visited \ opened : Resident(e, n)})

(***************************************************************************)
(* The parts of the handlers.                                              *)
(***************************************************************************)
Without(queue, nodes) == Select(queue, Nodes \ nodes)

\* One after the other, the nodes move to the front of the queue they are in,
\* or enter the loader queue.
ToFront(queue, nodes) == Reverse(nodes) \o Without(queue, ToSet(nodes))

\* A mutant of requestResidency: a node that waits joins the queue again
\* instead of moving to its front.
requestAgain(e, nodes) ==
  LET resident == SelectSeq(nodes, LAMBDA n : Resident(e, n))
      load == SelectSeq(nodes, LAMBDA n : /\ e.state[n] \in {"Skeleton", "QueuedForLoad"}
                                          /\ e.hasData[n])
  IN [e EXCEPT !.replacementQueue = ToFront(@, resident),
               !.loaderQueue = Reverse(load) \o @,
               !.state = [n \in Nodes |-> IF n \in ToSet(load) THEN "QueuedForLoad" ELSE @[n]]]

\* requestResidency() for the nodes in turn.
requestResidency(e, nodes) ==
  LET resident == Select(nodes, {n \in Nodes : Resident(e, n)})
      load == Select(nodes, {n \in Nodes : \/ e.state[n] = "QueuedForLoad"
                                           \/ e.state[n] = "Skeleton" /\ e.hasData[n]})
  IN [e EXCEPT !.replacementQueue = ToFront(@, resident),
               !.loaderQueue = ToFront(@, load),
               !.state = [n \in Nodes |-> IF n \in ToSet(load) THEN "QueuedForLoad" ELSE @[n]]]

\* A mutant of unloadChunks: the nodes used last are unloaded.
unloadNewest(e) ==
  LET queue == e.replacementQueue
      kept == SubSeq(queue, IF Len(queue) > limit.loaded THEN Len(queue) - limit.loaded + 1 ELSE 1,
                     Len(queue))
      gone == ToSet(queue) \ ToSet(kept)
  IN [e EXCEPT !.replacementQueue = kept,
               !.enabled = @ \ gone,
               !.state = [n \in Nodes |-> IF n \in gone THEN "Skeleton" ELSE @[n]]]

\* unloadChunk() for the nodes over the limit, the last ones of the queue.
unloadChunks(e) ==
  LET queue == e.replacementQueue
      kept == SubSeq(queue, 1, IF Len(queue) > limit.loaded THEN limit.loaded ELSE Len(queue))
      gone == ToSet(queue) \ ToSet(kept)
  IN [e EXCEPT !.replacementQueue = kept,
               !.enabled = @ \ gone,
               !.state = [n \in Nodes |-> IF n \in gone THEN "Skeleton" ELSE @[n]]]

\* The first node of the queue gets a job; an update renders the map `version`.
startJob(e, version) ==
  IF e.activeJob # NoJob \/ e.loaderQueue = <<>> THEN e
  ELSE LET n == Head(e.loaderQueue)
           load == e.state[n] = "QueuedForLoad"
       IN [e EXCEPT !.loaderQueue = Tail(@),
                    !.state[n] = IF load THEN "Loading" ELSE "Updating",
                    !.activeJob = [node |-> n,
                                   renders |-> IF load THEN "heights" ELSE "map",
                                   image |-> IF load THEN 0 ELSE version]]

\* The nodes that leave mActiveNodes are hidden, those that enter it shown.
update(e, v) ==
  LET opened == Opened(e, v)
      visited == Visited(v, opened)
      before == ToSet(e.activeNodes)
      after == Rendered(e, visited, opened)
      asked == requestResidency(e, Requested(e, v, visited, opened))
      shown == [asked EXCEPT !.activeNodes = after,
                             !.enabled = (@ \cup (ToSet(after) \ before))
                                           \ (before \ ToSet(after))]
  IN [startJob(unloadChunks(shown), map) EXCEPT !.needsUpdate = FALSE]

cancelActiveJob(e) ==
  LET n == e.activeJob.node
  IN [e EXCEPT !.activeJob = NoJob,
               !.state[n] = IF @ = "Loading" THEN "Skeleton" ELSE "Loaded"]

\* A mutant of updateNodes: an update that runs is left to finish.
updateNodesUnlessUpdating(e, nodes, version) ==
  LET queued == SelectSeq(nodes, LAMBDA n : e.state[n] # "Updating")
  IN startJob([e EXCEPT !.loaderQueue = Without(@, ToSet(queued)) \o queued,
                        !.state = [n \in Nodes |-> IF n \in ToSet(queued)
                                                     THEN "QueuedForUpdate" ELSE @[n]]],
              version)

\* What is queued or running for the nodes is dropped, and they are queued for
\* an update, in their order.
updateNodes(e, nodes, version) ==
  LET updating == e.activeJob # NoJob /\ e.activeJob.node \in ToSet(nodes)
      kept == IF updating THEN cancelActiveJob(e) ELSE e
  IN startJob([kept EXCEPT !.loaderQueue = Without(@, ToSet(nodes)) \o nodes,
                           !.state = [n \in Nodes |-> IF n \in ToSet(nodes)
                                                        THEN "QueuedForUpdate" ELSE @[n]]],
              version)

\* A mutant of pendingJobsCount: the job that runs does not count.
queuedJobsCount(e) == Len(e.loaderQueue)

pendingJobsCount(e) == Len(e.loaderQueue) + (IF e.activeJob # NoJob THEN 1 ELSE 0)

\* updateSceneState(), with mTerrainUpdateScheduled and the entity as given.
SceneState(scheduled, e) ==
  IF scheduled \/ pendingJobsCount(e) > 0 THEN "Updating" ELSE "Ready"

(***************************************************************************)
(* The scene is created with its terrain and updated for the first view.   *)
(***************************************************************************)
NewEntity ==
  [state |-> [n \in Nodes |-> "Skeleton"], hasData |-> [n \in Nodes |-> TRUE],
   image |-> [n \in Nodes |-> 0], loaderQueue |-> <<>>, replacementQueue |-> <<>>,
   activeNodes |-> <<>>, enabled |-> {}, activeJob |-> NoJob, needsUpdate |-> FALSE]

Init ==
  /\ map = 1
  /\ limit \in Limits
  /\ view \in Views
  /\ entity = update(NewEntity, view)
  /\ mTerrain = "shown"
  /\ mSceneState = SceneState(FALSE, entity)
  /\ moves = MaxMoves
  /\ late = {}

(***************************************************************************)
(* Jobs deliver.                                                           *)
(***************************************************************************)
\* onHeightMapReady(): the loader goes on with the texture, of the map as it is.
OnHeightMapReady ==
  /\ entity.activeJob # NoJob
  /\ entity.activeJob.renders = "heights"
  /\ entity' = [entity EXCEPT !.activeJob.renders = "map", !.activeJob.image = map]
  /\ UNCHANGED <<mTerrain, mSceneState, view, map, limit, moves, late>>

\* A loaded node has a bounding box of its own, of which the camera may see
\* more or less than of the one it was given by its parent.
Reshaped(n) == 
  {v \in Views : v.culled \ {n} = view.culled \ {n} /\ v.fine \ {n} = view.fine \ {n}}

\* onImageReady() of a loader, and onActiveJobFinished().
OnChunkLoaded ==
  LET n == entity.activeJob.node
      loaded == [entity EXCEPT !.state[n] = "Loaded",
                               !.image[n] = entity.activeJob.image,
                               !.replacementQueue = <<n>> \o @]
      empty == [entity EXCEPT !.state[n] = "Skeleton", !.hasData[n] = FALSE]
      done == IF n \in NoData THEN empty ELSE loaded
  IN /\ entity.activeJob # NoJob
     /\ entity.state[n] = "Loading" /\ entity.activeJob.renders = "map"
     /\ entity' = startJob([done EXCEPT !.activeJob = NoJob, !.needsUpdate = TRUE], map)
     /\ view' \in IF n \in NoData THEN {view} ELSE Reshaped(n)
     /\ late' = StillLate(entity')
     /\ UNCHANGED <<mTerrain, mSceneState, map, limit, moves>>

\* A mutant of OnChunkUpdated: no other job is started.
OnChunkUpdatedIdle ==
  LET n == entity.activeJob.node
  IN /\ entity.activeJob # NoJob
     /\ entity.state[n] = "Updating"
     /\ entity' = [entity EXCEPT !.state[n] = "Loaded",
                                 !.image[n] = entity.activeJob.image,
                                 !.activeJob = NoJob]
     /\ late' = late \ {n}
     /\ UNCHANGED <<mTerrain, mSceneState, view, map, limit, moves>>

\* onTileReady() of an updater, and onActiveJobFinished().
OnChunkUpdated ==
  LET n == entity.activeJob.node
  IN /\ entity.activeJob # NoJob
     /\ entity.state[n] = "Updating"
     /\ entity' = startJob([entity EXCEPT !.state[n] = "Loaded",
                                          !.image[n] = entity.activeJob.image,
                                          !.activeJob = NoJob], map)
     /\ late' = late \ {n}
     /\ UNCHANGED <<mTerrain, mSceneState, view, map, limit, moves>>

(***************************************************************************)
(* Events of the scene.                                                    *)
(***************************************************************************)
\* onCameraChanged().  The first update may move the near and far planes, and
\* the entity is then updated again for what is seen between the new ones.
OnCameraChanged ==
  /\ moves > 0
  /\ mTerrain = "shown"
  /\ \E v \in Views :
       LET first == update(entity, v)
       IN \/ view' = v /\ entity' = first
          \/ \E w \in Views \ {v} : view' = w /\ entity' = update(first, w)
  /\ mSceneState' = SceneState(FALSE, entity')
  /\ moves' = moves - 1
  /\ late' = StillLate(entity')
  /\ UNCHANGED <<mTerrain, map, limit>>

OnFrameTriggered ==
  /\ entity' = IF mTerrain = "shown" /\ entity.needsUpdate THEN update(entity, view) ELSE entity
  /\ mSceneState' = SceneState(mTerrain # "shown", entity')
  /\ late' = StillLate(entity')
  /\ UNCHANGED <<mTerrain, view, map, limit, moves>>

\* invalidateMapImages(), called when the layers or the settings change.
InvalidateMapImages ==
  /\ limit.changes > 0
  /\ mTerrain # "none"
  /\ limit' = [limit EXCEPT !.changes = @ - 1]
  /\ map' = map + 1
  /\ LET active == updateNodes(entity, entity.activeNodes, map')
         inactive == Select(descendants, {n \in Nodes : Resident(active, n)}
                                           \ ToSet(active.activeNodes))
     IN entity' = [updateNodes(active, inactive, map') EXCEPT !.needsUpdate = TRUE]
  /\ late' = late \cup {n \in Nodes : /\ entity.state[n] = "Loading"
                                     /\ entity.activeJob.renders = "map"}
  /\ UNCHANGED <<mTerrain, mSceneState, view, moves>>

\* createTerrain(), when settings change that concern all tiles.
CreateTerrain ==
  /\ moves > 0
  /\ mTerrain = "shown"
  /\ mTerrain' = "leaving"
  /\ mSceneState' = "Updating"
  /\ moves' = moves - 1
  /\ UNCHANGED <<entity, view, map, limit, late>>

\* ~QgsTerrainEntity() and ~QgsChunkedEntity(): the job and the queued loads
\* and updates are cancelled, and the nodes of the replacement queue unloaded.
DestroyTerrain ==
  LET idle == IF entity.activeJob # NoJob THEN cancelActiveJob(entity) ELSE entity
      cancelled == [n \in Nodes |-> CASE n \notin ToSet(idle.loaderQueue) -> idle.state[n]
                                      [] n \in ToSet(idle.loaderQueue) /\ Resident(idle, n) ->
                                           "Loaded"
                                      [] OTHER -> "Skeleton"]
  IN /\ mTerrain = "leaving"
     /\ mTerrain' = "none"
     /\ entity' = [NewEntity EXCEPT !.state = [n \in Nodes |->
                     IF n \in ToSet(idle.replacementQueue) THEN "Skeleton" ELSE cancelled[n]]]
     /\ late' = {}
     /\ UNCHANGED <<mSceneState, view, map, limit, moves>>

\* createTerrainDeferred(), with the scene state still Updating.
CreateTerrainDeferred ==
  /\ mTerrain = "none"
  /\ mTerrain' = "shown"
  /\ entity' = update(NewEntity, view)
  /\ mSceneState' = "Updating"
  /\ UNCHANGED <<view, map, limit, moves, late>>

Deliver == OnHeightMapReady \/ OnChunkLoaded \/ OnChunkUpdated
Next ==
  \/ Deliver
  \/ OnCameraChanged \/ OnFrameTriggered \/ InvalidateMapImages
  \/ CreateTerrain \/ DestroyTerrain \/ CreateTerrainDeferred

Spec == Init /\ [][Next]_vars

\* A frame has something to do.
FrameDue ==
  \/ mTerrain = "shown" /\ entity.needsUpdate
  \/ mSceneState # SceneState(mTerrain # "shown", entity)

\* Jobs end, their events and the queued calls are handled, and the 3D engine
\* goes on to trigger frames: weak fairness of these actions, spelled out with
\* the conditions that enable them, which TLC evaluates at less cost.
FairSpec ==
  /\ Spec
  /\ []<>(entity.activeJob = NoJob) \/ []<><<Deliver>>_vars
  /\ []<>~FrameDue \/ []<><<OnFrameTriggered>>_vars
  /\ []<>(mTerrain # "none") \/ []<><<CreateTerrainDeferred>>_vars
  /\ WF_vars(DestroyTerrain)
-----------------------------------------------------------------------------
\* TYPE INVARIANT: the entity, its nodes, its queues and its job, and the
\* scene have the types of the code's members.
TypeOK ==
  /\ entity \in [state : [Nodes -> {"Skeleton", "QueuedForLoad", "Loading"} \cup WithEntity],
                 hasData : [Nodes -> BOOLEAN], image : [Nodes -> 0..map],
                 loaderQueue : Seq(Nodes), replacementQueue : Seq(Nodes),
                 activeNodes : Seq(Nodes), enabled : SUBSET Nodes,
                 activeJob : [node : Nodes, renders : {"heights", "map"}, image : 0..map]
                               \cup {NoJob},
                 needsUpdate : BOOLEAN]
  /\ mTerrain \in {"shown", "leaving", "none"}
  /\ mSceneState \in {"Ready", "Updating"}
  /\ view \in Views
  /\ map \in Nat
  /\ limit \in [loaded : Nat, changes : Nat]
  /\ moves \in 0..MaxMoves
  /\ late \subseteq Nodes

\* SAFETY: what the members of QgsChunkNode say of the state of a node is true
\* of the queues and of the job, whichever handlers have run: a node waits in
\* the loader queue, once, exactly in the two queued states; it can be
\* unloaded exactly when it has an entity; and the one job is that of the one
\* node that is loading or updating.  (When the entity is destroyed, all nodes
\* are thus skeletons, as their destructor asserts.)
StatesMatchQueues ==
  /\ TypeOK
  /\ IsInjective(entity.loaderQueue) /\ IsInjective(entity.replacementQueue)
  /\ ToSet(entity.loaderQueue) =
       {n \in Nodes : entity.state[n] \in {"QueuedForLoad", "QueuedForUpdate"}}
  /\ ToSet(entity.replacementQueue) = {n \in Nodes : Resident(entity, n)}
  /\ {n \in Nodes : entity.state[n] \in {"Loading", "Updating"}} =
       (IF entity.activeJob = NoJob THEN {} ELSE {entity.activeJob.node})

\* SAFETY: the tiles that are visible are exactly the active nodes, all of
\* them loaded, and no two of them cover the same ground: none is hidden or
\* left over after loads, evictions, camera moves and updates in any order.
\* (update() and invalidateMapImages() use the entities of active nodes
\* without a test.)
VisibleOnce ==
  /\ entity.enabled = ToSet(entity.activeNodes)
  /\ \A n \in entity.enabled :
       Resident(entity, n) /\ Beneath[n] \cap entity.enabled = {}

\* SAFETY: a loaded tile that shows an old map is going to be rendered again,
\* whatever happened to its queued or running update when the map changed
\* again; but for tiles whose loader was rendering when the map changed, which
\* nothing renders again.
TexturesFollowMap ==
  \A n \in Nodes \ late :
    Resident(entity, n) =>
      \/ entity.image[n] = map
      \/ entity.state[n] = "QueuedForUpdate"
      \/ entity.state[n] = "Updating" /\ entity.activeJob.image = map

\* What a view is to show once all that it needs is loaded.
WantedIn(v) ==
  {n \in Nodes \ (v.culled \cup NoData) :
     /\ n \in v.fine \/ Children[n] = <<>>
     /\ \A m \in Above[n] : m \notin v.culled \cup v.fine \cup NoData}

Wanted == WantedIn(view)

\* ACTION PROPERTY: when the scene becomes Ready, the state in which layouts
\* and exports take their picture, every tile that the view asks for is shown
\* in its detail, and none waits to be rendered again.
ReadyIsComplete ==
  [][mSceneState = "Updating" /\ mSceneState' = "Ready" =>
       /\ entity'.enabled = Wanted'
       /\ \A n \in Wanted' : entity'.image[n] = map' \/ n \in late']_vars

\* LIVENESS: when the camera and the map stay as they are, the scene becomes
\* ready and complete, and stays so: no tile is loaded and unloaded for ever.
SceneSettles ==
  <>[](mSceneState = "Ready" /\ mTerrain = "shown" /\ entity.enabled = Wanted)
=============================================================================
