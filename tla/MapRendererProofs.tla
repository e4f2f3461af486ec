------------------------- MODULE MapRendererProofs -------------------------
(***************************************************************************)
(* Proofs about MapRenderer, for any layers, extents, number of jobs and   *)
(* requests, and for either kind of job.                                   *)
(***************************************************************************)
EXTENDS MapRenderer, TLAPS

-----------------------------------------------------------------------------
(***************************************************************************)
(* The inductive invariant: what a job object is                           *)
(***************************************************************************)

Image ==
  [shows : UNION {[ls -> Nat] : ls \in SUBSET Layers},
   drawn : {"no", "part", "whole"},
   extent : Extents,
   late : SUBSET Layers]

Draw == {"todo", "busy", "ended"}

LayerJob == [cached : BOOLEAN, draw : Draw, image : Image]

\* A new image of a layer shows that layer.
LayerJobs ==
  {layers \in [Layers -> LayerJob] :
     \A l \in Layers : ~layers[l].cached => DOMAIN layers[l].image.shows = {l}}

LabelJob == [cached : BOOLEAN, complete : BOOLEAN, draw : Draw, image : Image]

Slots == {"renderLayersFinished", "renderingFinished", "futureFinished", "none"}

\* A job that draws, and one that has ended.
ActiveJob ==
  [status : {"RenderingLayers", "RenderingLabels"}, kind : {"parallel", "sequential"},
   stopped : BOOLEAN, cache : BOOLEAN, extent : Extents, labeling : BOOLEAN,
   layers : LayerJobs, labels : LabelJob,
   slot : Slots, labelSlot : BOOLEAN, told : BOOLEAN,
   labelsRun : BOOLEAN, labelsTold : BOOLEAN,
   receiver : {"canvas", "itself", "nobody"}, emitted : {0}, late : SUBSET Layers]

IdleJob ==
  [status : {"Idle"}, kind : {"parallel", "sequential"},
   stopped : BOOLEAN, cache : BOOLEAN, extent : Extents, labeling : BOOLEAN,
   layers : {<<>>}, labels : {NoLabels},
   slot : Slots, labelSlot : BOOLEAN, told : BOOLEAN,
   labelsRun : BOOLEAN, labelsTold : BOOLEAN,
   receiver : {"canvas", "itself", "nobody"}, emitted : {1}, late : {{}}]

JobsTyped == job \in [Jobs -> {NoObject} \cup ActiveJob \cup IdleJob]

\* The slots that the watchers of a job are connected to: once past the layers,
\* the watcher of the layers has been heard or was disconnected; that of the labels
\* is connected when their drawing starts, and once the job has ended it has been
\* heard or was disconnected.
WatchersHeard(rec) ==
  /\ rec.status # "RenderingLayers" => rec.told \/ rec.slot = "none"
  /\ rec.status = "RenderingLayers" <=> ~rec.labelsRun /\ rec.emitted = 0
  /\ rec.labelSlot => rec.labelsRun
  /\ rec.status = "Idle" /\ rec.labelSlot => rec.labelsTold
  /\ rec.slot = "renderLayersFinished" => rec.kind = "parallel"
  /\ rec.slot = "futureFinished" => rec.kind = "sequential"
  /\ rec.slot = "renderingFinished" => rec.stopped

\* The images of a job that was not stopped: those whose drawing has ended are
\* whole, the labels are drawn after the layers, and those of a new label image
\* come from layers that are drawn too.
DrawnInOrder(rec) ==
  /\ \A l \in Layers :
       /\ rec.layers[l].image.extent = rec.extent
       /\ rec.layers[l].draw = "ended" => rec.layers[l].image.drawn = "whole"
  /\ rec.labels.image.extent = rec.extent
  /\ rec.labels.cached => rec.labels.complete
  /\ rec.labels.draw # "todo" => LayersEnded(rec)
  /\ rec.labels.draw = "busy" => rec.labeling
  /\ rec.labels.draw = "ended" /\ rec.labeling => rec.labels.complete
  /\ rec.labeling /\ ~rec.labels.cached => \A l \in Labeled : ~rec.layers[l].cached
  /\ rec.labels.complete => /\ DOMAIN rec.labels.image.shows = Labeled
                            /\ Labeled # {} => rec.labels.image.drawn = "whole"
  /\ ~rec.labels.complete => DOMAIN rec.labels.image.shows = {}

\* An image shows a layer as it is now, but for layers that have asked since.
ShowsNow(image, late) ==
  \A l \in DOMAIN image.shows \ late : image.shows[l] = appearance[l]

\* The new images of a job that was not stopped are current.
DrawsCurrent(rec) ==
  /\ \A l \in Layers : ~rec.layers[l].cached => ShowsNow(rec.layers[l].image, rec.late)
  /\ ~rec.labels.cached => /\ DOMAIN rec.labels.image.shows \subseteq Labeled
                           /\ ShowsNow(rec.labels.image, rec.late)

-----------------------------------------------------------------------------
(***************************************************************************)
(* The inductive invariant: canvas, jobs and cache                         *)
(***************************************************************************)

\* The main thread is inside a call of job j.
BlockedOn(j) == blocked # None /\ blocked.on = j

\* A job object agrees with the canvas, the cache and the call that waits for it.
\* The canvas knows the job exactly until it is given up or has ended, and a job
\* that was stopped has been given up.
JobAgrees(j) ==
  /\ WatchersHeard(job[j])
  /\ Active(j) => (job[j].stopped <=> job[j].receiver # "canvas")
  /\ Active(j) /\ job[j].receiver = "canvas" => mJob = j
  /\ mJob = j => \/ Active(j) /\ job[j].receiver = "canvas"
                 \/ job[j].receiver = "nobody"
  /\ job[j].receiver = "nobody" => BlockedOn(j) /\ blocked.what = "destroy"
  /\ BlockedOn(j) => /\ ~job[j].labelSlot
                     /\ job[j].status = "RenderingLayers" => job[j].slot = "none"
  /\ Active(j) /\ ~job[j].stopped =>
       /\ job[j].cache = mCache
       /\ mExtent \in {NoExtent, job[j].extent}
       /\ DrawnInOrder(job[j])
       /\ DrawsCurrent(job[j])

JobsAgree == \A j \in Jobs : job[j].status # "none" => JobAgrees(j)

\* The call that blocks the main thread, and what the canvas holds then.
BlockedAgrees ==
  /\ mJob # NoJob => mJob \in Jobs /\ job[mJob].status # "none"
  /\ blocked # None =>
       \/ /\ blocked.what = "caching"
          /\ blocked.on \in Jobs /\ job[blocked.on].status # "none"
          /\ mJob \in {blocked.on, NoJob}
       \/ /\ blocked.what = "destroy"
          /\ blocked.on \in Jobs /\ job[blocked.on].status # "none"
          /\ mJob = blocked.on /\ job[mJob].receiver = "nobody"
       \/ /\ blocked.what = "destroyed"
          /\ blocked.on = NoJob /\ mJob = NoJob

\* The cache has only whole images, but for labels that were not to be drawn, all
\* for its extent, and hears the layers that they show.
CacheAgrees ==
  /\ ~mCache => mExtent = NoExtent
  /\ DOMAIN mCachedImages \subseteq IF mCache THEN Layers \cup {Labels} ELSE {}
  /\ \A k \in DOMAIN mCachedImages :
       /\ mCachedImages[k] \in Image
       /\ DOMAIN mCachedImages[k].shows \subseteq mConnectedLayers
       /\ ShowsNow(mCachedImages[k], mCachedImages[k].late)
       /\ mExtent # NoExtent => mCachedImages[k].extent = mExtent
       /\ \/ mCachedImages[k].drawn = "whole"
          \/ k = Labels /\ DOMAIN mCachedImages[k].shows = {}

\* No layer has changed more often than requests were made.
RequestsAgree ==
  /\ requests \in 0 .. MaxRequests
  /\ \A l \in Layers : appearance[l] <= requests
  /\ mUseParallelRendering \in BOOLEAN

\* The inductive invariant.  PictureSound needs a layer that is labelled: see
\* PictureSoundHolds.
IInv ==
  /\ TypeOK
  /\ RequestsAgree
  /\ JobsTyped
  /\ JobsAgree
  /\ BlockedAgrees
  /\ CacheAgrees
  /\ Labeled # {} => PictureSound

USE LayersAssumption, NoneAssumption, ExtentsAssumption, BoundsAssumption

\* A new canvas has no job, nothing cached and shows nothing.
LEMMA InitIInv == Init => IInv
<1> SUFFICES ASSUME Init PROVE IInv
  OBVIOUS
<1>1. DOMAIN mCachedImages = {}
  BY DEF Init
<1>2. TypeOK
  <2>1. /\ appearance \in [Layers -> 0 .. MaxRequests]
        /\ mExtent \in Extents \cup {NoExtent} /\ extent \in Extents
        /\ mConnectedLayers \subseteq Layers /\ mJob \in Jobs \cup {NoJob}
    BY DEF Init
  <2>2. \A j \in Jobs : job[j].status = "none"
    BY DEF Init, NoObject
  <2>3. \A b \in {mCache, mRefreshScheduled, mJobCanceled, drawLabeling, alive} : b \in BOOLEAN
    BY DEF Init
  <2> QED
    BY <1>1, <2>1, <2>2, <2>3 DEF TypeOK
<1>3. RequestsAgree
  BY DEF Init, RequestsAgree
<1>4. JobsTyped
  BY DEF Init, JobsTyped
<1>5. JobsAgree /\ BlockedAgrees /\ PictureSound
  BY DEF Init, JobsAgree, BlockedAgrees, PictureSound, NoObject
<1>6. CacheAgrees
  BY <1>1 DEF Init, CacheAgrees
<1> QED
  BY <1>2, <1>3, <1>4, <1>5, <1>6 DEF IInv

-----------------------------------------------------------------------------
(***************************************************************************)
(* Steps of the pool's threads                                             *)
(***************************************************************************)

\* A job agrees with its surroundings as long as neither changes.
LEMMA AgreesStill ==
  ASSUME NEW j \in Jobs, job[j].status # "none" => JobAgrees(j), job'[j] = job[j],
         UNCHANGED <<mJob, blocked, mCache, appearance>>,
         mExtent' \in {mExtent, NoExtent}
  PROVE  job'[j].status # "none" => JobAgrees(j)'
BY DEF JobAgrees, Active, BlockedOn, DrawsCurrent, ShowsNow

\* What can be told of the kind of a job object from its status.
LEMMA JobKinds ==
  ASSUME JobsTyped, NEW j \in Jobs
  PROVE  /\ job[j].status = "none" => job[j] = NoObject
         /\ Active(j) => job[j] \in ActiveJob
         /\ job[j].status = "Idle" => job[j] \in IdleJob
         /\ job[j].status \in {"none", "RenderingLayers", "RenderingLabels", "Idle"}
BY DEF JobsTyped, ActiveJob, IdleJob, NoObject, Active

\* A job that goes on, and nothing else changes.
LEMMA OneJobGoesOn ==
  ASSUME IInv, NEW j \in Jobs, Active(j), NEW rec \in ActiveJob,
         job' = [job EXCEPT ![j] = rec],
         UNCHANGED <<cacheVars, mCache, canvasVars, blocked, userVars, content>>,
         rec.receiver = job[j].receiver, rec.stopped = job[j].stopped,
         rec.cache = job[j].cache, rec.extent = job[j].extent,
         WatchersHeard(rec),
         BlockedOn(j) => /\ ~rec.labelSlot
                         /\ rec.status = "RenderingLayers" => rec.slot = "none",
         ~rec.stopped => DrawnInOrder(rec) /\ DrawsCurrent(rec)
  PROVE  IInv'
<1> USE DEF cacheVars, canvasVars, settingsVars, userVars
<1>1. /\ job'[j] = rec /\ \A k \in Jobs \ {j} : job'[k] = job[k]
      /\ job' \in [Jobs -> {NoObject} \cup ActiveJob \cup IdleJob]
  BY DEF IInv, JobsTyped
<1>2. rec.status \in {"RenderingLayers", "RenderingLabels"} /\ rec.emitted = 0
  BY DEF ActiveJob
<1>3. JobAgrees(j)
  BY DEF IInv, JobsAgree, Active
<1>4. JobAgrees(j)'
  <2>1. (DrawsCurrent(rec) <=> DrawsCurrent(job[j])') /\ WatchersHeard(rec) = WatchersHeard(job[j])'
          /\ DrawnInOrder(rec) = DrawnInOrder(job[j])'
    BY <1>1 DEF DrawsCurrent, ShowsNow
  <2> QED
    BY <1>1, <1>2, <1>3, <2>1 DEF JobAgrees, Active, BlockedOn
<1>5. JobsAgree'
  <2>1. ASSUME NEW k \in Jobs \ {j}, job'[k].status # "none" PROVE JobAgrees(k)'
    BY <1>1, <2>1, AgreesStill DEF IInv, JobsAgree
  <2> QED
    BY <1>4, <2>1 DEF JobsAgree
<1>6. TypeOK'
  BY <1>1, <1>2 DEF IInv, TypeOK
<1>7. RequestsAgree' /\ JobsTyped' /\ CacheAgrees'
  BY <1>1 DEF IInv, RequestsAgree, JobsTyped, CacheAgrees, ShowsNow
<1>8. BlockedAgrees'
  BY <1>1, <1>2 DEF IInv, BlockedAgrees, Active
<1> QED
  BY <1>5, <1>6, <1>7, <1>8 DEF IInv, PictureSound

\* What a job of the pool has before it draws.
LEMMA ActiveAgrees ==
  ASSUME IInv, NEW j \in Jobs, Active(j)
  PROVE  /\ job[j] \in ActiveJob /\ JobAgrees(j)
         /\ WatchersHeard(job[j])
         /\ BlockedOn(j) => /\ ~job[j].labelSlot
                            /\ job[j].status = "RenderingLayers" => job[j].slot = "none"
         /\ ~job[j].stopped => DrawnInOrder(job[j]) /\ DrawsCurrent(job[j])
<1>1. job[j] \in ActiveJob
  BY JobKinds DEF IInv
<1>2. JobAgrees(j)
  BY DEF IInv, JobsAgree, Active
<1> QED
  BY <1>1, <1>2 DEF JobAgrees

LEMMA StartLayerKeepsIInv ==
  ASSUME IInv, NEW j \in Jobs, NEW l \in Layers, StartLayer(j, l)
  PROVE  IInv'
<1> DEFINE layer == [job[j].layers[l] EXCEPT !.draw = "busy"]
           rec == [job[j] EXCEPT !.layers = [@ EXCEPT ![l] = layer]]
<1>1. Active(j) /\ job[j].status = "RenderingLayers"
  BY DEF StartLayer, Active
<1>2. /\ job[j] \in ActiveJob /\ job[j].layers \in LayerJobs
      /\ job[j].layers \in [Layers -> LayerJob]
  BY <1>1, ActiveAgrees DEF ActiveJob, LayerJobs
<1>3. layer \in LayerJob
  BY <1>2 DEF LayerJob, Draw
<1>4. rec \in ActiveJob
  <2>1. [job[j].layers EXCEPT ![l] = layer] \in LayerJobs
    BY <1>2, <1>3 DEF LayerJobs, LayerJob
  <2> QED
    BY <1>2, <2>1 DEF ActiveJob
<1>5. job' = [job EXCEPT ![j] = rec]
  BY DEF StartLayer
<1>6. WatchersHeard(rec)
  BY <1>1, <1>2, ActiveAgrees DEF WatchersHeard, ActiveJob
<1>7. ASSUME ~rec.stopped PROVE DrawnInOrder(rec) /\ DrawsCurrent(rec)
  <2>1. DrawnInOrder(job[j]) /\ DrawsCurrent(job[j])
    BY <1>1, <1>2, <1>7, ActiveAgrees DEF ActiveJob
  <2>2. /\ rec.labels = job[j].labels /\ rec.extent = job[j].extent
        /\ rec.labeling = job[j].labeling /\ rec.late = job[j].late
        /\ rec.layers[l] = layer /\ \A k \in Layers \ {l} : rec.layers[k] = job[j].layers[k]
        /\ DOMAIN rec.layers = Layers /\ DOMAIN job[j].layers = Layers
    BY <1>2 DEF ActiveJob
  <2>3. /\ layer.image = job[j].layers[l].image /\ layer.cached = job[j].layers[l].cached
        /\ layer.draw = "busy" /\ job[j].layers[l].draw = "todo"
    BY <1>2 DEF LayerJob, StartLayer
  <2>4. ~LayersEnded(job[j])
    BY <2>2, <2>3 DEF LayersEnded
  <2> HIDE DEF rec, layer
  <2>5. DrawnInOrder(rec)
    BY <2>1, <2>2, <2>3, <2>4 DEF DrawnInOrder
  <2>6. DrawsCurrent(rec)
    BY <2>1, <2>2, <2>3 DEF DrawsCurrent
  <2> QED
    BY <2>5, <2>6
<1>8. /\ rec.receiver = job[j].receiver /\ rec.stopped = job[j].stopped
      /\ rec.cache = job[j].cache /\ rec.extent = job[j].extent
      /\ rec.labelSlot = job[j].labelSlot /\ rec.status = job[j].status
      /\ rec.slot = job[j].slot
  BY <1>2 DEF ActiveJob
<1> HIDE DEF rec
<1> QED
  BY <1>1, <1>4, <1>5, <1>6, <1>7, <1>8, ActiveAgrees, OneJobGoesOn DEF StartLayer

LEMMA SkipLayersKeepsIInv ==
  ASSUME IInv, NEW j \in Jobs, SkipLayers(j)
  PROVE  IInv'
<1> DEFINE layers == [l \in Layers |-> IF job[j].layers[l].draw = "todo"
                                         THEN [job[j].layers[l] EXCEPT !.draw = "ended"]
                                         ELSE job[j].layers[l]]
           rec == [job[j] EXCEPT !.layers = layers]
<1>1. Active(j) /\ job[j].status = "RenderingLayers"
  BY DEF SkipLayers, Active
<1>2. job[j] \in ActiveJob /\ job[j].layers \in LayerJobs /\ job[j].stopped
  BY <1>1, ActiveAgrees DEF ActiveJob, SkipLayers
<1>3. layers \in LayerJobs
  BY <1>2, SMTT(30) DEF LayerJobs, LayerJob, Draw
<1>4. rec \in ActiveJob
  BY <1>2, <1>3 DEF ActiveJob
<1>5. job' = [job EXCEPT ![j] = rec]
  BY DEF SkipLayers
<1>6. WatchersHeard(rec)
  BY <1>1, <1>2, ActiveAgrees DEF WatchersHeard, ActiveJob
<1>7. /\ rec.receiver = job[j].receiver /\ rec.stopped = job[j].stopped
      /\ rec.cache = job[j].cache /\ rec.extent = job[j].extent
      /\ rec.labelSlot = job[j].labelSlot /\ rec.status = job[j].status
      /\ rec.slot = job[j].slot
  BY <1>2 DEF ActiveJob
<1> HIDE DEF rec
<1> QED
  BY <1>1, <1>2, <1>4, <1>5, <1>6, <1>7, ActiveAgrees, OneJobGoesOn DEF SkipLayers

LEMMA EndLayerKeepsIInv ==
  ASSUME IInv, NEW j \in Jobs, NEW l \in Layers, EndLayer(j, l)
  PROVE  IInv'
<1> DEFINE image == [job[j].layers[l].image EXCEPT !.drawn = Drawn(job[j])]
           layer == [job[j].layers[l] EXCEPT !.draw = "ended", !.image = image]
           rec == [job[j] EXCEPT !.layers = [@ EXCEPT ![l] = layer]]
<1>1. Active(j) /\ job[j].status = "RenderingLayers"
  BY DEF EndLayer, Active
<1>2. /\ job[j] \in ActiveJob /\ job[j].layers \in LayerJobs
      /\ job[j].layers \in [Layers -> LayerJob] /\ job[j].layers[l].image \in Image
  BY <1>1, ActiveAgrees DEF ActiveJob, LayerJobs, LayerJob
<1>3. image \in Image /\ layer \in LayerJob
  <2>1. Drawn(job[j]) \in {"no", "part", "whole"}
    BY DEF Drawn
  <2>2. image \in Image
    BY <1>2, <2>1 DEF Image
  <2> HIDE DEF image
  <2> QED
    BY <1>2, <2>2 DEF LayerJob, Draw
<1>4. rec \in ActiveJob
  <2>1. image.shows = job[j].layers[l].image.shows
    BY <1>2 DEF Image
  <2>2. layer.image = image /\ layer.cached = job[j].layers[l].cached
    BY <1>2 DEF LayerJob
  <2> HIDE DEF layer, image
  <2>3. [job[j].layers EXCEPT ![l] = layer] \in LayerJobs
    BY <1>2, <1>3, <2>1, <2>2 DEF LayerJobs
  <2> QED
    BY <1>2, <2>3 DEF ActiveJob
<1>5. job' = [job EXCEPT ![j] = rec]
  <2>1. job' = [job EXCEPT ![j].layers[l].draw = "ended",
                           ![j].layers[l].image.drawn = Drawn(job[j])]
    BY DEF EndLayer
  <2>2. j \in DOMAIN job /\ l \in DOMAIN job[j].layers /\ "layers" \in DOMAIN job[j]
          /\ "draw" \in DOMAIN job[j].layers[l] /\ "image" \in DOMAIN job[j].layers[l]
    BY <1>2 DEF IInv, JobsTyped, ActiveJob, LayerJob
  <2> QED
    BY <2>1, <2>2
<1>6. WatchersHeard(rec)
  BY <1>1, <1>2, ActiveAgrees DEF WatchersHeard, ActiveJob
<1>7. ASSUME ~rec.stopped PROVE DrawnInOrder(rec) /\ DrawsCurrent(rec)
  <2>1. DrawnInOrder(job[j]) /\ DrawsCurrent(job[j]) /\ ~job[j].stopped
    BY <1>1, <1>2, <1>7, ActiveAgrees DEF ActiveJob
  <2>2. /\ rec.labels = job[j].labels /\ rec.extent = job[j].extent
        /\ rec.labeling = job[j].labeling /\ rec.late = job[j].late
        /\ rec.layers[l] = layer /\ \A k \in Layers \ {l} : rec.layers[k] = job[j].layers[k]
        /\ DOMAIN rec.layers = Layers /\ DOMAIN job[j].layers = Layers
    BY <1>2 DEF ActiveJob
  <2>3. /\ layer.image = image /\ layer.cached = job[j].layers[l].cached
        /\ layer.draw = "ended" /\ job[j].layers[l].draw = "busy"
    BY <1>2 DEF LayerJob, EndLayer
  <2>4. /\ image.shows = job[j].layers[l].image.shows
        /\ image.extent = job[j].layers[l].image.extent
        /\ image.drawn = "whole"
    BY <1>2, <2>1 DEF Image, Drawn
  <2>5. ~LayersEnded(job[j])
    BY <2>2, <2>3 DEF LayersEnded
  <2> HIDE DEF rec, layer, image
  <2>6. DrawnInOrder(rec)
    BY <2>1, <2>2, <2>3, <2>4, <2>5 DEF DrawnInOrder
  <2>7. DrawsCurrent(rec)
    BY <2>1, <2>2, <2>3, <2>4 DEF DrawsCurrent, ShowsNow
  <2> QED
    BY <2>6, <2>7
<1>8. /\ rec.receiver = job[j].receiver /\ rec.stopped = job[j].stopped
      /\ rec.cache = job[j].cache /\ rec.extent = job[j].extent
      /\ rec.labelSlot = job[j].labelSlot /\ rec.status = job[j].status
      /\ rec.slot = job[j].slot
  BY <1>2 DEF ActiveJob
<1> HIDE DEF rec
<1> QED
  BY <1>1, <1>4, <1>5, <1>6, <1>7, <1>8, ActiveAgrees, OneJobGoesOn DEF EndLayer

LEMMA StartLabelsKeepsIInv ==
  ASSUME IInv, NEW j \in Jobs, StartLabels(j)
  PROVE  IInv'
<1> DEFINE draw == IF job[j].labeling /\ ~job[j].stopped THEN "busy" ELSE "ended"
           labels == [job[j].labels EXCEPT !.draw = draw]
           rec == [job[j] EXCEPT !.labels = labels]
<1>1. Active(j) /\ job[j].status = "RenderingLayers"
  BY DEF StartLabels, Active
<1>2. job[j] \in ActiveJob /\ job[j].labels \in LabelJob
  BY <1>1, ActiveAgrees DEF ActiveJob
<1>3. labels \in LabelJob
  BY <1>2 DEF LabelJob, Draw
<1>4. rec \in ActiveJob
  BY <1>2, <1>3 DEF ActiveJob
<1>5. job' = [job EXCEPT ![j] = rec]
  BY DEF StartLabels
<1>6. WatchersHeard(rec)
  BY <1>1, <1>2, ActiveAgrees DEF WatchersHeard, ActiveJob
<1>7. ASSUME ~rec.stopped PROVE DrawnInOrder(rec) /\ DrawsCurrent(rec)
  <2>1. DrawnInOrder(job[j]) /\ DrawsCurrent(job[j]) /\ ~job[j].stopped
    BY <1>1, <1>2, <1>7, ActiveAgrees DEF ActiveJob
  <2>2. /\ rec.layers = job[j].layers /\ rec.extent = job[j].extent
        /\ rec.labeling = job[j].labeling /\ rec.late = job[j].late
        /\ rec.labels = labels
    BY <1>2 DEF ActiveJob
  <2>3. /\ labels.image = job[j].labels.image /\ labels.cached = job[j].labels.cached
        /\ labels.complete = job[j].labels.complete
        /\ labels.draw = IF job[j].labeling THEN "busy" ELSE "ended"
    BY <1>2, <2>1 DEF LabelJob
  <2>4. LayersEnded(rec)
    BY <2>2 DEF LayersEnded, StartLabels
  <2> HIDE DEF rec, labels
  <2>5. DrawnInOrder(rec)
    BY <2>1, <2>2, <2>3, <2>4 DEF DrawnInOrder
  <2>6. DrawsCurrent(rec)
    BY <2>1, <2>2, <2>3 DEF DrawsCurrent
  <2> QED
    BY <2>5, <2>6
<1>8. /\ rec.receiver = job[j].receiver /\ rec.stopped = job[j].stopped
      /\ rec.cache = job[j].cache /\ rec.extent = job[j].extent
      /\ rec.labelSlot = job[j].labelSlot /\ rec.status = job[j].status
      /\ rec.slot = job[j].slot
  BY <1>2 DEF ActiveJob
<1> HIDE DEF rec
<1> QED
  BY <1>1, <1>4, <1>5, <1>6, <1>7, <1>8, ActiveAgrees, OneJobGoesOn DEF StartLabels

LEMMA EndLabelsKeepsIInv ==
  ASSUME IInv, NEW j \in Jobs, EndLabels(j)
  PROVE  IInv'
<1> DEFINE image == [job[j].labels.image EXCEPT !.drawn = Drawn(job[j]),
                                                !.shows = labelShows(job[j])]
           labels == IF job[j].labels.cached
                       THEN [job[j].labels EXCEPT !.draw = "ended"]
                       ELSE [job[j].labels EXCEPT !.draw = "ended", !.complete = TRUE,
                                                  !.image = image]
           rec == [job[j] EXCEPT !.labels = labels]
<1>1. Active(j)
  BY DEF EndLabels
<1>2. /\ job[j] \in ActiveJob /\ job[j].labels \in LabelJob
      /\ job[j].labels.image \in Image
  BY <1>1, ActiveAgrees DEF ActiveJob, LabelJob
<1>3. labels \in LabelJob
  <2>1. CASE job[j].labels.cached
    BY <1>2, <2>1 DEF LabelJob, Draw
  <2>2. CASE ~job[j].labels.cached
    <3>1. Drawn(job[j]) \in {"no", "part", "whole"}
      BY DEF Drawn
    <3>2. labelShows(job[j]) \in UNION {[ls -> Nat] : ls \in SUBSET Layers}
      <4>1. participating(job[j]) \in SUBSET Layers
        BY DEF participating
      <4>2. \A l \in participating(job[j]) : job[j].layers[l].image.shows[l] \in Nat
        <5>1. job[j].layers \in LayerJobs
          BY <1>2 DEF ActiveJob
        <5>2. \A l \in Layers : job[j].layers[l].image \in Image
          BY <5>1 DEF LayerJobs, LayerJob
        <5>3. \A l \in Layers : \A m \in DOMAIN job[j].layers[l].image.shows :
                job[j].layers[l].image.shows[m] \in Nat
          BY <5>2 DEF Image
        <5> QED
          BY <5>1, <5>3 DEF participating, LayerJobs
      <4>3. labelShows(job[j]) \in [participating(job[j]) -> Nat]
        BY <4>2 DEF labelShows
      <4> QED
        BY <4>1, <4>3
    <3>3. image \in Image
      BY <1>2, <3>1, <3>2 DEF Image
    <3> HIDE DEF image
    <3> QED
      BY <1>2, <2>2, <3>3 DEF LabelJob, Draw
  <2> QED
    BY <2>1, <2>2
<1>4. rec \in ActiveJob
  BY <1>2, <1>3 DEF ActiveJob
<1>5. job' = [job EXCEPT ![j] = rec]
  BY <1>2 DEF EndLabels
<1>6. WatchersHeard(rec)
  BY <1>1, <1>2, ActiveAgrees DEF WatchersHeard, ActiveJob
<1>7. ASSUME ~rec.stopped PROVE DrawnInOrder(rec) /\ DrawsCurrent(rec)
  <2>1. DrawnInOrder(job[j]) /\ DrawsCurrent(job[j]) /\ ~job[j].stopped
    BY <1>1, <1>2, <1>7, ActiveAgrees DEF ActiveJob
  <2>2. /\ rec.layers = job[j].layers /\ rec.extent = job[j].extent
        /\ rec.labeling = job[j].labeling /\ rec.late = job[j].late
        /\ rec.labels = labels
    BY <1>2 DEF ActiveJob
  <2>3. /\ labels.cached = job[j].labels.cached
        /\ labels.complete /\ labels.draw = "ended"
        /\ job[j].labels.draw = "busy"
    BY <1>2, <2>1 DEF LabelJob, EndLabels, DrawnInOrder
  <2>4. LayersEnded(rec)
    BY <2>1, <2>2, <2>3 DEF LayersEnded, DrawnInOrder
  <2>5. CASE job[j].labels.cached
    <3>1. labels.image = job[j].labels.image
      BY <1>2, <2>5 DEF LabelJob
    <3> HIDE DEF rec, labels
    <3> QED
      BY <2>1, <2>2, <2>3, <2>4, <2>5, <3>1 DEF DrawnInOrder, DrawsCurrent
  <2>6. CASE ~job[j].labels.cached
    <3>1. labels.image = image
      BY <1>2, <2>6 DEF LabelJob
    <3>2. /\ image.shows = labelShows(job[j])
          /\ image.extent = job[j].labels.image.extent
          /\ image.drawn = "whole"
      BY <1>2, <2>1 DEF Image, Drawn
    <3>3. DOMAIN labelShows(job[j]) = Labeled
      BY <2>1, <2>3, <2>6 DEF labelShows, participating, DrawnInOrder
    <3>4. \A l \in Labeled : /\ labelShows(job[j])[l] = job[j].layers[l].image.shows[l]
                             /\ l \in Layers /\ ~job[j].layers[l].cached
      BY <2>1, <2>3, <2>6 DEF labelShows, participating, DrawnInOrder
    <3> HIDE DEF rec, labels, image
    <3>5. DrawnInOrder(rec)
      BY <2>1, <2>2, <2>3, <2>4, <2>6, <3>1, <3>2, <3>3 DEF DrawnInOrder
    <3>6. ShowsNow(image, job[j].late)
      <4>1. \A l \in Labeled : DOMAIN job[j].layers[l].image.shows = {l}
        BY <1>2, <3>4 DEF ActiveJob, LayerJobs
      <4> QED
        BY <2>1, <3>2, <3>3, <3>4, <4>1 DEF DrawsCurrent, ShowsNow
    <3>7. DrawsCurrent(rec)
      BY <2>1, <2>2, <2>3, <3>1, <3>2, <3>3, <3>6 DEF DrawsCurrent
    <3> QED
      BY <3>5, <3>7
  <2> QED
    BY <2>5, <2>6
<1>8. /\ rec.receiver = job[j].receiver /\ rec.stopped = job[j].stopped
      /\ rec.cache = job[j].cache /\ rec.extent = job[j].extent
      /\ rec.labelSlot = job[j].labelSlot /\ rec.status = job[j].status
      /\ rec.slot = job[j].slot
  BY <1>2 DEF ActiveJob
<1> HIDE DEF rec
<1> QED
  BY <1>1, <1>4, <1>5, <1>6, <1>7, <1>8, ActiveAgrees, OneJobGoesOn DEF EndLabels

-----------------------------------------------------------------------------
(***************************************************************************)
(* The end of a job                                                        *)
(***************************************************************************)

\* A job that may end: if it was not stopped, all has been drawn.
Ready(rec) ==
  ~rec.stopped => LayersEnded(rec) /\ (rec.labeling => rec.labels.draw = "ended")

\* What the cache is given: new images, whole and current.
LEMMA StoredImages ==
  ASSUME NEW rec \in ActiveJob, Ready(rec),
         ~rec.stopped => DrawnInOrder(rec) /\ DrawsCurrent(rec),
         NEW k \in DOMAIN ImagesToCache(rec), NEW image, image = ImagesToCache(rec)[k]
  PROVE  /\ rec.cache /\ ~rec.stopped /\ k \in Layers \cup {Labels}
         /\ image \in Image /\ image.extent = rec.extent
         /\ ShowsNow(image, image.late)
         /\ image.drawn = "whole" \/ (k = Labels /\ DOMAIN image.shows = {})
<1> DEFINE drawn == IF k = Labels THEN rec.labels.image ELSE rec.layers[k].image
<1>1. rec.layers \in LayerJobs /\ rec.labels \in LabelJob /\ rec.late \in SUBSET Layers
        /\ DOMAIN rec.layers = Layers
  BY DEF ActiveJob, LayerJobs
<1>2. /\ rec.cache /\ ~rec.stopped
      /\ \/ k \in Layers /\ ~rec.layers[k].cached
         \/ k = Labels /\ ~rec.labels.cached
  BY <1>1 DEF ImagesToCache
<1>3. image = [drawn EXCEPT !.late = rec.late \cap DOMAIN drawn.shows]
  BY <1>1, <1>2 DEF ImagesToCache, Late
<1>4. drawn \in Image
  BY <1>1, <1>2 DEF LayerJobs, LayerJob, LabelJob
<1>5. /\ DrawnInOrder(rec) /\ DrawsCurrent(rec)
      /\ LayersEnded(rec) /\ (rec.labeling => rec.labels.draw = "ended")
  BY <1>2 DEF Ready
<1>6. drawn.extent = rec.extent /\ ShowsNow(drawn, rec.late)
  BY <1>2, <1>5 DEF DrawnInOrder, DrawsCurrent
<1>7. drawn.drawn = "whole" \/ (k = Labels /\ DOMAIN drawn.shows = {})
  <2>1. CASE k = Labels
    BY <1>5, <2>1 DEF DrawnInOrder
  <2>2. CASE k # Labels
    BY <1>1, <1>2, <1>5, <2>2 DEF DrawnInOrder, LayersEnded
  <2> QED
    BY <2>1, <2>2
<1> HIDE DEF drawn
<1>8. /\ image \in Image
      /\ image.shows = drawn.shows /\ image.extent = drawn.extent
      /\ image.drawn = drawn.drawn /\ image.late = rec.late \cap DOMAIN drawn.shows
  BY <1>1, <1>3, <1>4 DEF Image
<1>9. ShowsNow(image, image.late)
  BY <1>6, <1>8 DEF ShowsNow
<1> QED
  BY <1>2, <1>6, <1>7, <1>8, <1>9

\* What the canvas shows of a job that it has not given up.
LEMMA PictureOfReady ==
  ASSUME NEW rec \in ActiveJob, Ready(rec), ~rec.stopped, DrawnInOrder(rec),
         Labeled # {}
  PROVE  Picture(rec) # None /\ Picture(rec).sound
<1>1. \A l \in Layers : /\ rec.layers[l].image.extent = rec.extent
                        /\ rec.layers[l].image.drawn = "whole"
  BY DEF Ready, DrawnInOrder, LayersEnded, ActiveJob, LayerJobs
<1>2. rec.labels.complete => /\ rec.labels.image.extent = rec.extent
                             /\ rec.labels.image.drawn = "whole"
                             /\ DOMAIN rec.labels.image.shows = Labeled
  BY DEF DrawnInOrder
<1>3. rec.labeling => rec.labels.complete
  BY DEF Ready, DrawnInOrder
<1>4. Picture(rec).sound
  BY <1>1, <1>2, <1>3 DEF Picture
<1>5. Picture(rec).what = "picture" /\ None.what = "none"
  BY DEF Picture, None
<1> QED
  BY <1>4, <1>5

\* cleanupJobs(), cleanupLabelJob() and the canvas's slot, at the end of a job that
\* has been heard, while the main thread waits for no other.
LEMMA FinishedKeepsIInv ==
  ASSUME IInv, NEW j \in Jobs, Active(j), NEW rec \in ActiveJob,
         \A f \in DOMAIN rec \ {"told", "labelsTold"} : rec[f] = job[j][f],
         rec.told \/ rec.slot = "none", rec.labelSlot => rec.labelsTold,
         Ready(rec), blocked # None => BlockedOn(j),
         Finished(j, rec),
         UNCHANGED <<mExtent, mCache, mRefreshScheduled, mJobCanceled, settingsVars,
                     blocked, userVars>>
  PROVE  IInv'
<1> USE DEF settingsVars, userVars
<1> DEFINE idle == [rec EXCEPT !.status = "Idle", !.emitted = @ + 1, !.layers = <<>>,
                               !.labels = NoLabels, !.late = {}]
           stored == ImagesToCache(rec)
<1>1. /\ rec.status = job[j].status /\ rec.kind = job[j].kind
      /\ rec.stopped = job[j].stopped /\ rec.cache = job[j].cache
      /\ rec.extent = job[j].extent /\ rec.labeling = job[j].labeling
      /\ rec.layers = job[j].layers /\ rec.labels = job[j].labels
      /\ rec.slot = job[j].slot /\ rec.labelSlot = job[j].labelSlot
      /\ rec.labelsRun = job[j].labelsRun /\ rec.receiver = job[j].receiver
      /\ rec.emitted = job[j].emitted /\ rec.late = job[j].late
  BY DEF ActiveJob
<1>2. JobAgrees(j)
  BY ActiveAgrees
<1>3. ~rec.stopped => DrawnInOrder(rec) /\ DrawsCurrent(rec)
  BY <1>1, ActiveAgrees DEF DrawnInOrder, DrawsCurrent, LayersEnded
<1>4. /\ idle \in IdleJob
      /\ idle.status = "Idle" /\ idle.emitted = 1
      /\ idle.slot = rec.slot /\ idle.labelSlot = rec.labelSlot
      /\ idle.kind = rec.kind /\ idle.told = rec.told /\ idle.labelsTold = rec.labelsTold
      /\ idle.labelsRun = rec.labelsRun /\ idle.receiver = rec.receiver
      /\ idle.stopped = rec.stopped
  <2>1. /\ idle.status = "Idle" /\ idle.emitted = 1 /\ idle.layers = <<>>
        /\ idle.labels = NoLabels /\ idle.late = {}
    BY DEF ActiveJob
  <2>2. /\ idle.slot = rec.slot /\ idle.labelSlot = rec.labelSlot
        /\ idle.kind = rec.kind /\ idle.told = rec.told /\ idle.labelsTold = rec.labelsTold
        /\ idle.labelsRun = rec.labelsRun /\ idle.receiver = rec.receiver
        /\ idle.stopped = rec.stopped /\ idle.cache = rec.cache
        /\ idle.extent = rec.extent /\ idle.labeling = rec.labeling
    BY DEF ActiveJob
  <2>3. idle \in IdleJob
    <3>1. rec.emitted + 1 = 1
      BY DEF ActiveJob
    <3>2. idle = [rec EXCEPT !.status = "Idle", !.emitted = 1, !.layers = <<>>,
                             !.labels = NoLabels, !.late = {}]
      BY <3>1, Zenon
    <3> HIDE DEF idle
    <3> QED
      BY <3>2 DEF ActiveJob, IdleJob
  <2> QED
    BY <2>1, <2>2, <2>3
<1>5. job' = [job EXCEPT ![j] = idle]
  BY DEF Finished
<1>6. /\ mCachedImages' = With(mCachedImages, stored)
      /\ mConnectedLayers' = mConnectedLayers \cup DependentLayers(stored)
      /\ mJob' = IF rec.receiver = "canvas" THEN NoJob ELSE mJob
      /\ content' = IF rec.receiver = "canvas" /\ ~mJobCanceled /\ mJob = j
                      THEN Picture(rec) ELSE content
  BY DEF Finished
<1> HIDE DEF idle, stored
<1>7. /\ job'[j] = idle /\ \A k \in Jobs \ {j} : job'[k] = job[k]
      /\ JobsTyped'
  BY <1>4, <1>5 DEF IInv, JobsTyped
<1>8. rec.receiver = "canvas" => mJob = j
  BY <1>1, <1>2 DEF JobAgrees
<1>9. JobAgrees(j)'
  <2>1. WatchersHeard(idle)
    BY <1>1, <1>2, <1>4 DEF JobAgrees, WatchersHeard
  <2>2. ~Active(j)'
    BY <1>4, <1>7 DEF Active
  <2>3. mJob' = j => idle.receiver = "nobody"
    BY <1>1, <1>2, <1>4, <1>6 DEF JobAgrees
  <2>4. /\ idle.receiver = "nobody" => BlockedOn(j)' /\ blocked'.what = "destroy"
        /\ BlockedOn(j)' => ~idle.labelSlot
    BY <1>1, <1>2, <1>4 DEF JobAgrees, BlockedOn
  <2>5. WatchersHeard(job[j])'
    BY <1>7, <2>1
  <2> QED
    BY <1>4, <1>7, <2>2, <2>3, <2>4, <2>5 DEF JobAgrees
<1>10. ASSUME NEW k \in Jobs \ {j}, job'[k].status # "none" PROVE JobAgrees(k)'
  <2>1. JobAgrees(k) /\ job'[k] = job[k]
    BY <1>7, <1>10 DEF IInv, JobsAgree
  <2>2. /\ WatchersHeard(job[k])' = WatchersHeard(job[k])
        /\ DrawnInOrder(job[k])' = DrawnInOrder(job[k])
        /\ DrawsCurrent(job[k])' <=> DrawsCurrent(job[k])
    BY <2>1 DEF DrawsCurrent, ShowsNow
  <2>3. /\ Active(k) /\ job[k].receiver = "canvas" => mJob' = k
        /\ mJob' = k => mJob = k
    BY <1>6, <1>8, <2>1 DEF JobAgrees
  <2> QED
    BY <2>1, <2>2, <2>3 DEF JobAgrees, Active, BlockedOn
<1>11. JobsAgree'
  BY <1>9, <1>10 DEF JobsAgree
<1>12. BlockedAgrees'
  BY <1>1, <1>4, <1>6, <1>7 DEF IInv, BlockedAgrees, BlockedOn, Active
<1>13. \A k \in DOMAIN stored : DOMAIN stored[k].shows \subseteq mConnectedLayers'
  BY <1>6 DEF DependentLayers
<1>14. \A k \in DOMAIN stored :
         /\ mCache /\ k \in Layers \cup {Labels}
         /\ stored[k] \in Image
         /\ ShowsNow(stored[k], stored[k].late)
         /\ mExtent # NoExtent => stored[k].extent = mExtent
         /\ \/ stored[k].drawn = "whole"
            \/ k = Labels /\ DOMAIN stored[k].shows = {}
  <2> TAKE k \in DOMAIN stored
  <2>1. /\ rec.cache /\ ~rec.stopped /\ k \in Layers \cup {Labels}
        /\ stored[k] \in Image /\ stored[k].extent = rec.extent
        /\ ShowsNow(stored[k], stored[k].late)
        /\ stored[k].drawn = "whole" \/ (k = Labels /\ DOMAIN stored[k].shows = {})
    BY <1>3, StoredImages DEF stored
  <2>2. mCache /\ mExtent \in {NoExtent, rec.extent}
    BY <1>1, <1>2, <2>1 DEF JobAgrees
  <2> QED
    BY <2>1, <2>2
<1>15. /\ DOMAIN mCachedImages' = DOMAIN stored \cup DOMAIN mCachedImages
       /\ \A k \in DOMAIN mCachedImages' :
            mCachedImages'[k] = IF k \in DOMAIN stored THEN stored[k] ELSE mCachedImages[k]
  BY <1>6 DEF With
<1>16. CacheAgrees'
  <2>1. CacheAgrees
    BY DEF IInv
  <2>2. DOMAIN mCachedImages' \subseteq IF mCache THEN Layers \cup {Labels} ELSE {}
    BY <1>14, <1>15, <2>1 DEF CacheAgrees
  <2>3. ASSUME NEW k \in DOMAIN mCachedImages'
        PROVE  /\ mCachedImages'[k] \in Image
               /\ DOMAIN mCachedImages'[k].shows \subseteq mConnectedLayers'
               /\ ShowsNow(mCachedImages[k], mCachedImages[k].late)'
               /\ mExtent # NoExtent => mCachedImages'[k].extent = mExtent
               /\ \/ mCachedImages'[k].drawn = "whole"
                  \/ k = Labels /\ DOMAIN mCachedImages'[k].shows = {}
    <3>1. CASE k \in DOMAIN stored
      BY <1>13, <1>14, <1>15, <3>1 DEF ShowsNow
    <3>2. CASE k \notin DOMAIN stored
      BY <1>6, <1>15, <2>1, <2>3, <3>2 DEF CacheAgrees, ShowsNow
    <3> QED
      BY <3>1, <3>2
  <2> QED
    BY <2>1, <2>2, <2>3 DEF CacheAgrees
<1>17. TypeOK'
  <2>1. mConnectedLayers' \subseteq Layers
    <3>1. \A k \in DOMAIN stored : DOMAIN stored[k].shows \subseteq Layers
      BY <1>14 DEF Image
    <3> QED
      BY <1>6, <3>1 DEF DependentLayers, IInv, TypeOK
  <2>2. mJob' \in Jobs \cup {NoJob}
    BY <1>6 DEF IInv, TypeOK
  <2>3. \A k \in Jobs : job'[k].status
          \in {"none", "RenderingLayers", "RenderingLabels", "Idle"}
    BY <1>4, <1>7 DEF IInv, TypeOK
  <2> QED
    BY <1>16, <2>1, <2>2, <2>3 DEF IInv, TypeOK, CacheAgrees
<1>18. Labeled # {} => PictureSound'
  <2>1. ASSUME Labeled # {}, content' = Picture(rec), rec.receiver = "canvas"
        PROVE  PictureSound'
    <3>1. ~rec.stopped
      BY <1>1, <1>2, <2>1 DEF JobAgrees
    <3> QED
      BY <1>3, <2>1, <3>1, PictureOfReady DEF PictureSound
  <2>2. CASE content' = content
    BY <2>2 DEF IInv, PictureSound
  <2> QED
    BY <1>6, <2>1, <2>2
<1>19. RequestsAgree'
  BY DEF IInv, RequestsAgree
<1> QED
  BY <1>7, <1>11, <1>12, <1>16, <1>17, <1>18, <1>19 DEF IInv

\* All that rec says of job j, but which watchers have been heard.
Heard(rec, j) ==
  \A f \in DOMAIN rec \ {"told", "labelsTold"} : rec[f] = job[j][f]

\* renderLayersFinished(), in its state.
LEMMA LayersFinishedKeepsIInv ==
  ASSUME IInv, NEW j \in Jobs, job[j].status = "RenderingLayers",
         NEW rec \in ActiveJob, Heard(rec, j), rec.told \/ rec.slot = "none",
         FutureEnded(job[j]), blocked # None => BlockedOn(j),
         NEW connected \in BOOLEAN, connected => blocked = None,
         renderLayersFinished(j, rec, connected),
         UNCHANGED <<mExtent, mCache, mRefreshScheduled, mJobCanceled, settingsVars,
                     blocked, userVars>>
  PROVE  IInv'
<1>1. Active(j) /\ job[j] \in ActiveJob /\ JobAgrees(j) /\ WatchersHeard(job[j])
  BY ActiveAgrees DEF Active
<1>2. /\ rec.status = job[j].status /\ rec.kind = job[j].kind
      /\ rec.stopped = job[j].stopped /\ rec.cache = job[j].cache
      /\ rec.extent = job[j].extent /\ rec.labeling = job[j].labeling
      /\ rec.layers = job[j].layers /\ rec.labels = job[j].labels
      /\ rec.slot = job[j].slot /\ rec.labelSlot = job[j].labelSlot
      /\ rec.labelsRun = job[j].labelsRun /\ rec.receiver = job[j].receiver
      /\ rec.emitted = job[j].emitted /\ rec.late = job[j].late
  BY DEF ActiveJob, Heard
<1>3. ~rec.labelSlot
  BY <1>1, <1>2 DEF WatchersHeard
<1>4. ~rec.stopped => DrawnInOrder(rec) /\ DrawsCurrent(rec)
  BY <1>1, <1>2, ActiveAgrees, SMTT(20) DEF DrawnInOrder, DrawsCurrent, LayersEnded
<1>5. CASE LabelsFollow(rec)
  <2> DEFINE labels == [rec.labels EXCEPT !.draw = "busy"]
             next == [rec EXCEPT !.status = "RenderingLabels", !.labelsRun = TRUE,
                                 !.labelSlot = connected, !.labels = labels]
  <2>1. /\ job' = [job EXCEPT ![j] = next]
        /\ UNCHANGED <<mCachedImages, mConnectedLayers, content, mJob>>
    BY <1>5 DEF renderLayersFinished
  <2>2. rec.labels \in LabelJob
    BY DEF ActiveJob
  <2>3. labels \in LabelJob
    BY <2>2 DEF LabelJob, Draw
  <2>4. next \in ActiveJob
    BY <2>3 DEF ActiveJob
  <2>5. /\ next.receiver = rec.receiver /\ next.stopped = rec.stopped
        /\ next.cache = rec.cache /\ next.extent = rec.extent
        /\ next.labelSlot = connected /\ next.status = "RenderingLabels"
        /\ next.slot = rec.slot /\ next.kind = rec.kind /\ next.told = rec.told
        /\ next.labelsRun = TRUE /\ next.emitted = rec.emitted
        /\ next.layers = rec.layers /\ next.labels = labels
        /\ next.labeling = rec.labeling /\ next.late = rec.late
    BY DEF ActiveJob
  <2>6. /\ labels.cached = rec.labels.cached /\ labels.complete = rec.labels.complete
        /\ labels.image = rec.labels.image /\ labels.draw = "busy"
    BY <2>2 DEF LabelJob
  <2> HIDE DEF next, labels
  <2>7. WatchersHeard(next)
    BY <1>1, <1>2, <2>5 DEF WatchersHeard
  <2>8. DrawnInOrder(next) /\ DrawsCurrent(next)
    <3>1. LayersEnded(next) /\ rec.labeling
      BY <1>2, <1>5, <2>5 DEF LabelsFollow, FutureEnded, LayersEnded
    <3>2. DrawnInOrder(rec) /\ DrawsCurrent(rec)
      BY <1>4, <1>5 DEF LabelsFollow
    <3>3. DrawnInOrder(next)
      BY <2>5, <2>6, <3>1, <3>2 DEF DrawnInOrder
    <3> QED
      BY <2>5, <2>6, <3>2, <3>3 DEF DrawsCurrent
  <2>9. BlockedOn(j) => ~next.labelSlot
    BY <2>5 DEF BlockedOn
  <2> QED
    BY <1>1, <1>2, <2>1, <2>4, <2>5, <2>7, <2>8, <2>9, OneJobGoesOn, ZenonT(30)
       DEF cacheVars, canvasVars
<1>6. CASE ~LabelsFollow(rec)
  <2>1. Finished(j, rec)
    BY <1>6 DEF renderLayersFinished
  <2>2. Ready(rec)
    BY <1>2, <1>4, <1>6 DEF Ready, LabelsFollow, FutureEnded, DrawnInOrder, LayersEnded
  <2> QED
    BY <1>1, <1>3, <2>1, <2>2, FinishedKeepsIInv DEF Heard
<1> QED
  BY <1>5, <1>6

\* A watcher of a job that has ended is heard.
LEMMA IdleHeard ==
  ASSUME IInv, NEW j \in Jobs, job[j].status = "Idle", NEW rec \in IdleJob,
         Heard(rec, j), job[j].told => rec.told, job[j].labelsTold => rec.labelsTold,
         job' = [job EXCEPT ![j] = rec],
         UNCHANGED <<cacheVars, mCache, canvasVars, blocked, userVars, content>>
  PROVE  IInv'
<1> USE DEF cacheVars, canvasVars, settingsVars, userVars
<1>1. /\ job'[j] = rec /\ \A k \in Jobs \ {j} : job'[k] = job[k]
      /\ job' \in [Jobs -> {NoObject} \cup ActiveJob \cup IdleJob]
  BY DEF IInv, JobsTyped
<1>2. /\ rec.status = "Idle" /\ rec.emitted = job[j].emitted
      /\ rec.kind = job[j].kind /\ rec.stopped = job[j].stopped
      /\ rec.slot = job[j].slot /\ rec.labelSlot = job[j].labelSlot
      /\ rec.labelsRun = job[j].labelsRun /\ rec.receiver = job[j].receiver
  BY DEF IdleJob, Heard
<1>3. JobAgrees(j)
  BY DEF IInv, JobsAgree
<1>4. JobAgrees(j)'
  <2>1. WatchersHeard(job[j])'
    BY <1>1, <1>2, <1>3 DEF JobAgrees, WatchersHeard
  <2>2. ~Active(j) /\ ~Active(j)'
    BY <1>1, <1>2 DEF Active
  <2> QED
    BY <1>1, <1>2, <1>3, <2>1, <2>2 DEF JobAgrees, BlockedOn
<1>5. JobsAgree'
  <2>1. ASSUME NEW k \in Jobs \ {j}, job'[k].status # "none" PROVE JobAgrees(k)'
    BY <1>1, <2>1, AgreesStill DEF IInv, JobsAgree
  <2> QED
    BY <1>4, <2>1 DEF JobsAgree
<1>6. TypeOK'
  BY <1>1, <1>2 DEF IInv, TypeOK
<1>7. RequestsAgree' /\ JobsTyped' /\ CacheAgrees'
  BY <1>1 DEF IInv, RequestsAgree, JobsTyped, CacheAgrees, ShowsNow
<1>8. BlockedAgrees'
  BY <1>1, <1>2 DEF IInv, BlockedAgrees
<1> QED
  BY <1>5, <1>6, <1>7, <1>8 DEF IInv, PictureSound

\* A slot that is connected is called in its state; a watcher that is not connected
\* is heard without effect.
LEMMA DeliverFinishedKeepsIInv ==
  ASSUME IInv, NEW j \in Jobs, DeliverFinished(j)
  PROVE  IInv'
<1> DEFINE rec == [job[j] EXCEPT !.told = TRUE]
<1>1. /\ blocked = None /\ job[j].status # "none" /\ FutureEnded(job[j]) /\ ~job[j].told
      /\ UNCHANGED <<mExtent, mCache, mRefreshScheduled, mJobCanceled, settingsVars,
                     blocked, userVars>>
  BY DEF DeliverFinished
<1>2. \/ rec.slot = "renderLayersFinished" /\ renderLayersFinished(j, rec, TRUE)
      \/ rec.slot \in {"renderingFinished", "futureFinished"} /\ Finished(j, rec)
      \/ /\ rec.slot = "none"
         /\ job' = [job EXCEPT ![j] = rec]
         /\ UNCHANGED <<mCachedImages, mConnectedLayers, content, mJob>>
  BY DEF DeliverFinished
<1>3. JobAgrees(j) /\ WatchersHeard(job[j])
  BY <1>1 DEF IInv, JobsAgree, JobAgrees
<1>4. CASE Active(j)
  <2>1. job[j] \in ActiveJob
    BY <1>4, ActiveAgrees
  <2>2. /\ rec \in ActiveJob /\ rec.told /\ Heard(rec, j)
        /\ rec.slot = job[j].slot /\ rec.labelSlot = job[j].labelSlot
        /\ rec.stopped = job[j].stopped /\ rec.labels = job[j].labels
        /\ rec.layers = job[j].layers /\ rec.kind = job[j].kind
        /\ rec.receiver = job[j].receiver /\ rec.status = job[j].status
        /\ rec.cache = job[j].cache /\ rec.extent = job[j].extent
        /\ rec.labeling = job[j].labeling /\ rec.late = job[j].late
        /\ rec.labelsRun = job[j].labelsRun /\ rec.emitted = job[j].emitted
    BY <2>1 DEF ActiveJob, Heard
  <2> HIDE DEF rec
  <2>3. job[j].slot # "none" => job[j].status = "RenderingLayers" /\ ~job[j].labelSlot
    BY <1>1, <1>3, <1>4 DEF WatchersHeard, Active
  <2>4. CASE rec.slot = "renderLayersFinished" /\ renderLayersFinished(j, rec, TRUE)
    BY <1>1, <2>2, <2>3, <2>4, LayersFinishedKeepsIInv
  <2>5. CASE rec.slot \in {"renderingFinished", "futureFinished"} /\ Finished(j, rec)
    <3>1. Ready(rec)
      <4>1. CASE rec.slot = "renderingFinished"
        BY <1>3, <2>2, <4>1 DEF WatchersHeard, Ready
      <4>2. CASE rec.slot = "futureFinished"
        <5>1. rec.labels.draw = "ended"
          BY <1>1, <1>3, <2>2, <4>2 DEF WatchersHeard, FutureEnded
        <5>2. ~rec.stopped => DrawnInOrder(job[j])
          BY <1>4, <2>2, ActiveAgrees
        <5> QED
          BY <2>2, <5>1, <5>2 DEF Ready, DrawnInOrder, LayersEnded
      <4> QED
        BY <2>5, <4>1, <4>2
    <3> QED
      BY <1>1, <1>4, <2>2, <2>3, <2>5, <3>1, FinishedKeepsIInv DEF Heard
  <2>6. CASE rec.slot = "none" /\ job' = [job EXCEPT ![j] = rec]
               /\ UNCHANGED <<mCachedImages, mConnectedLayers, content, mJob>>
    <3>1. WatchersHeard(rec)
      BY <1>3, <1>4, <2>2, <2>6 DEF WatchersHeard, Active
    <3>2. ~rec.stopped => DrawnInOrder(rec) /\ DrawsCurrent(rec)
      BY <1>4, <2>2, ActiveAgrees DEF DrawnInOrder, DrawsCurrent, LayersEnded
    <3>3. ~BlockedOn(j)
      BY <1>1 DEF BlockedOn
    <3> QED
      BY <1>1, <1>4, <2>2, <2>6, <3>1, <3>2, <3>3, OneJobGoesOn DEF cacheVars, canvasVars
  <2> QED
    BY <1>2, <2>4, <2>5, <2>6
<1>5. CASE job[j].status = "Idle"
  <2>1. job[j] \in IdleJob
    BY <1>5, JobKinds DEF IInv
  <2>2. /\ rec \in IdleJob /\ Heard(rec, j) /\ rec.told
        /\ rec.slot = job[j].slot /\ rec.labelsTold = job[j].labelsTold
    BY <2>1 DEF IdleJob, Heard
  <2> HIDE DEF rec
  <2>3. job[j].slot = "none"
    BY <1>1, <1>3, <1>5 DEF WatchersHeard
  <2> QED
    BY <1>1, <1>2, <1>5, <2>2, <2>3, IdleHeard DEF cacheVars, canvasVars
<1> QED
  BY <1>1, <1>4, <1>5, JobKinds DEF IInv, Active

LEMMA DeliverLabelsFinishedKeepsIInv ==
  ASSUME IInv, NEW j \in Jobs, DeliverLabelsFinished(j)
  PROVE  IInv'
<1> DEFINE rec == [job[j] EXCEPT !.labelsTold = TRUE]
<1>1. /\ blocked = None /\ job[j].status # "none"
      /\ job[j].labelsRun /\ job[j].labels.draw = "ended" /\ ~job[j].labelsTold
      /\ UNCHANGED <<mExtent, mCache, mRefreshScheduled, mJobCanceled, settingsVars,
                     blocked, userVars>>
  BY DEF DeliverLabelsFinished, LabelFutureEnded
<1>2. \/ rec.labelSlot /\ Finished(j, rec)
      \/ /\ ~rec.labelSlot
         /\ job' = [job EXCEPT ![j] = rec]
         /\ UNCHANGED <<mCachedImages, mConnectedLayers, content, mJob>>
  BY DEF DeliverLabelsFinished
<1>3. JobAgrees(j) /\ WatchersHeard(job[j])
  BY <1>1 DEF IInv, JobsAgree, JobAgrees
<1>4. CASE Active(j)
  <2>1. job[j] \in ActiveJob
    BY <1>4, ActiveAgrees
  <2>2. /\ rec \in ActiveJob /\ rec.labelsTold /\ Heard(rec, j)
        /\ rec.slot = job[j].slot /\ rec.labelSlot = job[j].labelSlot
        /\ rec.stopped = job[j].stopped /\ rec.labels = job[j].labels
        /\ rec.layers = job[j].layers /\ rec.kind = job[j].kind
        /\ rec.receiver = job[j].receiver /\ rec.status = job[j].status
        /\ rec.cache = job[j].cache /\ rec.extent = job[j].extent
        /\ rec.labeling = job[j].labeling /\ rec.late = job[j].late
        /\ rec.labelsRun = job[j].labelsRun /\ rec.emitted = job[j].emitted
        /\ rec.told = job[j].told
    BY <2>1 DEF ActiveJob, Heard
  <2> HIDE DEF rec
  <2>3. job[j].status = "RenderingLabels"
    BY <1>1, <1>3, <1>4, <2>1 DEF WatchersHeard, Active, ActiveJob
  <2>4. ~rec.stopped => DrawnInOrder(rec) /\ DrawsCurrent(rec)
    BY <1>4, <2>2, ActiveAgrees DEF DrawnInOrder, DrawsCurrent, LayersEnded
  <2>5. CASE Finished(j, rec)
    <3>1. Ready(rec)
      BY <1>1, <2>2, <2>4 DEF Ready, DrawnInOrder
    <3>2. rec.told \/ rec.slot = "none"
      BY <1>3, <2>2, <2>3 DEF WatchersHeard
    <3> QED
      BY <1>1, <1>4, <2>2, <2>5, <3>1, <3>2, FinishedKeepsIInv DEF Heard
  <2>6. CASE ~rec.labelSlot /\ job' = [job EXCEPT ![j] = rec]
               /\ UNCHANGED <<mCachedImages, mConnectedLayers, content, mJob>>
    <3>1. WatchersHeard(rec)
      BY <1>3, <2>2, <2>3 DEF WatchersHeard
    <3>2. ~BlockedOn(j)
      BY <1>1 DEF BlockedOn
    <3> QED
      BY <1>1, <1>4, <2>2, <2>4, <2>6, <3>1, <3>2, OneJobGoesOn DEF cacheVars, canvasVars
  <2> QED
    BY <1>2, <2>5, <2>6
<1>5. CASE job[j].status = "Idle"
  <2>1. job[j] \in IdleJob
    BY <1>5, JobKinds DEF IInv
  <2>2. /\ rec \in IdleJob /\ Heard(rec, j) /\ rec.labelsTold
        /\ rec.labelSlot = job[j].labelSlot /\ rec.told = job[j].told
    BY <2>1 DEF IdleJob, Heard
  <2> HIDE DEF rec
  <2>3. ~job[j].labelSlot
    BY <1>1, <1>3, <1>5 DEF WatchersHeard
  <2> QED
    BY <1>1, <1>2, <1>5, <2>2, <2>3, IdleHeard DEF cacheVars, canvasVars
<1> QED
  BY <1>1, <1>4, <1>5, JobKinds DEF IInv, Active

LEMMA WaitedForFinishedKeepsIInv ==
  ASSUME IInv, WaitedForFinished
  PROVE  IInv'
<1> DEFINE j == blocked.on
<1>1. /\ blocked # None /\ j # NoJob /\ job[j].status = "RenderingLayers"
      /\ FutureEnded(job[j]) /\ renderLayersFinished(j, job[j], FALSE)
      /\ UNCHANGED <<mExtent, mCache, mRefreshScheduled, mJobCanceled, settingsVars,
                     blocked, userVars>>
  BY DEF WaitedForFinished, WaitsFor
<1>2. j \in Jobs /\ BlockedOn(j)
  BY <1>1 DEF IInv, BlockedAgrees, BlockedOn
<1> HIDE DEF j
<1>3. job[j] \in ActiveJob /\ job[j].slot = "none" /\ Heard(job[j], j)
  BY <1>1, <1>2, ActiveAgrees DEF Active, Heard
<1> QED
  BY <1>1, <1>2, <1>3, LayersFinishedKeepsIInv

LEMMA WaitedForLabelsKeepsIInv ==
  ASSUME IInv, WaitedForLabels
  PROVE  IInv'
<1> DEFINE j == blocked.on
<1>1. /\ blocked # None /\ j # NoJob /\ job[j].status = "RenderingLabels"
      /\ job[j].labels.draw = "ended" /\ Finished(j, job[j])
      /\ UNCHANGED <<mExtent, mCache, mRefreshScheduled, mJobCanceled, settingsVars,
                     blocked, userVars>>
  BY DEF WaitedForLabels, WaitsFor, LabelFutureEnded
<1>2. j \in Jobs /\ BlockedOn(j)
  BY <1>1 DEF IInv, BlockedAgrees, BlockedOn
<1> HIDE DEF j
<1>3. /\ Active(j) /\ job[j] \in ActiveJob /\ ~job[j].labelSlot
      /\ job[j].told \/ job[j].slot = "none"
      /\ ~job[j].stopped => DrawnInOrder(job[j])
  BY <1>1, <1>2, ActiveAgrees DEF Active, WatchersHeard
<1>4. Ready(job[j])
  BY <1>1, <1>3 DEF Ready, DrawnInOrder
<1> QED
  BY <1>1, <1>2, <1>3, <1>4, FinishedKeepsIInv

\* The canvas does not know a job that is deleted, nor does a call wait for it.
LEMMA DeleteJobKeepsIInv ==
  ASSUME IInv, NEW j \in Jobs, DeleteJob(j)
  PROVE  IInv'
<1> USE DEF cacheVars, canvasVars, settingsVars, userVars
<1>1. /\ blocked = None /\ job[j].status = "Idle" /\ job' = [job EXCEPT ![j] = NoObject]
      /\ UNCHANGED <<cacheVars, mCache, canvasVars, blocked, userVars, content>>
  BY DEF DeleteJob
<1>2. /\ job'[j] = NoObject /\ \A k \in Jobs \ {j} : job'[k] = job[k]
      /\ job' \in [Jobs -> {NoObject} \cup ActiveJob \cup IdleJob]
  BY <1>1 DEF IInv, JobsTyped
<1>3. mJob # j
  <2>1. JobAgrees(j)
    BY <1>1 DEF IInv, JobsAgree
  <2> QED
    BY <1>1, <2>1 DEF JobAgrees, Active, BlockedOn
<1>4. JobsAgree'
  <2>1. ASSUME NEW k \in Jobs \ {j}, job'[k].status # "none" PROVE JobAgrees(k)'
    BY <1>1, <1>2, <2>1, AgreesStill DEF IInv, JobsAgree
  <2>2. job'[j].status = "none"
    BY <1>2 DEF NoObject
  <2> QED
    BY <2>1, <2>2 DEF JobsAgree
<1>5. TypeOK'
  BY <1>1, <1>2 DEF IInv, TypeOK, NoObject
<1>6. RequestsAgree' /\ JobsTyped' /\ CacheAgrees'
  BY <1>1, <1>2 DEF IInv, RequestsAgree, JobsTyped, CacheAgrees, ShowsNow
<1>7. BlockedAgrees'
  BY <1>1, <1>2, <1>3 DEF IInv, BlockedAgrees
<1> QED
  BY <1>1, <1>4, <1>5, <1>6, <1>7 DEF IInv, PictureSound

-----------------------------------------------------------------------------
(***************************************************************************)
(* Jobs that the canvas has given up, and the job it starts                *)
(***************************************************************************)

\* A job that the canvas does not know was stopped or has ended.
LEMMA OthersGivenUp ==
  ASSUME IInv, NEW k \in Jobs, job[k].status # "none", mJob # k, ~BlockedOn(k)
  PROVE  /\ WatchersHeard(job[k]) /\ job[k].receiver # "nobody"
         /\ Active(k) => job[k].stopped /\ job[k].receiver # "canvas"
<1>1. JobAgrees(k)
  BY DEF IInv, JobsAgree
<1>2. Active(k) => job[k].stopped \in BOOLEAN
  BY JobKinds DEF IInv, ActiveJob
<1> QED
  BY <1>1, <1>2 DEF JobAgrees

\* And agrees with any canvas, cache and layers.
LEMMA GivenUpAgrees ==
  ASSUME NEW k \in Jobs, WatchersHeard(job[k])', job'[k].receiver # "nobody",
         Active(k)' => job'[k].stopped /\ job'[k].receiver # "canvas",
         mJob' # k, ~BlockedOn(k)'
  PROVE  JobAgrees(k)'
BY DEF JobAgrees

\* The job of a canvas that waits for none is drawing.
LEMMA CanvasJobActive ==
  ASSUME IInv, blocked = None, mJob # NoJob
  PROVE  mJob \in Jobs /\ Active(mJob) /\ job[mJob] \in ActiveJob
           /\ job[mJob].receiver = "canvas" /\ JobAgrees(mJob)
<1>1. mJob \in Jobs /\ job[mJob].status # "none"
  BY DEF IInv, BlockedAgrees
<1>2. JobAgrees(mJob)
  BY <1>1 DEF IInv, JobsAgree
<1>3. Active(mJob) /\ job[mJob].receiver = "canvas"
  BY <1>2 DEF JobAgrees, BlockedOn
<1> QED
  BY <1>1, <1>2, <1>3, ActiveAgrees

\* stopRendering() gives up the canvas's job, and leaves the others as they are.
LEMMA StoppedJobsGiveUp ==
  ASSUME IInv, blocked = None
  PROVE  /\ StoppedJobs \in [Jobs -> {NoObject} \cup ActiveJob \cup IdleJob]
         /\ \A k \in Jobs :
              /\ StoppedJobs[k].status = job[k].status
              /\ StoppedJobs[k].emitted = job[k].emitted
              /\ job[k].status # "none" =>
                   /\ WatchersHeard(StoppedJobs[k])
                   /\ StoppedJobs[k].receiver # "nobody"
                   /\ Active(k) => /\ StoppedJobs[k].stopped
                                   /\ StoppedJobs[k].receiver # "canvas"
<1>1. job \in [Jobs -> {NoObject} \cup ActiveJob \cup IdleJob]
  BY DEF IInv, JobsTyped
<1>2. \A k \in Jobs : job[k].status # "none" /\ mJob # k =>
        /\ WatchersHeard(job[k]) /\ job[k].receiver # "nobody"
        /\ Active(k) => job[k].stopped /\ job[k].receiver # "canvas"
  BY OthersGivenUp DEF BlockedOn
<1>3. CASE mJob = NoJob
  BY <1>1, <1>2, <1>3 DEF StoppedJobs
<1>4. CASE mJob # NoJob
  <2> DEFINE rec == job[mJob]
             alone == [rec EXCEPT !.receiver = "itself", !.late = {}]
             next == cancelWithoutBlocking(alone)
  <2>1. mJob \in Jobs /\ Active(mJob) /\ rec \in ActiveJob /\ JobAgrees(mJob)
    BY <1>4, CanvasJobActive
  <2>2. StoppedJobs = [job EXCEPT ![mJob] = next]
    BY <1>4 DEF StoppedJobs
  <2> HIDE DEF rec
  <2>3. /\ alone \in ActiveJob /\ alone.receiver = "itself"
        /\ alone.status = rec.status /\ alone.emitted = rec.emitted
        /\ alone.slot = rec.slot /\ alone.kind = rec.kind /\ alone.told = rec.told
        /\ alone.labelSlot = rec.labelSlot /\ alone.labelsRun = rec.labelsRun
        /\ alone.labelsTold = rec.labelsTold
    BY <2>1 DEF ActiveJob
  <2> HIDE DEF alone
  <2>4. /\ next.receiver = alone.receiver /\ next.stopped = TRUE
        /\ next.status = alone.status /\ next.emitted = alone.emitted
        /\ next.slot = IF alone.kind = "parallel" /\ alone.status = "RenderingLayers"
                         THEN "renderingFinished" ELSE alone.slot
        /\ next.kind = alone.kind /\ next.told = alone.told
        /\ next.labelSlot = alone.labelSlot /\ next.labelsRun = alone.labelsRun
        /\ next.labelsTold = alone.labelsTold
    BY <2>3 DEF cancelWithoutBlocking, ActiveJob
  <2>5. next \in ActiveJob
    BY <2>3 DEF cancelWithoutBlocking, ActiveJob, Slots
  <2> HIDE DEF next
  <2>6. WatchersHeard(next)
    <3>1. WatchersHeard(rec)
      BY <2>1 DEF JobAgrees, rec
    <3> QED
      BY <2>3, <2>4, <3>1 DEF WatchersHeard
  <2>7. next.status = job[mJob].status /\ next.emitted = job[mJob].emitted
    BY <2>3, <2>4 DEF rec
  <2>8. /\ StoppedJobs[mJob] = next
        /\ \A k \in Jobs \ {mJob} : StoppedJobs[k] = job[k]
        /\ StoppedJobs \in [Jobs -> {NoObject} \cup ActiveJob \cup IdleJob]
    BY <1>1, <2>1, <2>2, <2>5
  <2> QED
    BY <1>2, <2>3, <2>4, <2>6, <2>7, <2>8
<1> QED
  BY <1>3, <1>4

\* The images that a job may use: the cache's, for the extent, and none of a layer
\* whose labels have to be placed again.
LEMMA UsableImagesOfCache ==
  ASSUME IInv
  PROVE  /\ DOMAIN UsableImages \subseteq DOMAIN mCachedImages
         /\ \A k \in DOMAIN UsableImages :
              /\ UsableImages[k] = mCachedImages[k]
              /\ mCache /\ mExtent = extent
         /\ Labels \in DOMAIN UsableImages => DOMAIN UsableImages[Labels].shows = Labeled
         /\ drawLabeling /\ Labels \notin DOMAIN UsableImages =>
              Labeled \cap DOMAIN UsableImages = {}
<1> DEFINE checked == IF labelImageUsable(mCachedImages) THEN mCachedImages
                      ELSE Without(mCachedImages, {Labels})
           kept == IF mExtent = extent THEN checked ELSE <<>>
           forced == Editable \cup IF drawLabeling /\ Labels \notin DOMAIN kept
                                     THEN Labeled ELSE {}
<1>1. UsableImages = IF mCache THEN Without(kept, forced) ELSE <<>>
  BY DEF UsableImages
<1>2. /\ DOMAIN checked \subseteq DOMAIN mCachedImages
      /\ \A k \in DOMAIN checked : checked[k] = mCachedImages[k]
      /\ Labels \in DOMAIN checked => DOMAIN checked[Labels].shows = Labeled
  BY DEF labelImageUsable, Without
<1> HIDE DEF checked
<1>3. /\ DOMAIN kept \subseteq DOMAIN mCachedImages
      /\ \A k \in DOMAIN kept : kept[k] = mCachedImages[k] /\ mExtent = extent
      /\ Labels \in DOMAIN kept => DOMAIN kept[Labels].shows = Labeled
  <2>1. DOMAIN <<>> = {}
    OBVIOUS
  <2> QED
    BY <1>2, <2>1
<1> HIDE DEF kept
<1>4. /\ DOMAIN Without(kept, forced) = DOMAIN kept \ forced
      /\ \A k \in DOMAIN kept \ forced : Without(kept, forced)[k] = kept[k]
  BY DEF Without
<1>5. Labels \notin forced
  OBVIOUS
<1>6. drawLabeling /\ Labels \notin DOMAIN kept => Labeled \subseteq forced
  OBVIOUS
<1> HIDE DEF forced
<1>7. CASE mCache
  BY <1>1, <1>3, <1>4, <1>5, <1>6, <1>7
<1>8. CASE ~mCache
  <2>1. DOMAIN UsableImages = {}
    BY <1>1, <1>8
  <2> QED
    BY <2>1
<1> QED
  BY <1>7, <1>8

\* The job that start() starts: drawing, with images of the canvas's extent that
\* are whole or new, and the canvas listens.
LEMMA NewJobOfCanvas ==
  ASSUME IInv
  PROVE  LET rec == NewJob(UsableImages)
         IN  /\ rec \in ActiveJob /\ WatchersHeard(rec)
             /\ DrawnInOrder(rec) /\ DrawsCurrent(rec)
             /\ rec.status = "RenderingLayers" /\ rec.receiver = "canvas"
             /\ rec.stopped = FALSE /\ rec.cache = mCache /\ rec.extent = extent
             /\ rec.labelSlot = FALSE /\ rec.emitted = 0
<1> DEFINE images == UsableImages
           rec == NewJob(images)
           layers == [l \in Layers |-> prepareJob(l, images)]
           labels == prepareLabelingJob(images)
<1>1. /\ appearance \in [Layers -> Nat] /\ extent \in Extents /\ mCache \in BOOLEAN
      /\ drawLabeling \in BOOLEAN /\ mUseParallelRendering \in BOOLEAN
  BY DEF IInv, TypeOK, RequestsAgree
<1>2. /\ \A k \in DOMAIN images :
           /\ images[k] \in Image /\ images[k].extent = extent
           /\ images[k].drawn = "whole" \/ (k = Labels /\ DOMAIN images[k].shows = {})
      /\ Labels \in DOMAIN images => DOMAIN images[Labels].shows = Labeled
      /\ drawLabeling /\ Labels \notin DOMAIN images => Labeled \cap DOMAIN images = {}
  <2>1. CacheAgrees
    BY DEF IInv
  <2>2. ASSUME NEW k \in DOMAIN images
        PROVE  /\ images[k] \in Image /\ images[k].extent = extent
               /\ images[k].drawn = "whole" \/ (k = Labels /\ DOMAIN images[k].shows = {})
    <3>1. k \in DOMAIN mCachedImages /\ images[k] = mCachedImages[k] /\ mExtent = extent
      BY UsableImagesOfCache
    <3> HIDE DEF images
    <3> QED
      BY <1>1, <2>1, <3>1 DEF CacheAgrees
  <2> QED
    BY <2>2, UsableImagesOfCache
<1> HIDE DEF images
<1>3. ASSUME NEW l \in Layers
      PROVE  /\ layers[l] \in LayerJob
             /\ l \in DOMAIN images => layers[l].cached = TRUE
             /\ l \notin DOMAIN images => layers[l].cached = FALSE
             /\ layers[l].image.extent = extent
             /\ layers[l].draw = "ended" => layers[l].image.drawn = "whole"
             /\ ~layers[l].cached => /\ DOMAIN layers[l].image.shows = {l}
                                     /\ layers[l].image.shows[l] = appearance[l]
  <2>1. CASE l \in DOMAIN images
    <3>1. layers[l] = [cached |-> TRUE, draw |-> "ended", image |-> images[l]]
      BY <2>1 DEF prepareJob
    <3>2. /\ layers[l].cached = TRUE /\ layers[l].draw = "ended"
          /\ layers[l].image = images[l]
      BY <3>1
    <3>3. [cached |-> TRUE, draw |-> "ended", image |-> images[l]] \in LayerJob
      BY <1>2, <2>1 DEF LayerJob, Draw
    <3>4. images[l].extent = extent /\ images[l].drawn = "whole"
      BY <1>2, <2>1
    <3> HIDE DEF layers
    <3> QED
      BY <2>1, <3>1, <3>2, <3>3, <3>4
  <2>2. CASE l \notin DOMAIN images
    <3> DEFINE shows == [k \in {l} |-> appearance[k]]
               image == [shows |-> shows, drawn |-> "no", extent |-> extent, late |-> {}]
    <3>1. layers[l] = [cached |-> FALSE, draw |-> "todo", image |-> image]
      BY <2>2 DEF prepareJob
    <3>2. shows \in [{l} -> Nat] /\ DOMAIN shows = {l} /\ shows[l] = appearance[l]
      BY <1>1
    <3> HIDE DEF shows
    <3>3. image \in Image
      BY <1>1, <3>2 DEF Image
    <3>4. image.shows = shows /\ image.extent = extent
      OBVIOUS
    <3> HIDE DEF image
    <3>5. [cached |-> FALSE, draw |-> "todo", image |-> image] \in LayerJob
      BY <3>3 DEF LayerJob, Draw
    <3>6. /\ layers[l].cached = FALSE /\ layers[l].draw = "todo"
          /\ layers[l].image = image
      BY <3>1
    <3> HIDE DEF layers
    <3> QED
      BY <2>2, <3>1, <3>2, <3>4, <3>5, <3>6
  <2> QED
    BY <2>1, <2>2
<1>4. /\ labels \in LabelJob /\ labels.image.extent = extent /\ labels.draw = "todo"
      /\ Labels \in DOMAIN images => labels.cached = TRUE /\ labels.complete = TRUE
      /\ Labels \notin DOMAIN images => labels.cached = FALSE /\ labels.complete = FALSE
      /\ labels.complete => /\ DOMAIN labels.image.shows = Labeled
                            /\ Labeled # {} => labels.image.drawn = "whole"
      /\ ~labels.complete => DOMAIN labels.image.shows = {}
      /\ ~labels.cached => DOMAIN labels.image.shows = {}
  <2>1. CASE Labels \in DOMAIN images
    <3>1. labels = [cached |-> TRUE, complete |-> TRUE, draw |-> "todo",
                    image |-> images[Labels]]
      BY <2>1 DEF prepareLabelingJob
    <3> QED
      BY <1>2, <2>1, <3>1 DEF LabelJob, Draw
  <2>2. CASE Labels \notin DOMAIN images
    <3> DEFINE image == [shows |-> <<>>, drawn |-> "no", extent |-> extent, late |-> {}]
    <3>1. labels = [cached |-> FALSE, complete |-> FALSE, draw |-> "todo", image |-> image]
      BY <2>2 DEF prepareLabelingJob
    <3>2. <<>> \in [{} -> Nat] /\ DOMAIN <<>> = {}
      OBVIOUS
    <3>3. image \in Image /\ DOMAIN image.shows = {}
      BY <1>1, <3>2 DEF Image
    <3> QED
      BY <2>2, <3>1, <3>3 DEF LabelJob, Draw
  <2> QED
    BY <2>1, <2>2
<1>5. layers \in LayerJobs
  BY <1>3 DEF LayerJobs
<1>6. /\ rec.layers = layers /\ rec.labels = labels /\ rec.extent = extent
      /\ rec.labeling = drawLabeling /\ rec.late = {} /\ rec.emitted = 0
      /\ rec.status = "RenderingLayers" /\ rec.receiver = "canvas" /\ rec.cache = mCache
      /\ rec.stopped = FALSE /\ rec.labelSlot = FALSE /\ rec.labelsRun = FALSE
      /\ rec.kind = (IF mUseParallelRendering THEN "parallel" ELSE "sequential")
      /\ rec.slot = (IF mUseParallelRendering THEN "renderLayersFinished"
                                              ELSE "futureFinished")
  BY DEF NewJob
<1> HIDE DEF layers, labels
<1>7. rec \in ActiveJob
  BY <1>1, <1>4, <1>5, <1>6 DEF NewJob, ActiveJob, Slots, layers, labels
<1> HIDE DEF rec
<1>8. WatchersHeard(rec)
  BY <1>1, <1>6 DEF WatchersHeard
<1>9. DrawnInOrder(rec)
  BY <1>2, <1>3, <1>4, <1>6 DEF DrawnInOrder
<1>10. DrawsCurrent(rec)
  <2>1. ASSUME NEW l \in Layers, ~layers[l].cached PROVE ShowsNow(layers[l].image, {})
    <3>1. /\ DOMAIN layers[l].image.shows = {l}
          /\ layers[l].image.shows[l] = appearance[l]
      BY <1>3, <2>1
    <3>2. \A k \in DOMAIN layers[l].image.shows \ {} : k = l
      BY <3>1
    <3> QED
      BY <3>1, <3>2 DEF ShowsNow
  <2>2. ~labels.cached => /\ DOMAIN labels.image.shows \subseteq Labeled
                          /\ ShowsNow(labels.image, {})
    <3>1. ~labels.cached => DOMAIN labels.image.shows = {}
      BY <1>4
    <3> QED
      BY <3>1, Zenon DEF ShowsNow
  <2> QED
    BY <1>6, <2>1, <2>2 DEF DrawsCurrent
<1> QED
  BY <1>6, <1>7, <1>8, <1>9, <1>10 DEF rec, images

\* What the cache depends on are layers.
LEMMA DependentAreLayers ==
  ASSUME NEW images, \A k \in DOMAIN images : images[k] \in Image
  PROVE  /\ DependentLayers(images) \subseteq Layers
         /\ \A k \in DOMAIN images : DOMAIN images[k].shows \subseteq DependentLayers(images)
<1>1. \A i \in Image : DOMAIN i.shows \subseteq Layers
  BY DEF Image
<1> QED
  BY <1>1 DEF DependentLayers

\* The images that stay in the cache agree with it if it listens to their layers.
LEMMA CacheOfFewer ==
  ASSUME CacheAgrees, UNCHANGED <<appearance, mCache>>,
         mExtent' \in Extents \cup {NoExtent},
         mExtent' # NoExtent => mCache,
         DOMAIN mCachedImages' \subseteq DOMAIN mCachedImages,
         \A k \in DOMAIN mCachedImages' :
           /\ mCachedImages'[k] = mCachedImages[k]
           /\ mExtent' # NoExtent => mExtent' = mExtent,
         mConnectedLayers' = DependentLayers(mCachedImages')
  PROVE  CacheAgrees' /\ mConnectedLayers' \subseteq Layers
<1>1. \A k \in DOMAIN mCachedImages' : mCachedImages'[k] \in Image
  BY DEF CacheAgrees
<1>2. /\ mConnectedLayers' \subseteq Layers
      /\ \A k \in DOMAIN mCachedImages' :
           DOMAIN mCachedImages'[k].shows \subseteq mConnectedLayers'
  BY <1>1, DependentAreLayers
<1>3. ASSUME NEW k \in DOMAIN mCachedImages'
      PROVE  ShowsNow(mCachedImages[k], mCachedImages[k].late)'
  BY <1>3 DEF CacheAgrees, ShowsNow
<1> QED
  BY <1>1, <1>2, <1>3 DEF CacheAgrees, ShowsNow

LEMMA RefreshMapKeepsIInv ==
  ASSUME IInv, RefreshMap
  PROVE  IInv'
<1> USE DEF cacheVars, settingsVars, userVars
<1>1. /\ blocked = None
      /\ mCache => /\ mExtent' = extent /\ mCachedImages' = UsableImages
                   /\ mConnectedLayers' = DependentLayers(UsableImages)
      /\ ~mCache => UNCHANGED cacheVars
      /\ mJobCanceled' = FALSE /\ mRefreshScheduled' = FALSE
      /\ UNCHANGED <<mCache, settingsVars, blocked, userVars, content>>
  BY DEF RefreshMap
<1>2. PICK j \in Jobs : /\ job[j].status = "none" /\ mJob' = j
                        /\ job' = [StoppedJobs EXCEPT ![j] = NewJob(UsableImages)]
  BY DEF RefreshMap
<1> DEFINE rec == NewJob(UsableImages)
<1>3. /\ rec \in ActiveJob /\ WatchersHeard(rec) /\ DrawnInOrder(rec) /\ DrawsCurrent(rec)
      /\ rec.status = "RenderingLayers" /\ rec.receiver = "canvas"
      /\ rec.stopped = FALSE /\ rec.cache = mCache /\ rec.extent = extent
  BY NewJobOfCanvas
<1>4. /\ job'[j] = rec /\ \A k \in Jobs \ {j} : job'[k] = StoppedJobs[k]
      /\ job' \in [Jobs -> {NoObject} \cup ActiveJob \cup IdleJob]
  BY <1>1, <1>2, <1>3, StoppedJobsGiveUp
<1> HIDE DEF rec
<1>5. /\ extent \in Extents /\ mExtent \in Extents \cup {NoExtent} /\ CacheAgrees
      /\ mCache \in BOOLEAN /\ mConnectedLayers \subseteq Layers
  BY DEF IInv, TypeOK
<1>6. CacheAgrees' /\ mConnectedLayers' \subseteq Layers
  <2>1. CASE mCache
    <3>1. /\ mExtent' = extent /\ mCachedImages' = UsableImages
          /\ mConnectedLayers' = DependentLayers(mCachedImages')
      BY <1>1, <2>1
    <3>2. /\ DOMAIN mCachedImages' \subseteq DOMAIN mCachedImages
          /\ \A k \in DOMAIN mCachedImages' :
               mCachedImages'[k] = mCachedImages[k] /\ mExtent = extent
      BY <3>1, UsableImagesOfCache
    <3> QED
      BY <1>1, <1>5, <2>1, <3>1, <3>2, CacheOfFewer
  <2>2. CASE ~mCache
    BY <1>1, <1>5, <2>2 DEF CacheAgrees, ShowsNow
  <2> QED
    BY <1>5, <2>1, <2>2
<1>7. JobAgrees(j)'
  <2>1. DrawsCurrent(job[j])'
    BY <1>1, <1>3, <1>4 DEF DrawsCurrent, ShowsNow
  <2>2. mExtent' \in {NoExtent, extent}
    BY <1>1, <1>5 DEF CacheAgrees
  <2>3. ~BlockedOn(j)'
    BY <1>1 DEF BlockedOn
  <2> QED
    BY <1>1, <1>2, <1>3, <1>4, <2>1, <2>2, <2>3 DEF JobAgrees, Active
<1>8. ASSUME NEW k \in Jobs \ {j}, job'[k].status # "none" PROVE JobAgrees(k)'
  <2>1. /\ job'[k] = StoppedJobs[k] /\ StoppedJobs[k].status = job[k].status
        /\ WatchersHeard(StoppedJobs[k]) /\ StoppedJobs[k].receiver # "nobody"
        /\ Active(k) => StoppedJobs[k].stopped /\ StoppedJobs[k].receiver # "canvas"
    BY <1>1, <1>4, <1>8, StoppedJobsGiveUp
  <2>2. mJob' # k /\ ~BlockedOn(k)'
    BY <1>1, <1>2 DEF BlockedOn
  <2> QED
    BY <2>1, <2>2, GivenUpAgrees DEF Active
<1>9. JobsAgree'
  BY <1>7, <1>8 DEF JobsAgree
<1>10. JobsTyped'
  BY <1>4 DEF JobsTyped
<1>11. TypeOK'
  <2>1. \A k \in Jobs : job'[k].status \in {"none", "RenderingLayers", "RenderingLabels", "Idle"}
    BY <1>4 DEF ActiveJob, IdleJob, NoObject
  <2>2. DOMAIN mCachedImages' \subseteq IF mCache' THEN Layers \cup {Labels} ELSE {}
    BY <1>6 DEF CacheAgrees
  <2>3. mExtent' \in Extents \cup {NoExtent}
    BY <1>1, <1>5
  <2> QED
    BY <1>1, <1>2, <1>6, <2>1, <2>2, <2>3 DEF IInv, TypeOK
<1>12. RequestsAgree'
  BY <1>1 DEF IInv, RequestsAgree
<1>13. BlockedAgrees'
  BY <1>1, <1>2, <1>3, <1>4 DEF BlockedAgrees
<1> QED
  BY <1>1, <1>6, <1>9, <1>10, <1>11, <1>12, <1>13 DEF IInv, PictureSound

-----------------------------------------------------------------------------
(***************************************************************************)
(* Requests of the user                                                    *)
(***************************************************************************)

\* A repaint that a layer asks for reaches the cache if an image shows it, and
\* makes the job that runs late.
LEMMA TriggerRepaintKeepsIInv ==
  ASSUME IInv, NEW l \in Layers, NEW deferred \in BOOLEAN, TriggerRepaint(l, deferred)
  PROVE  IInv'
<1> USE DEF settingsVars
<1>1. /\ blocked = None /\ requests < MaxRequests /\ requests' = requests + 1
      /\ appearance' = [appearance EXCEPT ![l] = @ + 1]
      /\ layerRequestedRepaint(l)
      /\ mRefreshScheduled' = (mRefreshScheduled \/ ~deferred)
      /\ job' = IF mJob = NoJob THEN job ELSE [job EXCEPT ![mJob].late = @ \cup {l}]
      /\ UNCHANGED <<mExtent, mCache, mJob, mJobCanceled, settingsVars, blocked, alive,
                     content>>
  BY DEF TriggerRepaint, Asked
<1>2. /\ appearance \in [Layers -> 0 .. MaxRequests] /\ requests \in 0 .. MaxRequests
      /\ \A k \in Layers : appearance[k] <= requests
      /\ CacheAgrees /\ JobsTyped /\ TypeOK
  BY DEF IInv, TypeOK, RequestsAgree
<1>3. /\ appearance' \in [Layers -> 0 .. MaxRequests]
      /\ \A k \in Layers \ {l} : appearance'[k] = appearance[k]
      /\ RequestsAgree'
  <2>1. appearance[l] + 1 \in 0 .. MaxRequests /\ requests' \in 0 .. MaxRequests
    BY <1>1, <1>2
  <2>2. \A k \in Layers : appearance'[k] <= requests'
    BY <1>1, <1>2
  <2>3. mUseParallelRendering' \in BOOLEAN
    BY <1>1 DEF IInv, RequestsAgree
  <2> QED
    BY <1>1, <1>2, <2>1, <2>2, <2>3 DEF RequestsAgree
<1>4. ASSUME NEW image \in Image, NEW late \in SUBSET Layers, ShowsNow(image, late)
      PROVE  /\ ShowsNow(image, late \cup {l})'
             /\ l \notin DOMAIN image.shows => ShowsNow(image, late)'
  <2>1. DOMAIN image.shows \subseteq Layers
    BY DEF Image
  <2> QED
    BY <1>3, <1>4, <2>1 DEF ShowsNow
<1>5. CacheAgrees' /\ mConnectedLayers' \subseteq Layers
  <2> DEFINE stale == {k \in DOMAIN mCachedImages : l \in DOMAIN mCachedImages[k].shows}
             rest == Without(mCachedImages, stale)
  <2>1. DOMAIN rest = DOMAIN mCachedImages \ stale
          /\ \A k \in DOMAIN rest : rest[k] = mCachedImages[k]
    BY DEF Without
  <2>2. \/ /\ mCachedImages' = rest /\ mConnectedLayers' = DependentLayers(rest)
        \/ /\ UNCHANGED <<mCachedImages, mConnectedLayers>>
           /\ ~mCache \/ l \notin mConnectedLayers
    BY <1>1 DEF layerRequestedRepaint
  <2>3. \A k \in DOMAIN mCachedImages : k \notin stale => l \notin DOMAIN mCachedImages[k].shows
    OBVIOUS
  <2> HIDE DEF rest
  <2>4. ASSUME NEW k \in DOMAIN mCachedImages'
        PROVE  /\ k \in DOMAIN mCachedImages /\ mCachedImages'[k] = mCachedImages[k]
               /\ l \notin DOMAIN mCachedImages[k].shows
    <3>1. CASE mCachedImages' = rest
      BY <2>1, <2>3, <2>4, <3>1
    <3>2. CASE UNCHANGED mCachedImages /\ (~mCache \/ l \notin mConnectedLayers)
      BY <1>2, <2>4, <3>2 DEF CacheAgrees
    <3> QED
      BY <2>2, <3>1, <3>2
  <2>5. \A k \in DOMAIN mCachedImages' : ShowsNow(mCachedImages[k], mCachedImages[k].late)'
    <3> TAKE k \in DOMAIN mCachedImages'
    <3> DEFINE i == mCachedImages[k]
    <3>1. i \in Image /\ ShowsNow(i, i.late)
      BY <1>2, <2>4 DEF CacheAgrees
    <3>2. DOMAIN i.shows \subseteq Layers \ {l}
      BY <2>4, <3>1 DEF Image
    <3>3. \A m \in DOMAIN i.shows \ i.late : i.shows[m] = appearance'[m]
      BY <1>3, <3>1, <3>2 DEF ShowsNow
    <3> QED
      BY <2>4, <3>3 DEF ShowsNow
  <2>6. mConnectedLayers' \subseteq Layers
          /\ \A k \in DOMAIN mCachedImages' :
               DOMAIN mCachedImages'[k].shows \subseteq mConnectedLayers'
    <3>1. CASE mCachedImages' = rest /\ mConnectedLayers' = DependentLayers(rest)
      <4>1. \A k \in DOMAIN rest : rest[k] \in Image
        BY <1>2, <2>1 DEF CacheAgrees
      <4> QED
        BY <3>1, <4>1, DependentAreLayers
    <3>2. CASE UNCHANGED <<mCachedImages, mConnectedLayers>>
      BY <1>2, <3>2 DEF CacheAgrees, TypeOK
    <3> QED
      BY <2>2, <3>1, <3>2
  <2> QED
    BY <1>1, <1>2, <2>4, <2>5, <2>6 DEF CacheAgrees
<1>6. /\ job' \in [Jobs -> {NoObject} \cup ActiveJob \cup IdleJob]
      /\ JobsAgree'
      /\ \A k \in Jobs : job'[k].status = job[k].status /\ job'[k].receiver = job[k].receiver
  <2>1. ASSUME NEW k \in Jobs, mJob # k, job'[k].status # "none", job'[k] = job[k]
        PROVE  JobAgrees(k)'
    BY <1>1, <2>1, OthersGivenUp, GivenUpAgrees DEF BlockedOn, Active
  <2>2. CASE mJob = NoJob
    BY <1>1, <1>2, <2>1, <2>2 DEF JobsAgree, JobsTyped
  <2>3. CASE mJob # NoJob
    <3> DEFINE rec == [job[mJob] EXCEPT !.late = @ \cup {l}]
    <3>1. mJob \in Jobs /\ Active(mJob) /\ job[mJob] \in ActiveJob /\ JobAgrees(mJob)
      BY <1>1, <2>3, CanvasJobActive
    <3>2. /\ rec \in ActiveJob /\ rec.late = job[mJob].late \cup {l}
          /\ rec.status = job[mJob].status /\ rec.receiver = job[mJob].receiver
          /\ rec.stopped = job[mJob].stopped /\ rec.cache = job[mJob].cache
          /\ rec.extent = job[mJob].extent /\ rec.layers = job[mJob].layers
          /\ rec.labels = job[mJob].labels /\ rec.labeling = job[mJob].labeling
          /\ rec.slot = job[mJob].slot /\ rec.labelSlot = job[mJob].labelSlot
          /\ rec.told = job[mJob].told /\ rec.labelsRun = job[mJob].labelsRun
          /\ rec.labelsTold = job[mJob].labelsTold /\ rec.emitted = job[mJob].emitted
          /\ rec.kind = job[mJob].kind
      BY <3>1 DEF ActiveJob
    <3>3. job' = [job EXCEPT ![mJob] = rec]
      BY <1>1, <2>3
    <3> HIDE DEF rec
    <3>4. /\ job'[mJob] = rec /\ \A k \in Jobs \ {mJob} : job'[k] = job[k]
          /\ job' \in [Jobs -> {NoObject} \cup ActiveJob \cup IdleJob]
      BY <1>2, <3>1, <3>2, <3>3 DEF JobsTyped
    <3>5. ASSUME DrawsCurrent(job[mJob]) PROVE DrawsCurrent(job[mJob])'
      <4>1. /\ \A k \in Layers : job[mJob].layers[k].image \in Image
            /\ job[mJob].labels.image \in Image
        BY <3>1 DEF ActiveJob, LayerJobs, LayerJob, LabelJob
      <4>2. \A image \in Image : DOMAIN image.shows \subseteq Layers
        BY DEF Image
      <4>3. ASSUME NEW image \in Image, ShowsNow(image, job[mJob].late)
            PROVE  \A k \in DOMAIN image.shows \ rec.late : image.shows[k] = appearance'[k]
        BY <1>3, <3>2, <4>2, <4>3 DEF ShowsNow
      <4>4. /\ job'[mJob'].layers = job[mJob].layers /\ job'[mJob'].labels = job[mJob].labels
            /\ job'[mJob'].late = rec.late
        BY <1>1, <3>2, <3>4
      <4> QED
        BY <3>5, <4>1, <4>3, <4>4 DEF DrawsCurrent, ShowsNow
    <3>6. JobAgrees(mJob)'
      <4>1. WatchersHeard(rec)
        BY <3>1, <3>2 DEF JobAgrees, WatchersHeard
      <4>2. DrawnInOrder(job[mJob]) => DrawnInOrder(rec)
        BY <3>2 DEF DrawnInOrder, LayersEnded
      <4>3. job'[mJob'] = rec /\ mJob' = mJob
        BY <1>1, <3>4
      <4>4. WatchersHeard(job[mJob])' /\ (DrawnInOrder(job[mJob]) => DrawnInOrder(job[mJob])')
        BY <4>1, <4>2, <4>3 DEF WatchersHeard, DrawnInOrder, LayersEnded
      <4> QED
        BY <1>1, <3>1, <3>2, <3>4, <3>5, <4>3, <4>4 DEF JobAgrees, Active, BlockedOn
    <3>7. ASSUME NEW k \in Jobs, k = mJob PROVE JobAgrees(k)'
      <4>1. mJob' = k
        BY <1>1, <3>7
      <4> QED
        BY <3>6, <4>1
    <3>8. JobsAgree'
      BY <2>1, <3>4, <3>7 DEF JobsAgree
    <3>9. \A k \in Jobs : job'[k].status = job[k].status /\ job'[k].receiver = job[k].receiver
      BY <3>1, <3>2, <3>4
    <3> QED
      BY <3>4, <3>8, <3>9
  <2> QED
    BY <2>2, <2>3
<1>7. JobsTyped'
  BY <1>6 DEF JobsTyped
<1>8. BlockedAgrees'
  BY <1>1, <1>6 DEF IInv, BlockedAgrees
<1>9. TypeOK'
  <2>1. DOMAIN mCachedImages' \subseteq IF mCache' THEN Layers \cup {Labels} ELSE {}
    BY <1>5 DEF CacheAgrees
  <2>2. mRefreshScheduled' \in BOOLEAN
    BY <1>1
  <2> QED
    BY <1>1, <1>2, <1>3, <1>5, <1>6, <2>1, <2>2 DEF TypeOK
<1> QED
  BY <1>1, <1>3, <1>5, <1>6, <1>7, <1>8, <1>9 DEF IInv, PictureSound

\* A request that leaves the jobs alone, and that clears the cache or leaves it alone.
LEMMA JobsAsTheyWere ==
  ASSUME IInv, UNCHANGED <<job, mJob, blocked, mCache, appearance, content>>,
         clearInternal \/ UNCHANGED cacheVars,
         mRefreshScheduled' \in BOOLEAN, mJobCanceled' \in BOOLEAN,
         drawLabeling' \in BOOLEAN, alive' \in BOOLEAN,
         extent' \in Extents, RequestsAgree'
  PROVE  IInv'
<1> USE DEF cacheVars
<1>1. /\ mExtent' \in {mExtent, NoExtent} /\ CacheAgrees' /\ mConnectedLayers' \subseteq Layers
      /\ DOMAIN mCachedImages' \subseteq IF mCache THEN Layers \cup {Labels} ELSE {}
  <2>1. CASE clearInternal
    <3>1. DOMAIN mCachedImages' = {}
      BY <2>1 DEF clearInternal
    <3> QED
      BY <2>1, <3>1 DEF clearInternal, CacheAgrees
  <2>2. CASE UNCHANGED cacheVars
    BY <2>2 DEF IInv, TypeOK, CacheAgrees, ShowsNow
  <2> QED
    BY <2>1, <2>2
<1>2. JobsAgree'
  BY <1>1, AgreesStill DEF IInv, JobsAgree
<1>3. JobsTyped' /\ BlockedAgrees'
  BY DEF IInv, JobsTyped, BlockedAgrees
<1>4. TypeOK'
  BY <1>1 DEF IInv, TypeOK
<1> QED
  BY <1>1, <1>2, <1>3, <1>4 DEF IInv, PictureSound

\* One more request changes nothing else that RequestsAgree is about.
LEMMA AskedAgrees ==
  ASSUME IInv, NEW call, Asked(call), appearance' = appearance,
         mUseParallelRendering' = mUseParallelRendering
  PROVE  RequestsAgree' /\ blocked = None
BY DEF IInv, RequestsAgree, Asked, TypeOK

LEMMA SetExtentKeepsIInv ==
  ASSUME IInv, NEW e \in Extents, SetExtent(e)
  PROVE  IInv'
BY AskedAgrees, JobsAsTheyWere DEF SetExtent, IInv, TypeOK

LEMMA SetMapSettingsFlagsKeepsIInv ==
  ASSUME IInv, SetMapSettingsFlags
  PROVE  IInv'
BY AskedAgrees, JobsAsTheyWere DEF SetMapSettingsFlags, IInv, TypeOK

LEMMA AutoRefreshKeepsIInv ==
  ASSUME IInv, AutoRefresh
  PROVE  IInv'
<1>1. RequestsAgree'
  BY DEF AutoRefresh, IInv, RequestsAgree, settingsVars, userVars
<1> QED
  BY <1>1, JobsAsTheyWere DEF AutoRefresh, IInv, TypeOK, settingsVars, userVars

LEMMA StutterKeepsIInv ==
  ASSUME IInv, UNCHANGED vars
  PROVE  IInv'
<1> USE DEF vars, canvasVars, settingsVars, userVars
<1>1. RequestsAgree'
  BY DEF IInv, RequestsAgree
<1> QED
  BY <1>1, JobsAsTheyWere DEF IInv, TypeOK

LEMMA StopRenderingKeepsIInv ==
  ASSUME IInv, StopRendering
  PROVE  IInv'
<1> USE DEF cacheVars, settingsVars
<1>1. /\ job' = StoppedJobs /\ mJob' = NoJob /\ mJobCanceled' = TRUE
      /\ UNCHANGED <<cacheVars, mCache, mRefreshScheduled, settingsVars, blocked,
                     appearance, alive, content>>
      /\ RequestsAgree' /\ blocked = None
  BY AskedAgrees DEF StopRendering
<1>2. JobsAgree'
  <2>1. ASSUME NEW k \in Jobs, job'[k].status # "none" PROVE JobAgrees(k)'
    <3>1. /\ job'[k] = StoppedJobs[k] /\ StoppedJobs[k].status = job[k].status
          /\ WatchersHeard(StoppedJobs[k]) /\ StoppedJobs[k].receiver # "nobody"
          /\ Active(k) => StoppedJobs[k].stopped /\ StoppedJobs[k].receiver # "canvas"
      BY <1>1, <2>1, StoppedJobsGiveUp
    <3>2. mJob' # k /\ ~BlockedOn(k)'
      BY <1>1 DEF BlockedOn
    <3> QED
      BY <3>1, <3>2, GivenUpAgrees DEF Active
  <2> QED
    BY <2>1 DEF JobsAgree
<1>3. JobsTyped'
  BY <1>1, StoppedJobsGiveUp DEF JobsTyped
<1>4. TypeOK'
  <2>1. \A k \in Jobs : job'[k].status = job[k].status
    BY <1>1, StoppedJobsGiveUp
  <2> QED
    BY <1>1, <2>1 DEF IInv, TypeOK
<1>5. BlockedAgrees' /\ CacheAgrees'
  BY <1>1 DEF IInv, BlockedAgrees, CacheAgrees, ShowsNow
<1> QED
  BY <1>1, <1>2, <1>3, <1>4, <1>5 DEF IInv, PictureSound

-----------------------------------------------------------------------------
(***************************************************************************)
(* Calls that block the main thread until a job has ended                  *)
(***************************************************************************)

\* The main thread begins to wait for the canvas's job, which goes on as rec.
LEMMA WaitsForCanvasJob ==
  ASSUME IInv, blocked = None, mJob # NoJob, NEW rec \in ActiveJob,
         job' = [job EXCEPT ![mJob] = rec],
         rec.status = job[mJob].status, WatchersHeard(rec), rec.labelSlot = FALSE,
         rec.status = "RenderingLayers" => rec.slot = "none",
         UNCHANGED <<cacheVars, mCache, mJob, appearance>>,
         blocked' # None, blocked'.on = mJob,
         \/ /\ blocked'.what = "caching" /\ rec.receiver = "canvas"
            /\ rec.stopped = FALSE /\ rec.cache = mCache /\ mExtent \in {NoExtent, rec.extent}
            /\ DrawnInOrder(rec) /\ DrawsCurrent(rec)
         \/ blocked'.what = "destroy" /\ rec.receiver = "nobody" /\ rec.stopped = TRUE
  PROVE  /\ JobsAgree' /\ JobsTyped' /\ BlockedAgrees' /\ CacheAgrees'
         /\ \A k \in Jobs : job'[k].status = job[k].status
<1> USE DEF cacheVars
<1>1. mJob \in Jobs /\ Active(mJob) /\ JobAgrees(mJob)
  BY CanvasJobActive
<1>2. /\ job'[mJob] = rec /\ \A k \in Jobs \ {mJob} : job'[k] = job[k]
      /\ job' \in [Jobs -> {NoObject} \cup ActiveJob \cup IdleJob]
  BY <1>1 DEF IInv, JobsTyped
<1>3. rec.status \in {"RenderingLayers", "RenderingLabels"}
  BY DEF ActiveJob
<1>4. PICK i \in Jobs : i = mJob
  BY <1>1
<1>5. job'[i] = rec /\ mJob' = i /\ blocked'.on = i
  BY <1>2, <1>4
<1>6. JobAgrees(i)'
  <2>1. /\ WatchersHeard(rec) <=> WatchersHeard(job[i])'
        /\ DrawnInOrder(rec) <=> DrawnInOrder(job[i])'
        /\ DrawsCurrent(rec) <=> DrawsCurrent(job[i])'
    <3>1. WatchersHeard(rec) <=> WatchersHeard(job[i])'
      BY <1>5
    <3>2. DrawnInOrder(rec) <=> DrawnInOrder(job[i])'
      BY <1>5
    <3>3. DrawsCurrent(rec) <=> DrawsCurrent(job[i])'
      BY <1>5, SMTT(20) DEF DrawsCurrent, ShowsNow
    <3> QED
      BY <3>1, <3>2, <3>3
  <2> QED
    BY <1>3, <1>5, <2>1 DEF JobAgrees, Active, BlockedOn
<1>7. ASSUME NEW k \in Jobs, k # i, job'[k].status # "none" PROVE JobAgrees(k)'
  <2>1. job'[k] = job[k] /\ mJob # k /\ ~BlockedOn(k) /\ ~BlockedOn(k)' /\ mJob' # k
    BY <1>2, <1>4, <1>7 DEF BlockedOn
  <2> QED
    BY <1>7, <2>1, OthersGivenUp, GivenUpAgrees DEF Active, WatchersHeard
<1>8. JobsAgree'
  BY <1>6, <1>7 DEF JobsAgree
<1>9. JobsTyped'
  BY <1>2 DEF JobsTyped
<1>10. BlockedAgrees'
  BY <1>3, <1>4, <1>5 DEF BlockedAgrees
<1>11. CacheAgrees'
  BY DEF IInv, CacheAgrees, ShowsNow
<1> QED
  BY <1>1, <1>2, <1>8, <1>9, <1>10, <1>11

\* What becomes of a job that is disconnected, whether it is stopped or not.
LEMMA DisconnectedJob ==
  ASSUME NEW rec \in ActiveJob, WatchersHeard(rec)
  PROVE  LET d == Disconnected(rec)
         IN  /\ d \in ActiveJob /\ WatchersHeard(d)
             /\ d.labelSlot = FALSE
             /\ d.status = "RenderingLayers" => d.slot = "none"
             /\ d.status = rec.status /\ d.receiver = rec.receiver
             /\ d.stopped = rec.stopped /\ d.cache = rec.cache /\ d.extent = rec.extent
             /\ DrawnInOrder(rec) => DrawnInOrder(d)
             /\ DrawsCurrent(rec) => DrawsCurrent(d)
<1> DEFINE d == Disconnected(rec)
<1>1. /\ d \in ActiveJob
      /\ d.slot = IF rec.status = "RenderingLayers" THEN "none" ELSE rec.slot
      /\ d.labelSlot = FALSE /\ d.status = rec.status /\ d.receiver = rec.receiver
      /\ d.stopped = rec.stopped /\ d.cache = rec.cache /\ d.extent = rec.extent
      /\ d.layers = rec.layers /\ d.labels = rec.labels /\ d.labeling = rec.labeling
      /\ d.late = rec.late /\ d.kind = rec.kind /\ d.told = rec.told
      /\ d.labelsRun = rec.labelsRun /\ d.labelsTold = rec.labelsTold
      /\ d.emitted = rec.emitted
  BY DEF Disconnected, ActiveJob, Slots
<1> HIDE DEF d
<1>2. WatchersHeard(d)
  BY <1>1 DEF WatchersHeard
<1>3. DrawnInOrder(rec) => DrawnInOrder(d)
  BY <1>1 DEF DrawnInOrder, LayersEnded
<1>4. DrawsCurrent(rec) => DrawsCurrent(d)
  BY <1>1 DEF DrawsCurrent, ShowsNow
<1> QED
  BY <1>1, <1>2, <1>3, <1>4 DEF d

\* A canvas without a job may do with its cache what it wants.
LEMMA NoJobAgrees ==
  ASSUME IInv, mJob = NoJob, mJob' = NoJob, job' = job,
         \A k \in Jobs : job[k].status # "none" => ~BlockedOn(k) /\ ~BlockedOn(k)'
  PROVE  JobsAgree' /\ JobsTyped'
<1>1. ASSUME NEW k \in Jobs, job'[k].status # "none" PROVE JobAgrees(k)'
  <2>1. job[k].status # "none" /\ mJob # k /\ mJob' # k /\ ~BlockedOn(k) /\ ~BlockedOn(k)'
    BY <1>1
  <2> QED
    BY <2>1, OthersGivenUp, GivenUpAgrees DEF Active, WatchersHeard
<1> QED
  BY <1>1 DEF JobsAgree, IInv, JobsTyped

\* An empty cache agrees with anything.
LEMMA ClearedAgrees ==
  ASSUME clearInternal
  PROVE  CacheAgrees' /\ mConnectedLayers' = {} /\ mExtent' = NoExtent
           /\ DOMAIN mCachedImages' = {}
<1>1. DOMAIN mCachedImages' = {}
  BY DEF clearInternal
<1> QED
  BY <1>1 DEF clearInternal, CacheAgrees

LEMMA SetCachingEnabledKeepsIInv ==
  ASSUME IInv, SetCachingEnabled
  PROVE  IInv'
<1> USE DEF cacheVars, canvasVars, settingsVars
<1>1. /\ RequestsAgree' /\ blocked = None
      /\ UNCHANGED <<canvasVars, appearance, alive, content>>
  BY AskedAgrees DEF SetCachingEnabled
<1>2. CASE mJob = NoJob
  <2>1. clearInternal /\ mCache' = ~mCache /\ UNCHANGED <<job, blocked>>
    BY <1>2 DEF SetCachingEnabled, SwapCache
  <2>2. JobsAgree' /\ JobsTyped'
    BY <1>1, <1>2, <2>1, NoJobAgrees DEF BlockedOn
  <2>3. BlockedAgrees'
    BY <1>1, <1>2, <2>1 DEF BlockedAgrees
  <2>4. TypeOK'
    BY <1>1, <2>1, ClearedAgrees DEF IInv, TypeOK
  <2> QED
    BY <1>1, <2>1, <2>2, <2>3, <2>4, ClearedAgrees DEF IInv, PictureSound
<1>3. CASE mJob # NoJob
  <2> DEFINE rec == Disconnected(job[mJob])
  <2>1. /\ job' = [job EXCEPT ![mJob] = rec]
        /\ blocked' = [what |-> "caching", on |-> mJob]
        /\ UNCHANGED <<cacheVars, mCache>>
    BY <1>3 DEF SetCachingEnabled
  <2>2. /\ Active(mJob) /\ job[mJob] \in ActiveJob /\ job[mJob].receiver = "canvas"
        /\ JobAgrees(mJob) /\ WatchersHeard(job[mJob]) /\ job[mJob].stopped \in BOOLEAN
    BY <1>1, <1>3, CanvasJobActive DEF JobAgrees, ActiveJob
  <2>3. /\ job[mJob].stopped = FALSE /\ job[mJob].cache = mCache
        /\ mExtent \in {NoExtent, job[mJob].extent}
        /\ DrawnInOrder(job[mJob]) /\ DrawsCurrent(job[mJob])
    BY <2>2 DEF JobAgrees
  <2>4. /\ rec \in ActiveJob /\ WatchersHeard(rec)
        /\ rec.labelSlot = FALSE
        /\ rec.status = "RenderingLayers" => rec.slot = "none"
        /\ rec.status = job[mJob].status /\ rec.receiver = job[mJob].receiver
        /\ rec.stopped = job[mJob].stopped /\ rec.cache = job[mJob].cache
        /\ rec.extent = job[mJob].extent /\ DrawnInOrder(rec) /\ DrawsCurrent(rec)
    BY <2>2, <2>3, DisconnectedJob
  <2> HIDE DEF rec
  <2>5. blocked' # None /\ blocked'.on = mJob /\ blocked'.what = "caching"
    BY <2>1 DEF None
  <2>6. /\ JobsAgree' /\ JobsTyped' /\ BlockedAgrees' /\ CacheAgrees'
        /\ \A k \in Jobs : job'[k].status = job[k].status
    BY <1>1, <1>3, <2>1, <2>2, <2>3, <2>4, <2>5, WaitsForCanvasJob
  <2>7. TypeOK'
    BY <1>1, <2>1, <2>6 DEF IInv, TypeOK
  <2> QED
    BY <1>1, <2>6, <2>7 DEF IInv, PictureSound
<1> QED
  BY <1>2, <1>3

LEMMA DestroyCanvasKeepsIInv ==
  ASSUME IInv, DestroyCanvas
  PROVE  IInv'
<1> USE DEF cacheVars, canvasVars, settingsVars
<1>1. /\ RequestsAgree' /\ blocked = None /\ alive' = FALSE
      /\ UNCHANGED <<cacheVars, mCache, canvasVars, appearance, content>>
  BY AskedAgrees DEF DestroyCanvas
<1>2. CASE mJob = NoJob
  <2>1. blocked' = [what |-> "destroyed", on |-> NoJob] /\ job' = job
    BY <1>2 DEF DestroyCanvas
  <2>2. blocked'.what = "destroyed" /\ blocked'.on = NoJob
    BY <2>1
  <2>3. JobsAgree' /\ JobsTyped'
    BY <1>1, <1>2, <2>1, <2>2, NoJobAgrees DEF BlockedOn
  <2>4. BlockedAgrees'
    BY <1>1, <1>2, <2>2 DEF BlockedAgrees
  <2>5. TypeOK' /\ CacheAgrees'
    BY <1>1, <2>1 DEF IInv, TypeOK, CacheAgrees, ShowsNow
  <2> QED
    BY <1>1, <2>3, <2>4, <2>5 DEF IInv, PictureSound
<1>3. CASE mJob # NoJob
  <2> DEFINE gone == [job[mJob] EXCEPT !.stopped = TRUE, !.receiver = "nobody"]
             rec == Disconnected(gone)
  <2>1. job' = [job EXCEPT ![mJob] = rec] /\ blocked' = [what |-> "destroy", on |-> mJob]
    BY <1>3 DEF DestroyCanvas
  <2>2. Active(mJob) /\ job[mJob] \in ActiveJob /\ JobAgrees(mJob) /\ WatchersHeard(job[mJob])
    BY <1>1, <1>3, CanvasJobActive DEF JobAgrees
  <2>3. /\ gone \in ActiveJob /\ gone.stopped = TRUE /\ gone.receiver = "nobody"
        /\ gone.status = job[mJob].status /\ gone.slot = job[mJob].slot
        /\ gone.kind = job[mJob].kind /\ gone.told = job[mJob].told
        /\ gone.labelSlot = job[mJob].labelSlot /\ gone.labelsRun = job[mJob].labelsRun
        /\ gone.labelsTold = job[mJob].labelsTold /\ gone.emitted = job[mJob].emitted
    BY <2>2 DEF ActiveJob
  <2> HIDE DEF gone
  <2>4. WatchersHeard(gone)
    BY <2>2, <2>3 DEF WatchersHeard
  <2>5. /\ rec \in ActiveJob /\ WatchersHeard(rec)
        /\ rec.labelSlot = FALSE
        /\ rec.status = "RenderingLayers" => rec.slot = "none"
        /\ rec.status = job[mJob].status /\ rec.receiver = "nobody" /\ rec.stopped = TRUE
    BY <2>3, <2>4, DisconnectedJob
  <2> HIDE DEF rec
  <2>6. blocked' # None /\ blocked'.on = mJob /\ blocked'.what = "destroy"
    BY <2>1 DEF None
  <2>7. /\ JobsAgree' /\ JobsTyped' /\ BlockedAgrees' /\ CacheAgrees'
        /\ \A k \in Jobs : job'[k].status = job[k].status
    BY <1>1, <1>3, <2>1, <2>5, <2>6, WaitsForCanvasJob
  <2>8. TypeOK'
    BY <1>1, <2>7 DEF IInv, TypeOK
  <2> QED
    BY <1>1, <2>7, <2>8 DEF IInv, PictureSound
<1> QED
  BY <1>2, <1>3

\* The job that was waited for has ended, and with it the canvas has none.
LEMMA CachingReturnsKeepsIInv ==
  ASSUME IInv, CachingReturns
  PROVE  IInv'
<1> USE DEF cacheVars, canvasVars, settingsVars, userVars
<1>1. /\ blocked # None /\ blocked.what = "caching" /\ job[blocked.on].status = "Idle"
      /\ clearInternal /\ mCache' = ~mCache /\ blocked' = None
      /\ UNCHANGED <<canvasVars, job, userVars, content>>
  BY DEF CachingReturns, SwapCache
<1>2. PICK i \in Jobs : i = blocked.on /\ job[i].status = "Idle" /\ mJob \in {i, NoJob}
  BY <1>1 DEF IInv, BlockedAgrees
<1>3. JobAgrees(i) /\ job[i].receiver # "nobody" /\ mJob = NoJob
  <2>1. JobAgrees(i)
    BY <1>2 DEF IInv, JobsAgree
  <2>2. job[i].receiver # "nobody"
    BY <1>1, <2>1 DEF JobAgrees
  <2> QED
    BY <1>2, <2>1, <2>2 DEF JobAgrees, Active
<1>4. ASSUME NEW k \in Jobs, job'[k].status # "none" PROVE JobAgrees(k)'
  <2>1. mJob' # k /\ ~BlockedOn(k)' /\ mJob # k /\ job'[k] = job[k]
    BY <1>1, <1>3 DEF BlockedOn
  <2>2. CASE k = i
    BY <1>1, <1>2, <1>3, <2>1, <2>2, GivenUpAgrees DEF JobAgrees, Active, WatchersHeard
  <2>3. CASE k # i
    <3>1. ~BlockedOn(k)
      BY <1>2, <2>3 DEF BlockedOn
    <3> QED
      BY <1>4, <2>1, <3>1, OthersGivenUp, GivenUpAgrees DEF Active, WatchersHeard
  <2> QED
    BY <2>2, <2>3
<1>5. JobsAgree' /\ JobsTyped'
  BY <1>1, <1>4 DEF JobsAgree, IInv, JobsTyped
<1>6. BlockedAgrees'
  BY <1>1, <1>3 DEF BlockedAgrees
<1>7. TypeOK'
  BY <1>1, ClearedAgrees DEF IInv, TypeOK
<1>8. RequestsAgree'
  BY <1>1 DEF IInv, RequestsAgree
<1> QED
  BY <1>1, <1>5, <1>6, <1>7, <1>8, ClearedAgrees DEF IInv, PictureSound

\* Jobs that were given up outlive the canvas.
LEMMA DestroyReturnsKeepsIInv ==
  ASSUME IInv, DestroyReturns
  PROVE  IInv'
<1> USE DEF settingsVars, userVars
<1>1. /\ blocked # None /\ blocked.what \in {"destroy", "destroyed"}
      /\ job' = [j \in Jobs |-> IF j = blocked.on THEN NoObject ELSE job[j]]
      /\ clearInternal /\ mCache' = FALSE /\ mJob' = NoJob
      /\ mRefreshScheduled' = FALSE /\ content' = None /\ blocked' = None
      /\ UNCHANGED <<mJobCanceled, settingsVars, userVars>>
  BY DEF DestroyReturns
<1>2. \A k \in Jobs : mJob = k => blocked.on = k
  BY <1>1 DEF IInv, BlockedAgrees
<1>3. ASSUME NEW k \in Jobs, job'[k].status # "none" PROVE JobAgrees(k)'
  <2>1. k # blocked.on /\ job'[k] = job[k]
    BY <1>1, <1>3 DEF NoObject
  <2>2. mJob' # k /\ mJob # k /\ ~BlockedOn(k) /\ ~BlockedOn(k)'
    BY <1>1, <1>2, <2>1 DEF BlockedOn
  <2> QED
    BY <1>3, <2>1, <2>2, OthersGivenUp, GivenUpAgrees DEF Active, WatchersHeard
<1>4. JobsAgree'
  BY <1>3 DEF JobsAgree
<1>5. JobsTyped'
  BY <1>1 DEF IInv, JobsTyped
<1>6. BlockedAgrees'
  BY <1>1 DEF BlockedAgrees
<1>7. TypeOK'
  <2>1. \A k \in Jobs : job'[k].status \in {"none", "RenderingLayers", "RenderingLabels", "Idle"}
    BY <1>1 DEF IInv, TypeOK, NoObject
  <2> QED
    BY <1>1, <2>1, ClearedAgrees DEF IInv, TypeOK
<1>8. RequestsAgree' /\ PictureSound'
  BY <1>1 DEF IInv, RequestsAgree, PictureSound
<1> QED
  BY <1>4, <1>5, <1>6, <1>7, <1>8, <1>1, ClearedAgrees DEF IInv

-----------------------------------------------------------------------------
(***************************************************************************)
(* The theorems                                                            *)
(***************************************************************************)

LEMMA NextKeepsIInv ==
  ASSUME IInv, [Next]_vars
  PROVE  IInv'
<1>1. CASE \E j \in Jobs : Draws(j)
  BY <1>1, StartLayerKeepsIInv, EndLayerKeepsIInv, SkipLayersKeepsIInv,
     StartLabelsKeepsIInv, EndLabelsKeepsIInv DEF Draws
<1>2. CASE \E j \in Jobs : Events(j)
  BY <1>2, DeliverFinishedKeepsIInv, DeliverLabelsFinishedKeepsIInv, DeleteJobKeepsIInv
     DEF Events
<1>3. CASE MainThread
  BY <1>3, WaitedForFinishedKeepsIInv, WaitedForLabelsKeepsIInv, CachingReturnsKeepsIInv,
     DestroyReturnsKeepsIInv, RefreshMapKeepsIInv DEF MainThread
<1>4. CASE \E l \in Layers, deferred \in BOOLEAN : TriggerRepaint(l, deferred)
  BY <1>4, TriggerRepaintKeepsIInv
<1>5. CASE \E e \in Extents : SetExtent(e)
  BY <1>5, SetExtentKeepsIInv
<1>6. CASE SetMapSettingsFlags \/ AutoRefresh \/ StopRendering \/ SetCachingEnabled
             \/ DestroyCanvas
  BY <1>6, SetMapSettingsFlagsKeepsIInv, AutoRefreshKeepsIInv, StopRenderingKeepsIInv,
     SetCachingEnabledKeepsIInv, DestroyCanvasKeepsIInv
<1>7. CASE UNCHANGED vars
  BY <1>7, StutterKeepsIInv
<1> QED
  BY <1>1, <1>2, <1>3, <1>4, <1>5, <1>6, <1>7 DEF Next

\* The canvas, its jobs, the cache and the call that the main thread is inside
\* agree, in every state.
THEOREM Inductive == Spec => []IInv
<1>1. Init => IInv
  BY InitIInv
<1>2. IInv /\ [Next]_vars => IInv'
  BY NextKeepsIInv
<1> QED
  BY <1>1, <1>2, PTL DEF Spec

\* The canvas handles the finished() of the job it knows and of no other, the cache
\* outlives the jobs that will put images into it, and renderLayersFinished() is not
\* called twice (qgsmapcanvas.cpp, qgsmaprendererparalleljob.cpp).
THEOREM JobsAndCanvasAgreeHolds == Spec => []JobsAndCanvasAgree
<1>1. IInv => JobsAndCanvasAgree
  <2> SUFFICES ASSUME IInv PROVE JobsAndCanvasAgree
    OBVIOUS
  <2> USE DEF IInv
  <2>1. ASSUME NEW j \in Jobs, job[j].status # "none"
        PROVE  /\ JobAgrees(j) /\ WatchersHeard(job[j])
               /\ \/ job[j] \in ActiveJob /\ Active(j)
                  \/ job[j] \in IdleJob /\ ~Active(j)
    BY <2>1, JobKinds DEF JobsAgree, JobAgrees, Active
  <2>2. CanvasKnowsItsJob
    <3>1. \A j \in Jobs : job[j].status # "none" /\ job[j].emitted = 0 => Active(j)
      BY <2>1 DEF IdleJob
    <3> QED
      BY <2>1, <3>1 DEF CanvasKnowsItsJob, JobAgrees
  <2>3. CacheOutlivesJobs
    BY <2>1 DEF CacheOutlivesJobs, JobAgrees, Active
  <2>4. SlotInItsState
    BY <2>1 DEF SlotInItsState, WatchersHeard
  <2> QED
    BY <2>2, <2>3, <2>4 DEF JobsAndCanvasAgree
<1> QED
  BY <1>1, Inductive, PTL

\* An image in the cache shows every layer as it is, but for those that asked for a
\* repaint while it was drawn (qgsmaprenderercache.cpp).
THEOREM CacheCurrentHolds == Spec => []CacheCurrent
<1>1. IInv => CacheCurrent
  BY DEF IInv, CacheAgrees, CacheCurrent, Images, ShowsNow
<1> QED
  BY <1>1, Inductive, PTL

\* What the canvas shows was drawn to the end for one extent with all its labels, if
\* there is a layer with labels.  Without one it is false: a label image that nobody
\* drew is cached when labels are switched off, and composed by the next job, as its
\* layers, none, are those to be labelled (cleanupLabelJob(), prepareLabelingJob()).
THEOREM PictureSoundHolds == Labeled # {} => (Spec => []PictureSound)
<1> SUFFICES ASSUME Labeled # {} PROVE Spec => []PictureSound
  OBVIOUS
<1>1. IInv => PictureSound
  BY DEF IInv
<1> QED
  BY <1>1, Inductive, PTL

-----------------------------------------------------------------------------
(***************************************************************************)
(* Jobs do what QgsMapRendererJob promises                                 *)
(***************************************************************************)

\* The state that a client sees follows from the job's status.
LEMMA StateOfStatus ==
  ASSUME IInv, NEW j \in Jobs
  PROVE  /\ AsyncState(j) = "none" <=> job[j].status = "none"
         /\ AsyncState(j) = "active" <=> Active(j)
         /\ AsyncState(j) = "finished" <=> job[j].status = "Idle"
<1>1. /\ Active(j) => job[j].emitted = 0
      /\ job[j].status = "Idle" => job[j].emitted = 1
      /\ job[j].status \in {"none", "RenderingLayers", "RenderingLabels", "Idle"}
  BY JobKinds DEF IInv, ActiveJob, IdleJob
<1> QED
  BY <1>1 DEF AsyncState, Active

\* And so it does after a step.
LEMMA StateOfStatusThen ==
  ASSUME IInv', NEW j \in Jobs
  PROVE  /\ AsyncState(j)' = "none" <=> job'[j].status = "none"
         /\ AsyncState(j)' = "active" <=> Active(j)'
         /\ AsyncState(j)' = "finished" <=> job'[j].status = "Idle"
<1>1. job'[j] \in {NoObject} \cup ActiveJob \cup IdleJob
  BY DEF IInv, JobsTyped
<1>2. /\ Active(j)' => job'[j].emitted = 0
      /\ job'[j].status = "Idle" => job'[j].emitted = 1
      /\ job'[j].status \in {"none", "RenderingLayers", "RenderingLabels", "Idle"}
  BY <1>1 DEF ActiveJob, IdleJob, NoObject, Active
<1> QED
  BY <1>2 DEF AsyncState, Active

\* A step in which one job changes its status, as a job may.
LEMMA StatusMoves ==
  ASSUME IInv, IInv', NEW j \in Jobs,
         \A k \in Jobs \ {j} : job'[k].status = job[k].status,
         \/ job'[j].status = job[j].status
         \/ job[j].status = "none" /\ Active(j)'
         \/ Active(j) /\ (Active(j)' \/ job'[j].status = "Idle")
         \/ job[j].status = "Idle" /\ job'[j].status = "none"
  PROVE  [Abstract!Next]_(Abstract!vars)
<1> DEFINE before == [k \in Jobs |-> AsyncState(k)]
           after == [k \in Jobs |-> AsyncState(k)']
<1>1. \A k \in Jobs : /\ before[k] = "none" <=> job[k].status = "none"
                      /\ before[k] = "active" <=> Active(k)
                      /\ before[k] = "finished" <=> job[k].status = "Idle"
                      /\ before[k] \in {"none", "active", "finished"}
  <2>1. \A k \in Jobs : before[k] = AsyncState(k)
    OBVIOUS
  <2>2. \A k \in Jobs : job[k].status \in {"none", "RenderingLayers", "RenderingLabels", "Idle"}
    BY DEF IInv, TypeOK
  <2> HIDE DEF before
  <2> QED
    BY <2>1, <2>2, StateOfStatus DEF Active
<1>2. \A k \in Jobs : /\ after[k] = "none" <=> job'[k].status = "none"
                      /\ after[k] = "active" <=> Active(k)'
                      /\ after[k] = "finished" <=> job'[k].status = "Idle"
                      /\ after[k] \in {"none", "active", "finished"}
  <2>1. \A k \in Jobs : after[k] = AsyncState(k)'
    OBVIOUS
  <2>2. \A k \in Jobs : job'[k].status \in {"none", "RenderingLayers", "RenderingLabels", "Idle"}
    BY DEF IInv, TypeOK
  <2> HIDE DEF after
  <2> QED
    BY <2>1, <2>2, StateOfStatusThen DEF Active
<1>3. DOMAIN before = Jobs /\ DOMAIN after = Jobs
        /\ before = [k \in Jobs |-> before[k]] /\ after = [k \in Jobs |-> after[k]]
  OBVIOUS
<1>4. /\ Abstract!vars = <<before>> /\ (Abstract!vars)' = <<after>>
      /\ (\E k \in Jobs : \/ before[k] = "none" /\ after = [before EXCEPT ![k] = "active"]
                          \/ before[k] = "active" /\ after = [before EXCEPT ![k] = "finished"]
                          \/ before[k] = "finished" /\ after = [before EXCEPT ![k] = "none"])
         => Abstract!Next
  BY DEF Abstract!vars, Abstract!Next, Abstract!Start, Abstract!Finish, Abstract!Delete,
         Abstract!Move
<1> HIDE DEF before, after
<1>5. \A k \in Jobs \ {j} : after[k] = before[k]
  BY <1>1, <1>2 DEF Active
<1>6. \/ after[j] = before[j]
      \/ before[j] = "none" /\ after[j] = "active"
      \/ before[j] = "active" /\ after[j] = "finished"
      \/ before[j] = "finished" /\ after[j] = "none"
  BY <1>1, <1>2 DEF Active
<1>7. CASE after[j] = before[j]
  <2>1. after = before
    BY <1>3, <1>5, <1>7
  <2> QED
    BY <1>4, <2>1
<1>8. CASE after[j] # before[j]
  <2>1. after = [before EXCEPT ![j] = after[j]]
    BY <1>3, <1>5
  <2> QED
    BY <1>4, <1>6, <1>8, <2>1
<1> QED
  BY <1>7, <1>8

\* A job that renderLayersFinished() or its like is called for goes on or has ended.
LEMMA FinishedMoves ==
  ASSUME IInv, IInv', NEW j \in Jobs, Active(j), NEW rec \in ActiveJob,
         NEW connected,
         Finished(j, rec) \/ renderLayersFinished(j, rec, connected)
  PROVE  [Abstract!Next]_(Abstract!vars)
<1>1. job \in [Jobs -> {NoObject} \cup ActiveJob \cup IdleJob]
  BY DEF IInv, JobsTyped
<1>2. CASE Finished(j, rec)
  <2> DEFINE idle == [rec EXCEPT !.status = "Idle", !.emitted = @ + 1,
                                 !.layers = <<>>, !.labels = NoLabels, !.late = {}]
  <2>1. job' = [job EXCEPT ![j] = idle]
    BY <1>2 DEF Finished
  <2>2. idle.status = "Idle"
    BY DEF ActiveJob
  <2> HIDE DEF idle
  <2>3. job'[j].status = "Idle" /\ \A k \in Jobs \ {j} : job'[k] = job[k]
    BY <1>1, <2>1, <2>2
  <2> QED
    BY <2>3, StatusMoves
<1>3. CASE LabelsFollow(rec) /\ renderLayersFinished(j, rec, connected)
  <2> DEFINE next == [rec EXCEPT !.status = "RenderingLabels", !.labelsRun = TRUE,
                                 !.labelSlot = connected, !.labels.draw = "busy"]
  <2>1. job' = [job EXCEPT ![j] = next]
    BY <1>3 DEF renderLayersFinished
  <2>2. next.status = "RenderingLabels"
    BY DEF ActiveJob
  <2> HIDE DEF next
  <2>3. job'[j].status = "RenderingLabels" /\ \A k \in Jobs \ {j} : job'[k] = job[k]
    BY <1>1, <2>1, <2>2
  <2>4. Active(j)'
    BY <2>3 DEF Active
  <2> QED
    BY <2>3, <2>4, StatusMoves
<1> QED
  BY <1>2, <1>3 DEF renderLayersFinished

\* A step that changes no job's status is none that a client sees.
LEMMA SameStatus ==
  ASSUME IInv, IInv', \A k \in Jobs : job'[k].status = job[k].status
  PROVE  [Abstract!Next]_(Abstract!vars)
<1>1. CASE Jobs = {}
  BY <1>1 DEF Abstract!vars
<1>2. CASE Jobs # {}
  BY <1>2, StatusMoves
<1> QED
  BY <1>1, <1>2

LEMMA DrawsStutters ==
  ASSUME IInv, IInv', NEW j \in Jobs, Draws(j)
  PROVE  [Abstract!Next]_(Abstract!vars)
<1>1. job \in [Jobs -> {NoObject} \cup ActiveJob \cup IdleJob]
  BY DEF IInv, JobsTyped
<1>2. job[j] \in ActiveJob
  BY JobKinds DEF IInv, Draws, StartLayer, EndLayer, SkipLayers, StartLabels, EndLabels, Active
<1>3. \A k \in Jobs : job'[k].status = job[k].status
  <2>1. ASSUME NEW l \in Layers, StartLayer(j, l) \/ EndLayer(j, l)
        PROVE  \A k \in Jobs : job'[k].status = job[k].status
    BY <1>1, <1>2, <2>1 DEF StartLayer, EndLayer, ActiveJob
  <2>2. CASE SkipLayers(j) \/ StartLabels(j) \/ EndLabels(j)
    BY <1>1, <1>2, <2>2 DEF SkipLayers, StartLabels, EndLabels, ActiveJob
  <2> QED
    BY <2>1, <2>2 DEF Draws
<1> QED
  BY <1>3, SameStatus

LEMMA EventsMove ==
  ASSUME IInv, IInv', NEW j \in Jobs, Events(j)
  PROVE  [Abstract!Next]_(Abstract!vars)
<1>1. job \in [Jobs -> {NoObject} \cup ActiveJob \cup IdleJob]
  BY DEF IInv, JobsTyped
<1>2. CASE DeliverFinished(j)
  <2> DEFINE rec == [job[j] EXCEPT !.told = TRUE]
  <2>1. /\ job[j].status # "none" /\ ~job[j].told
        /\ \/ rec.slot = "renderLayersFinished" /\ renderLayersFinished(j, rec, TRUE)
           \/ rec.slot \in {"renderingFinished", "futureFinished"} /\ Finished(j, rec)
           \/ rec.slot = "none" /\ job' = [job EXCEPT ![j] = rec]
    BY <1>2 DEF DeliverFinished
  <2>2. WatchersHeard(job[j])
    BY <2>1 DEF IInv, JobsAgree, JobAgrees
  <2>3. CASE Active(j)
    <3>0. job[j] \in ActiveJob
      BY <2>3, ActiveAgrees
    <3>1. rec \in ActiveJob /\ rec.status = job[j].status
      BY <3>0, Zenon DEF ActiveJob
    <3> HIDE DEF rec
    <3>2. CASE job' = [job EXCEPT ![j] = rec]
      BY <1>1, <3>1, <3>2, SameStatus
    <3> QED
      BY <2>1, <2>3, <3>1, <3>2, FinishedMoves
  <2>4. CASE job[j].status = "Idle"
    <3>1. rec.slot = job[j].slot /\ rec.status = job[j].status
      BY <2>4, JobKinds DEF IInv, IdleJob
    <3> HIDE DEF rec
    <3>2. job' = [job EXCEPT ![j] = rec]
      BY <2>1, <2>2, <2>4, <3>1 DEF WatchersHeard
    <3> QED
      BY <1>1, <3>1, <3>2, SameStatus
  <2> QED
    BY <2>1, <2>3, <2>4, JobKinds DEF IInv, Active
<1>3. CASE DeliverLabelsFinished(j)
  <2> DEFINE rec == [job[j] EXCEPT !.labelsTold = TRUE]
  <2>1. /\ job[j].status # "none" /\ ~job[j].labelsTold
        /\ \/ rec.labelSlot /\ Finished(j, rec)
           \/ ~rec.labelSlot /\ job' = [job EXCEPT ![j] = rec]
    BY <1>3 DEF DeliverLabelsFinished
  <2>2. WatchersHeard(job[j])
    BY <2>1 DEF IInv, JobsAgree, JobAgrees
  <2>3. CASE Active(j)
    <3>0. job[j] \in ActiveJob
      BY <2>3, ActiveAgrees
    <3>1. rec \in ActiveJob /\ rec.status = job[j].status
      BY <3>0, Zenon DEF ActiveJob
    <3> HIDE DEF rec
    <3>2. CASE job' = [job EXCEPT ![j] = rec]
      BY <1>1, <3>1, <3>2, SameStatus
    <3> QED
      BY <2>1, <2>3, <3>1, <3>2, FinishedMoves
  <2>4. CASE job[j].status = "Idle"
    <3>1. rec.labelSlot = job[j].labelSlot /\ rec.status = job[j].status
      BY <2>4, JobKinds DEF IInv, IdleJob
    <3> HIDE DEF rec
    <3>2. job' = [job EXCEPT ![j] = rec]
      BY <2>1, <2>2, <2>4, <3>1 DEF WatchersHeard
    <3> QED
      BY <1>1, <3>1, <3>2, SameStatus
  <2> QED
    BY <2>1, <2>3, <2>4, JobKinds DEF IInv, Active
<1>4. CASE DeleteJob(j)
  BY <1>1, <1>4, StatusMoves DEF DeleteJob, NoObject
<1> QED
  BY <1>2, <1>3, <1>4 DEF Events

LEMMA MainThreadMoves ==
  ASSUME IInv, IInv', MainThread
  PROVE  [Abstract!Next]_(Abstract!vars)
<1>1. CASE WaitedForFinished \/ WaitedForLabels
  <2>1. PICK j \in Jobs : j = blocked.on /\ Active(j)
    BY <1>1 DEF WaitedForFinished, WaitedForLabels, WaitsFor, IInv, BlockedAgrees, Active
  <2>2. job[j] \in ActiveJob
    BY <2>1, ActiveAgrees
  <2>3. Finished(j, job[j]) \/ renderLayersFinished(j, job[j], FALSE)
    BY <1>1, <2>1 DEF WaitedForFinished, WaitedForLabels
  <2> QED
    BY <2>1, <2>2, <2>3, FinishedMoves
<1>2. CASE CachingReturns
  BY <1>2, SameStatus DEF CachingReturns
<1>3. CASE DestroyReturns
  <2>1. /\ job' = [j \in Jobs |-> IF j = blocked.on THEN NoObject ELSE job[j]]
        /\ blocked # None /\ blocked.on # NoJob => job[blocked.on].status = "Idle"
        /\ blocked.what \in {"destroy", "destroyed"}
    BY <1>3 DEF DestroyReturns
  <2>2. CASE blocked.on \in Jobs
    <3>1. PICK j \in Jobs : j = blocked.on
      BY <2>2
    <3>2. /\ job[j].status = "Idle" /\ job'[j].status = "none"
          /\ \A k \in Jobs \ {j} : job'[k] = job[k]
      BY <1>3, <2>1, <3>1 DEF NoObject, DestroyReturns
    <3> QED
      BY <3>2, StatusMoves
  <2>3. CASE blocked.on \notin Jobs
    BY <2>1, <2>3, SameStatus
  <2> QED
    BY <2>2, <2>3
<1>4. CASE RefreshMap
  <2>1. PICK j \in Jobs : /\ job[j].status = "none" /\ blocked = None
                          /\ job' = [StoppedJobs EXCEPT ![j] = NewJob(UsableImages)]
    BY <1>4 DEF RefreshMap
  <2>2. NewJob(UsableImages).status = "RenderingLayers"
    BY DEF NewJob
  <2>3. /\ job'[j].status = "RenderingLayers"
        /\ \A k \in Jobs \ {j} : job'[k].status = job[k].status
    BY <2>1, <2>2, StoppedJobsGiveUp
  <2>4. Active(j)'
    BY <2>3 DEF Active
  <2> QED
    BY <2>1, <2>3, <2>4, StatusMoves
<1> QED
  BY <1>1, <1>2, <1>3, <1>4 DEF MainThread

LEMMA RequestsStutter ==
  ASSUME IInv, IInv',
         \/ \E l \in Layers, deferred \in BOOLEAN : TriggerRepaint(l, deferred)
         \/ \E e \in Extents : SetExtent(e)
         \/ SetMapSettingsFlags \/ AutoRefresh \/ StopRendering
         \/ SetCachingEnabled \/ DestroyCanvas
         \/ UNCHANGED vars
  PROVE  [Abstract!Next]_(Abstract!vars)
<1>1. job \in [Jobs -> {NoObject} \cup ActiveJob \cup IdleJob]
  BY DEF IInv, JobsTyped
<1>2. \/ job' = job
      \/ blocked = None /\ job' = StoppedJobs
      \/ \E l \in Layers : blocked = None /\ mJob # NoJob /\ job' = [job EXCEPT ![mJob].late = @ \cup {l}]
      \/ blocked = None /\ mJob # NoJob /\ job' = [job EXCEPT ![mJob] = Disconnected(@)]
      \/ blocked = None /\ mJob # NoJob
           /\ job' = [job EXCEPT ![mJob] =
                        Disconnected([@ EXCEPT !.stopped = TRUE, !.receiver = "nobody"])]
  BY DEF TriggerRepaint, SetExtent, SetMapSettingsFlags, AutoRefresh, StopRendering,
         SetCachingEnabled, DestroyCanvas, Asked, vars
<1>3. CASE blocked = None /\ job' = StoppedJobs
  BY <1>3, StoppedJobsGiveUp, SameStatus
<1>4. ASSUME blocked = None, mJob # NoJob, job' # job, job' # StoppedJobs
      PROVE  \A k \in Jobs : job'[k].status = job[k].status
  <2>1. mJob \in Jobs /\ job[mJob] \in ActiveJob
    BY <1>4, CanvasJobActive
  <2> QED
    <3>1. ASSUME NEW l \in Layers, job' = [job EXCEPT ![mJob].late = @ \cup {l}]
          PROVE  \A k \in Jobs : job'[k].status = job[k].status
      BY <1>1, <2>1, <3>1 DEF ActiveJob
    <3>2. CASE job' = [job EXCEPT ![mJob] = Disconnected(@)]
      <4>1. Disconnected(job[mJob]).status = job[mJob].status
        BY <2>1 DEF Disconnected, ActiveJob
      <4> QED
        BY <1>1, <2>1, <3>2, <4>1
    <3>3. CASE job' = [job EXCEPT ![mJob] =
                         Disconnected([@ EXCEPT !.stopped = TRUE, !.receiver = "nobody"])]
      <4>1. Disconnected([job[mJob] EXCEPT !.stopped = TRUE, !.receiver = "nobody"]).status
              = job[mJob].status
        BY <2>1 DEF Disconnected, ActiveJob
      <4> QED
        BY <1>1, <2>1, <3>3, <4>1
    <3> QED
      BY <1>2, <1>4, <3>1, <3>2, <3>3
<1>5. CASE job' = job
  BY <1>5, SameStatus
<1> QED
  BY <1>2, <1>3, <1>4, <1>5, SameStatus

\* Whatever is cancelled, waited for or destroyed meanwhile, no job emits finished()
\* more than once, and none is deleted before it has: the safety of JobsEndOnce, for
\* any number of jobs (qgsmaprendererjob.h).
THEOREM JobsEndAtMostOnce == Spec => Abstract!Safety
<1>1. Init => Abstract!Init
  BY DEF Init, Abstract!Init, AsyncState, NoObject
<1>2. IInv /\ IInv' /\ [Next]_vars => [Abstract!Next]_(Abstract!vars)
  BY DrawsStutters, EventsMove, MainThreadMoves, RequestsStutter DEF Next
<1> QED
  BY <1>1, <1>2, Inductive, PTL DEF Spec, Abstract!Safety

=============================================================================
