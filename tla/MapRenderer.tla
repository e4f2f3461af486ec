---------------------------- MODULE MapRenderer -----------------------------
(***************************************************************************)
(* The rendering of a map canvas: QgsMapCanvas's refresh cycle             *)
(* (src/gui/qgsmapcanvas.cpp), the jobs it starts                          *)
(* (QgsMapRendererParallelJob, and QgsMapRendererSequentialJob with the    *)
(* QgsMapRendererCustomPainterJob inside it) and the images the jobs share *)
(* (QgsMapRendererCache).                                                  *)
(*                                                                         *)
(* The main thread runs the canvas, the slots of the jobs and the cache;   *)
(* the threads of the pool draw layers and labels.  A job that is being    *)
(* cancelled goes on beside the one that replaces it.  The layers' renderer *)
(* copies the layer's appearance when the job is prepared.                 *)
(*                                                                         *)
(* Abstractions: an image is what it shows, how far it was drawn and the   *)
(* extent it was drawn for; blending, opacity, scale ranges, preview jobs, *)
(* the update timer of partial images, and the advanced label effects that *)
(* forbid a label image are left out.  cancelWithoutBlocking() is called   *)
(* once per job, so a watcher never has two connections.                   *)
(***************************************************************************)
EXTENDS Integers, FiniteSets

CONSTANTS
  Layers,        \* layers of the canvas
  Labeled,       \* those that QgsPalLabeling::staticWillUseLayer()
  Editable,      \* those in edit mode
  Labels,        \* LABEL_CACHE_ID
  Extents,       \* extents of the canvas
  NoExtent,      \* mExtent.setMinimal()
  Jobs,          \* job objects
  NoJob,         \* nullptr
  ParallelRendering, \* the values of mUseParallelRendering
  UserCalls,     \* requests that are made
  MaxRequests    \* bound: number of requests

ASSUME LayersAssumption ==
  /\ Labeled \subseteq Layers
  /\ Editable \subseteq Layers
  /\ Labels \notin Layers
ASSUME NoneAssumption == NoJob \notin Jobs /\ NoExtent \notin Extents
ASSUME ExtentsAssumption == Extents # {}
ASSUME BoundsAssumption ==
  /\ ParallelRendering \subseteq BOOLEAN
  /\ MaxRequests \in Nat

VARIABLES
  appearance,     \* [Layers -> number of changes of the layer's appearance]
  mExtent,        \* extent the cached images are for
  mCachedImages,  \* [cache keys in use -> images]
  mConnectedLayers, \* layers whose repaintRequested() the cache listens to
  mCache,         \* the canvas has a cache
  mJob,           \* the canvas's job, or NoJob
  mRefreshScheduled,
  mJobCanceled,
  mUseParallelRendering, \* the canvas creates parallel jobs
  extent,         \* mSettings.visibleExtent()
  drawLabeling,   \* mSettings.testFlag( DrawLabeling )
  job,            \* [Jobs -> state of the job object]
  blocked,        \* the call of a job the main thread is inside, or none
  alive,          \* the canvas exists
  requests,       \* number of requests made
  content         \* what the canvas shows, or none

cacheVars == <<mExtent, mCachedImages, mConnectedLayers>>
settingsVars == <<extent, drawLabeling, mUseParallelRendering>>
canvasVars == <<mJob, mRefreshScheduled, mJobCanceled, settingsVars>>
userVars == <<appearance, alive, requests>>
vars == <<cacheVars, mCache, canvasVars, job, blocked, userVars, content>>

None == [what |-> "none"]

\* The label job once cleaned up: nothing to cache, nothing to compose.
NoLabels == [cached |-> TRUE, complete |-> FALSE, draw |-> "ended"]

\* A job object that does not exist.
NoObject == [status |-> "none", emitted |-> 0]

Active(j) == job[j].status \in {"RenderingLayers", "RenderingLabels"}

Init ==
  /\ appearance = [l \in Layers |-> 0]
  /\ mExtent = NoExtent
  /\ mCachedImages = <<>>
  /\ mConnectedLayers = {}
  /\ mCache = TRUE
  /\ mJob = NoJob
  /\ mRefreshScheduled = FALSE
  /\ mJobCanceled = FALSE
  /\ extent = CHOOSE e \in Extents : TRUE
  /\ drawLabeling = TRUE
  /\ mUseParallelRendering \in ParallelRendering
  /\ job = [j \in Jobs |-> NoObject]
  /\ blocked = None
  /\ alive = TRUE
  /\ requests = 0
  /\ content = None

-----------------------------------------------------------------------------
(***************************************************************************)
(* QgsMapRendererCache                                                     *)
(***************************************************************************)

Without(images, keys) ==
  [k \in DOMAIN images \ keys |-> images[k]]

\* setCacheImage(), of each image in stored.
With(images, stored) ==
  [k \in DOMAIN images \cup DOMAIN stored |->
     IF k \in DOMAIN stored THEN stored[k] ELSE images[k]]

\* The layers an image shows are those it depends on.
DependentLayers(images) == UNION {DOMAIN images[k].shows : k \in DOMAIN images}

\* Mutant: the cache disconnects from every layer.
RepaintDisconnectsAll(l) ==
  /\ mConnectedLayers' = IF l \in mConnectedLayers THEN {} ELSE mConnectedLayers
  /\ mCachedImages' =
       IF l \in mConnectedLayers
         THEN Without(mCachedImages, {k \in DOMAIN mCachedImages :
                                        l \in DOMAIN mCachedImages[k].shows})
         ELSE mCachedImages

\* layerRequestedRepaint() with l the sender: only connected layers call it.
layerRequestedRepaint(l) ==
  LET rest == Without(mCachedImages,
                      {k \in DOMAIN mCachedImages :
                         l \in DOMAIN mCachedImages[k].shows})
  IN  IF mCache /\ l \in mConnectedLayers
        THEN /\ mCachedImages' = rest
             /\ mConnectedLayers' = DependentLayers(rest)
        ELSE UNCHANGED <<mCachedImages, mConnectedLayers>>

\* clearInternal()
clearInternal ==
  /\ mExtent' = NoExtent
  /\ mCachedImages' = <<>>
  /\ mConnectedLayers' = {}

-----------------------------------------------------------------------------
(***************************************************************************)
(* Starting a job                                                          *)
(***************************************************************************)

\* prepareLabelCache(), init() and the clearing of layer images at the start
\* of prepareJobs(): the cached images the job may use.
labelImageUsable(images) ==
  Labels \in DOMAIN images /\ DOMAIN images[Labels].shows = Labeled

UsableImages ==
  LET checked == IF labelImageUsable(mCachedImages) THEN mCachedImages
                 ELSE Without(mCachedImages, {Labels})
      kept == IF mExtent = extent THEN checked ELSE <<>>
      requiresLabelRedraw == Labels \notin DOMAIN kept
      forced == Editable \cup IF drawLabeling /\ requiresLabelRedraw
                                THEN Labeled ELSE {}
  IN  IF mCache THEN Without(kept, forced) ELSE <<>>

\* The layer's part of the job: a cached image, or one to draw.
prepareJob(l, images) ==
  IF l \in DOMAIN images
    THEN [cached |-> TRUE, draw |-> "ended", image |-> images[l]]
    ELSE [cached |-> FALSE, draw |-> "todo",
          image |-> [shows |-> [k \in {l} |-> appearance[k]], drawn |-> "no",
                     extent |-> extent, late |-> {}]]

prepareLabelingJob(images) ==
  IF Labels \in DOMAIN images
    THEN [cached |-> TRUE, complete |-> TRUE, draw |-> "todo",
          image |-> images[Labels]]
    ELSE [cached |-> FALSE, complete |-> FALSE, draw |-> "todo",
          image |-> [shows |-> <<>>, drawn |-> "no", extent |-> extent,
                     late |-> {}]]

\* start(): the state of a job that has been started.
NewJob(images) ==
  [status |-> "RenderingLayers",
   kind |-> IF mUseParallelRendering THEN "parallel" ELSE "sequential",
   stopped |-> FALSE,           \* context.renderingStopped(), of all contexts
   cache |-> mCache,            \* the job has the canvas's cache
   extent |-> extent,
   labeling |-> drawLabeling,
   layers |-> [l \in Layers |-> prepareJob(l, images)],
   labels |-> prepareLabelingJob(images),
   slot |-> IF mUseParallelRendering THEN "renderLayersFinished"
            ELSE "futureFinished", \* what mFutureWatcher is connected to
   labelSlot |-> FALSE,         \* mLabelingFutureWatcher is connected
   told |-> FALSE,              \* mFutureWatcher has emitted finished()
   labelsRun |-> FALSE,         \* mLabelingFuture was started
   labelsTold |-> FALSE,        \* mLabelingFutureWatcher has emitted finished()
   receiver |-> "canvas",       \* what the job's finished() is connected to
   emitted |-> 0,               \* number of times it was emitted
   \* History: layers that have asked for a repaint since the job started.
   late |-> {}]

-----------------------------------------------------------------------------
(***************************************************************************)
(* The threads of the pool                                                 *)
(***************************************************************************)

\* What is visible of a picture that was interrupted.
Drawn(rec) == IF rec.stopped THEN "part" ELSE "whole"

LayersEnded(rec) == \A l \in DOMAIN rec.layers : rec.layers[l].draw = "ended"

\* mFuture has finished.
FutureEnded(rec) ==
  \/ rec.kind = "parallel" /\ LayersEnded(rec)
  \/ rec.kind = "sequential" /\ rec.labels.draw = "ended"

\* mLabelingFuture has finished.
LabelFutureEnded(rec) == rec.labelsRun /\ rec.labels.draw = "ended"

\* renderLayerStatic(), or a turn of the loop of doRender().
StartLayer(j, l) ==
  /\ job[j].status = "RenderingLayers"
  /\ ~job[j].stopped
  /\ job[j].layers[l].draw = "todo"
  /\ job[j].kind = "sequential" =>
       /\ \A k \in Layers : job[j].layers[k].draw # "busy"
       /\ l = CHOOSE k \in Layers : job[j].layers[k].draw = "todo"
  /\ job' = [job EXCEPT ![j].layers[l].draw = "busy"]
  /\ UNCHANGED <<cacheVars, mCache, canvasVars, blocked, userVars, content>>

\* Once rendering is stopped, the layers that are left are not drawn.
SkipLayers(j) ==
  /\ job[j].status = "RenderingLayers"
  /\ job[j].stopped
  /\ \E l \in Layers : job[j].layers[l].draw = "todo"
  /\ job' = [job EXCEPT ![j].layers =
       [l \in Layers |-> IF @[l].draw = "todo"
                           THEN [@[l] EXCEPT !.draw = "ended"] ELSE @[l]]]
  /\ UNCHANGED <<cacheVars, mCache, canvasVars, blocked, userVars, content>>

EndLayer(j, l) ==
  /\ job[j].status = "RenderingLayers"
  /\ job[j].layers[l].draw = "busy"
  /\ job' = [job EXCEPT ![j].layers[l].draw = "ended",
                        ![j].layers[l].image.drawn = Drawn(job[j])]
  /\ UNCHANGED <<cacheVars, mCache, canvasVars, blocked, userVars, content>>

\* The end of doRender(): labels are drawn by the same thread.
StartLabels(j) ==
  /\ job[j].status = "RenderingLayers"
  /\ job[j].kind = "sequential"
  /\ LayersEnded(job[j])
  /\ job[j].labels.draw = "todo"
  /\ job' = [job EXCEPT ![j].labels.draw =
                IF job[j].labeling /\ ~job[j].stopped THEN "busy" ELSE "ended"]
  /\ UNCHANGED <<cacheVars, mCache, canvasVars, blocked, userVars, content>>

\* The labels of the layers that were drawn, not of those that were cached.
participating(rec) == {l \in Labeled : ~rec.layers[l].cached}

labelShows(rec) ==
  [l \in participating(rec) |-> rec.layers[l].image.shows[l]]

EndLabels(j) ==
  /\ Active(j)
  /\ job[j].labels.draw = "busy"
  /\ job' = [job EXCEPT ![j].labels =
       IF @.cached THEN [@ EXCEPT !.draw = "ended"]
       ELSE [@ EXCEPT !.draw = "ended", !.complete = TRUE,
                      !.image.drawn = Drawn(job[j]),
                      !.image.shows = labelShows(job[j])]]
  /\ UNCHANGED <<cacheVars, mCache, canvasVars, blocked, userVars, content>>

-----------------------------------------------------------------------------
(***************************************************************************)
(* The end of a job, in the main thread                                    *)
(***************************************************************************)

Late(image, rec) == [image EXCEPT !.late = rec.late \cap DOMAIN image.shows]

\* Mutant: the images of a job that was stopped are kept too.
CachedEvenIfStopped(rec) ==
  LET drawn == {l \in DOMAIN rec.layers : ~rec.layers[l].cached}
  IN  [k \in IF rec.cache THEN drawn ELSE {} |->
        Late(rec.layers[k].image, rec)]

\* cleanupJobs() and cleanupLabelJob(): the images put into the cache.
ImagesToCache(rec) ==
  LET drawn == {l \in DOMAIN rec.layers : ~rec.layers[l].cached}
      labels == IF rec.labels.cached THEN {} ELSE {Labels}
  IN  [k \in IF rec.cache /\ ~rec.stopped THEN drawn \cup labels ELSE {} |->
        Late(IF k = Labels THEN rec.labels.image ELSE rec.layers[k].image,
             rec)]

\* composeImage(): the layers' images and, if complete, the labels' image.
Picture(rec) ==
  LET labels == IF rec.labels.complete THEN {rec.labels.image} ELSE {}
      images == {rec.layers[l].image : l \in Layers} \cup labels
  IN  [what |-> "picture",
       sound |->
         /\ \A i \in images : i.drawn = "whole" /\ i.extent = rec.extent
         /\ rec.labeling => DOMAIN rec.labels.image.shows = Labeled]

\* renderingFinished() or futureFinished(), with rendererJobFinished() when
\* the canvas listens; cleanup leaves the job without images.
Finished(j, rec) ==
  LET stored == ImagesToCache(rec)
  IN  /\ mCachedImages' = With(mCachedImages, stored)
      /\ mConnectedLayers' = mConnectedLayers \cup DependentLayers(stored)
      /\ job' = [job EXCEPT ![j] =
                   [rec EXCEPT !.status = "Idle", !.emitted = @ + 1,
                               !.layers = <<>>, !.labels = NoLabels,
                               !.late = {}]]
      /\ IF rec.receiver = "canvas"
           THEN /\ content' = IF ~mJobCanceled /\ mJob = j
                                THEN Picture(rec) ELSE content
                /\ mJob' = NoJob
           ELSE UNCHANGED <<content, mJob>>

\* Labels are drawn after the layers of a parallel job.
LabelsFollow(rec) ==
  rec.kind = "parallel" /\ rec.labeling /\ ~rec.stopped

\* renderLayersFinished(): start the labels, with the watcher connected or
\* not, or finish.
renderLayersFinished(j, rec, connected) ==
  IF LabelsFollow(rec)
    THEN /\ job' = [job EXCEPT ![j] =
                      [rec EXCEPT !.status = "RenderingLabels",
                                  !.labelsRun = TRUE,
                                  !.labelSlot = connected,
                                  !.labels.draw = "busy"]]
         /\ UNCHANGED <<mCachedImages, mConnectedLayers, content, mJob>>
    ELSE Finished(j, rec)

\* mFutureWatcher's finished(), from the event loop.
DeliverFinished(j) ==
  LET rec == [job[j] EXCEPT !.told = TRUE]
  IN  /\ blocked = None
      /\ job[j].status # "none"
      /\ FutureEnded(job[j])
      /\ ~job[j].told
      /\ \/ /\ rec.slot = "renderLayersFinished"
            /\ renderLayersFinished(j, rec, TRUE)
         \/ /\ rec.slot \in {"renderingFinished", "futureFinished"}
            /\ Finished(j, rec)
         \/ /\ rec.slot = "none"
            /\ job' = [job EXCEPT ![j] = rec]
            /\ UNCHANGED <<mCachedImages, mConnectedLayers, content, mJob>>
      /\ UNCHANGED <<mExtent, mCache, mRefreshScheduled, mJobCanceled,
                 settingsVars, blocked, userVars>>

\* mLabelingFutureWatcher's finished(), from the event loop.
DeliverLabelsFinished(j) ==
  LET rec == [job[j] EXCEPT !.labelsTold = TRUE]
  IN  /\ blocked = None
      /\ job[j].status # "none"
      /\ LabelFutureEnded(job[j])
      /\ ~job[j].labelsTold
      /\ \/ /\ rec.labelSlot
            /\ Finished(j, rec)
         \/ /\ ~rec.labelSlot
            /\ job' = [job EXCEPT ![j] = rec]
            /\ UNCHANGED <<mCachedImages, mConnectedLayers, content, mJob>>
      /\ UNCHANGED <<mExtent, mCache, mRefreshScheduled, mJobCanceled,
                 settingsVars, blocked, userVars>>

\* The deleteLater() that finished() has caused, either way.
DeleteJob(j) ==
  /\ blocked = None
  /\ job[j].status = "Idle"
  /\ job' = [job EXCEPT ![j] = NoObject]
  /\ UNCHANGED <<cacheVars, mCache, canvasVars, blocked, userVars, content>>

-----------------------------------------------------------------------------
(***************************************************************************)
(* The canvas                                                              *)
(***************************************************************************)

\* cancelWithoutBlocking(), of either kind of job.
cancelWithoutBlocking(rec) ==
  [rec EXCEPT !.stopped = TRUE,
              !.slot = IF rec.kind = "parallel"
                            /\ rec.status = "RenderingLayers"
                         THEN "renderingFinished" ELSE @]

\* stopRendering(): the jobs once the canvas's job is given up.
StoppedJobs ==
  IF mJob = NoJob THEN job
  ELSE [job EXCEPT ![mJob] =
          cancelWithoutBlocking([@ EXCEPT !.receiver = "itself", !.late = {}])]

\* refreshMap(), the slot of the refresh timer: give up the job that runs,
\* start another one.
RefreshMap ==
  /\ alive
  /\ blocked = None
  /\ mRefreshScheduled
  /\ \E j \in Jobs :
       /\ job[j].status = "none"
       /\ j = CHOOSE k \in Jobs : job[k].status = "none"
       /\ job' = [StoppedJobs EXCEPT ![j] = NewJob(UsableImages)]
       /\ mJob' = j
  /\ IF mCache
       THEN /\ mExtent' = extent
            /\ mCachedImages' = UsableImages
            /\ mConnectedLayers' = DependentLayers(UsableImages)
       ELSE UNCHANGED cacheVars
  /\ mJobCanceled' = FALSE
  /\ mRefreshScheduled' = FALSE
  /\ UNCHANGED <<mCache, settingsVars, blocked, userVars, content>>

\* One more request of the user, of kind call.
Asked(call) ==
  /\ alive
  /\ blocked = None
  /\ call \in UserCalls
  /\ requests < MaxRequests
  /\ requests' = requests + 1

\* The appearance of l changes and triggerRepaint( deferred ) is called: the
\* cache and, unless deferred, the canvas listen.
TriggerRepaint(l, deferred) ==
  /\ Asked(IF deferred THEN "deferred" ELSE "repaint")
  /\ appearance' = [appearance EXCEPT ![l] = @ + 1]
  /\ layerRequestedRepaint(l)
  /\ mRefreshScheduled' = (mRefreshScheduled \/ ~deferred)
  /\ job' = IF mJob = NoJob THEN job
             ELSE [job EXCEPT ![mJob].late = @ \cup {l}]
  /\ UNCHANGED <<mExtent, mCache, mJob, mJobCanceled, settingsVars,
                 blocked, alive, content>>

\* setExtent() schedules nothing: its callers call refresh(), now or later.
SetExtent(e) ==
  /\ Asked("extent")
  /\ e # extent
  /\ extent' = e
  /\ mRefreshScheduled' \in {mRefreshScheduled, TRUE}
  /\ UNCHANGED <<cacheVars, mCache, mJob, mJobCanceled, drawLabeling,
                 mUseParallelRendering, job, blocked, appearance, alive, content>>

\* setMapSettingsFlags(), of the flag that labels are drawn.
SetMapSettingsFlags ==
  /\ Asked("flags")
  /\ drawLabeling' = ~drawLabeling
  /\ IF mCache THEN clearInternal ELSE UNCHANGED cacheVars
  /\ mRefreshScheduled' = TRUE
  /\ UNCHANGED <<mCache, mJob, mJobCanceled, extent, mUseParallelRendering, job,
                 blocked, appearance, alive, content>>

\* Mutant: the automatic refresh is not skipped.
AutoRefreshAlways ==
  /\ alive
  /\ blocked = None
  /\ mRefreshScheduled' = TRUE
  /\ UNCHANGED <<cacheVars, mCache, mJob, mJobCanceled, settingsVars,
                 job, blocked, userVars, content>>

\* autoRefreshTriggered(): skipped while a job runs.
AutoRefresh ==
  /\ alive
  /\ blocked = None
  /\ mJob = NoJob
  /\ mRefreshScheduled' = TRUE
  /\ UNCHANGED <<cacheVars, mCache, mJob, mJobCanceled, settingsVars,
                 job, blocked, userVars, content>>

\* stopRendering(), asked for by the user.
StopRendering ==
  /\ Asked("stop")
  /\ mJob # NoJob
  /\ job' = StoppedJobs
  /\ mJob' = NoJob
  /\ mJobCanceled' = TRUE
  /\ UNCHANGED <<cacheVars, mCache, mRefreshScheduled, settingsVars,
                 blocked, appearance, alive, content>>

\* Mutant: the watcher of the labels remains connected.
LabelsStillConnected(rec) ==
  [rec EXCEPT !.slot = IF rec.status = "RenderingLayers" THEN "none" ELSE @]

\* What waitForFinished() and cancel() begin with: from now on the watchers
\* call no slot, the call itself will.
Disconnected(rec) ==
  [rec EXCEPT !.slot = IF rec.status = "RenderingLayers" THEN "none" ELSE @,
              !.labelSlot = FALSE]

\* The cache is created or deleted.
SwapCache ==
  /\ mCache' = ~mCache
  /\ clearInternal

\* Mutant: the cache is replaced while a job may use it.
SetCachingAtOnce ==
  /\ Asked("caching")
  /\ SwapCache
  /\ UNCHANGED <<canvasVars, job, blocked, appearance, alive, content>>

\* setCachingEnabled( !isCachingEnabled() ): waits for the job that runs.
SetCachingEnabled ==
  /\ Asked("caching")
  /\ IF mJob = NoJob
       THEN SwapCache /\ UNCHANGED <<job, blocked>>
       ELSE /\ job' = [job EXCEPT ![mJob] = Disconnected(@)]
            /\ blocked' = [what |-> "caching", on |-> mJob]
            /\ UNCHANGED <<cacheVars, mCache>>
  /\ UNCHANGED <<canvasVars, appearance, alive, content>>

\* ~QgsMapCanvas(): cancels the job with its signals blocked.
DestroyCanvas ==
  /\ Asked("destroy")
  /\ alive' = FALSE
  /\ IF mJob = NoJob
       THEN blocked' = [what |-> "destroyed", on |-> NoJob] /\ UNCHANGED job
       ELSE /\ job' = [job EXCEPT ![mJob] =
                         Disconnected([@ EXCEPT !.stopped = TRUE,
                                                !.receiver = "nobody"])]
            /\ blocked' = [what |-> "destroy", on |-> mJob]
  /\ UNCHANGED <<cacheVars, mCache, canvasVars, appearance, content>>

\* The main thread is inside waitForFinished() or cancel() of a job that is
\* drawing.
WaitsFor(status) ==
  /\ blocked # None
  /\ blocked.on # NoJob
  /\ job[blocked.on].status = status

\* mFutureWatcher.waitForFinished() returns.
WaitedForFinished ==
  /\ WaitsFor("RenderingLayers")
  /\ FutureEnded(job[blocked.on])
  /\ renderLayersFinished(blocked.on, job[blocked.on], FALSE)
  /\ UNCHANGED <<mExtent, mCache, mRefreshScheduled, mJobCanceled,
                 settingsVars, blocked, userVars>>

\* mLabelingFutureWatcher.waitForFinished() returns.
WaitedForLabels ==
  /\ WaitsFor("RenderingLabels")
  /\ LabelFutureEnded(job[blocked.on])
  /\ Finished(blocked.on, job[blocked.on])
  /\ UNCHANGED <<mExtent, mCache, mRefreshScheduled, mJobCanceled,
                 settingsVars, blocked, userVars>>

\* The rest of setCachingEnabled().
CachingReturns ==
  /\ blocked # None
  /\ blocked.what = "caching"
  /\ job[blocked.on].status = "Idle"
  /\ SwapCache
  /\ blocked' = None
  /\ UNCHANGED <<canvasVars, job, userVars, content>>

\* The rest of ~QgsMapCanvas(): the job and the cache are deleted, the timers
\* with the canvas.
DestroyReturns ==
  /\ blocked # None
  /\ blocked.what \in {"destroy", "destroyed"}
  /\ blocked.on # NoJob => job[blocked.on].status = "Idle"
  /\ job' = [j \in Jobs |-> IF j = blocked.on THEN NoObject ELSE job[j]]
  /\ clearInternal
  /\ mCache' = FALSE
  /\ mJob' = NoJob
  /\ mRefreshScheduled' = FALSE
  /\ content' = None
  /\ blocked' = None
  /\ UNCHANGED <<mJobCanceled, settingsVars, userVars>>

\* Without a canvas, the last job's end is the end.
Gone == ~alive /\ \A j \in Jobs : job[j].status = "none"

-----------------------------------------------------------------------------
Draws(j) ==
  \/ \E l \in Layers : StartLayer(j, l) \/ EndLayer(j, l)
  \/ SkipLayers(j)
  \/ StartLabels(j)
  \/ EndLabels(j)

\* What the event loop has to deliver to job j.
Events(j) == DeliverFinished(j) \/ DeliverLabelsFinished(j) \/ DeleteJob(j)

\* A call that blocks the main thread goes on, or the refresh timer runs out.
MainThread ==
  \/ WaitedForFinished \/ WaitedForLabels
  \/ CachingReturns \/ DestroyReturns
  \/ RefreshMap

Next ==
  \/ \E j \in Jobs : Draws(j) \/ Events(j)
  \/ MainThread
  \/ \E l \in Layers, deferred \in BOOLEAN : TriggerRepaint(l, deferred)
  \/ \E e \in Extents : SetExtent(e)
  \/ SetMapSettingsFlags
  \/ AutoRefresh
  \/ StopRendering
  \/ SetCachingEnabled
  \/ DestroyCanvas
  \/ Gone /\ UNCHANGED vars

Spec == Init /\ [][Next]_vars

(***************************************************************************)
(* The threads of the pool go on, and the event loop delivers what was     *)
(* posted and the refresh timer's timeout.  Nothing is assumed of the      *)
(* user, nor of the automatic refresh.                                     *)
(***************************************************************************)
Fairness ==
  /\ \A j \in Jobs : WF_vars(Draws(j)) /\ WF_vars(Events(j))
  /\ WF_vars(MainThread)

FairSpec == Spec /\ Fairness

-----------------------------------------------------------------------------
(***************************************************************************)
(* Properties                                                              *)
(***************************************************************************)

Images == {mCachedImages[k] : k \in DOMAIN mCachedImages}

\* The fields keep their types.
TypeOK ==
  /\ appearance \in [Layers -> 0 .. MaxRequests]
  /\ mExtent \in Extents \cup {NoExtent}
  /\ DOMAIN mCachedImages \subseteq IF mCache THEN Layers \cup {Labels} ELSE {}
  /\ mConnectedLayers \subseteq Layers
  /\ mJob \in Jobs \cup {NoJob}
  /\ \A b \in {mCache, mRefreshScheduled, mJobCanceled, drawLabeling, alive} :
       b \in BOOLEAN
  /\ extent \in Extents
  /\ \A j \in Jobs :
       job[j].status \in {"none", "RenderingLayers", "RenderingLabels", "Idle"}

\* A cached image shows every layer it depends on as the layer is now, unless
\* the layer asked for a repaint while the job that drew the image was
\* running: requests that come before a job or after it reach the cache.
CacheCurrent ==
  \A i \in Images : \A l \in DOMAIN i.shows \ i.late :
    i.shows[l] = appearance[l]

\* What the canvas shows was drawn to the end, all of it for the same extent,
\* and has the labels of every labelled layer if labels are drawn: no picture
\* of a job that was stopped, and no image it left in the cache, gets there, no
\* image the cache held for another extent, and a layer is taken from the cache
\* only if its labels need not be placed again.
PictureSound == content # None => content.sound

\* The signal finished() that the canvas handles comes from the job it knows,
\* so rendererJobFinished() never works on another job or on none.
CanvasKnowsItsJob ==
  \A j \in Jobs : job[j].status # "none" =>
    /\ job[j].receiver = "canvas" /\ job[j].emitted = 0 => mJob = j
    /\ mJob = j => job[j].receiver \in {"canvas", "nobody"}

\* The cache that a job will put its images into exists: it is neither deleted
\* nor replaced while a job that was not stopped has a pointer to it.
CacheOutlivesJobs ==
  \A j \in Jobs : Active(j) /\ ~job[j].stopped => job[j].cache = mCache

\* Q_ASSERT( mStatus == RenderingLayers ) of renderLayersFinished(): the slot
\* is not called again by a watcher once a job has got past the layers.
SlotInItsState ==
  \A j \in Jobs :
    /\ job[j].status \in {"RenderingLabels", "Idle"}
    /\ job[j].slot = "renderLayersFinished"
    => job[j].told

\* The canvas, its jobs and its cache agree while a job that was cancelled goes on
\* beside the one that replaced it: the three properties above, and the types.
JobsAndCanvasAgree ==
  /\ TypeOK
  /\ CanvasKnowsItsJob
  /\ CacheOutlivesJobs
  /\ SlotInItsState

\* A refresh that was scheduled is made and its rendering ends, however often
\* the automatic refresh is triggered: "otherwise we could get stuck in the
\* situation where an auto refresh is triggered too often to allow the canvas
\* to ever finish rendering".
AtRest == mJob = NoJob /\ ~mRefreshScheduled

CanvasComesToRest == mRefreshScheduled \/ mJob # NoJob ~> AtRest

\* Whatever is cancelled, waited for or destroyed meanwhile, each job emits
\* finished() exactly once and is deleted only after that.
AsyncState(j) ==
  IF job[j].status = "none" THEN "none"
  ELSE IF job[j].emitted = 0 THEN "active"
  ELSE IF job[j].emitted = 1 THEN "finished" ELSE "again"

Abstract == INSTANCE AsyncJobs WITH state <- [j \in Jobs |-> AsyncState(j)]

JobsEndOnce == Abstract!Spec
=============================================================================
