CONSTANTS
  Layers = {a, b}
  Labels = Labels
  NoExtent = NoExtent
  NoJob = NoJob
  Jobs = {j1, j2}
  Labeled = {a, b}
  Editable = {b}
  Extents = {e1, e2}
  ParallelRendering = {TRUE, FALSE}
  UserCalls = {"repaint", "deferred", "extent", "flags", "stop", "caching", "destroy"}
  MaxRequests = 2
SPECIFICATION FairSpec
INVARIANTS
  JobsAndCanvasAgree
  CacheCurrent
  PictureSound
PROPERTIES
  CanvasComesToRest
  JobsEndOnce
