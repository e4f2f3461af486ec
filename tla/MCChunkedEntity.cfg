CONSTANTS
  r = r
  a = a
  b = b
  c = c
  d = d
  e = e
  Nodes = {r, a, b, c, d, e}
  Root = r
  Children <- MCChildren
  NoData = {d}
  Views <- MCViews
  Limits <- MCLimits
  MaxMoves = 2
  NoJob = NoJob
SPECIFICATION FairSpec
INVARIANTS
  
  VisibleOnce
  TexturesFollowMap

  
  
