SPECIFICATION Spec
CONSTANTS
  Threads = {t1, t2}
  t1 = t1
  t2 = t2
  np = np
  NoPoint = np
  Names <- MCNames
  Points <- MCPoints
  Functions <- MCFunctions
  Code <- MCCode
  Fun <- MCFun
  Shape <- MCShape
  MaxDist = 2
  MaxDepth = 3
INVARIANTS
  LookupAgrees
  FramesFollowShape
PROPERTIES
  CachedPositionStable
  SharedAnswerFresh
SYMMETRY Symmetry
