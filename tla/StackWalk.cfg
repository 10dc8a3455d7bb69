CONSTANTS
  s1 = s1
  s2 = s2
  f1 = f1
  f2 = f2
  f3 = f3
  a1 = a1
  a2 = a2
  n1 = n1
  n2 = n2
  x = x
  long = long
  Slots = {s1, s2}
  Funcs = {f1, f2, f3}
  Callees = {f1, f2, f3}
  Function <- MCFunction
  Addrs = {a1, a2}
  Names = {n1, n2}
  Null = Null
  Wild = Wild
  Torn = Torn
  Junk = Junk
  Garbage <- MCGarbage
  Cut <- MCCut
  NoValue = NoValue
  MaxDepth = 2
  CacheMax = 1
  BucketMax = 3
  MaxMoves = 2
  Requests <- MCRequests
SPECIFICATION MCSpec
INVARIANTS TypeOK FramesWereLive QuietSampleIsExact CacheCoherent TouchedOnce
PROPERTY WalkEnds
CHECK_DEADLOCK TRUE
