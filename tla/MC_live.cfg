SPECIFICATION FairSpec
CONSTANTS
  c1 = c1
  c2 = c2
  w1 = w1
  w2 = w2
  t1 = t1
  t2 = t2
  A = A
  B = B
  None = None
  Clients <- OneClient
  Workers <- OneWorker
  Reloads <- OneReload
  Models <- TwoModels
  Explicit <- StartGates
  ReloadsOverlap = FALSE
  QueueSize = 1
PROPERTIES
  WaitEnds
  LeaseReturns
