SPECIFICATION Spec
CONSTANTS
  c1 = c1
  c2 = c2
  w1 = w1
  w2 = w2
  t1 = t1
  t2 = t2
  A = A
  B = B
  None = None
  Clients <- TwoClients
  Workers <- TwoWorkers
  Reloads <- NoReload
  Models <- TwoModels
  Explicit <- EveryGate
  ReloadsOverlap = FALSE
  QueueSize = 0
PROPERTIES
  NoUnloadInUse
SYMMETRY Symmetric
