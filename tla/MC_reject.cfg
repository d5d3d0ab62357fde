SPECIFICATION Spec
CONSTANTS
  u1 = u1
  u2 = u2
  w1 = w1
  p1 = p1
  f1 = f1
  i1 = i1
  None = None
  Users <- TwoUsers
  Workers <- OneWorker
  Proposals <- OneProposal
  Captures <- Nothing
  Imports <- Nothing
  QueueSize = 1
  Failures = FALSE
  Listing = FALSE
INVARIANT
  RejectedNotRecalled
SYMMETRY Symmetric
