CONSTANTS
  d1 = d1
  d2 = d2
  r1 = r1
  g1 = g1
  g2 = g2
  w1 = w1
  w2 = w2
  Principals = {p1}
  Names = {g1, g2}
  Worlds = {w1, w2}
  Events = {e1}
  Deliverers = {d1, d2}
  Readers = {r1}
  Owner = owner
  Prober = prober
  Populations <- Present
  Policies <- Configurations
  Limit = 2
  Personal = personal
  Note = note
  Null = null
SPECIFICATION FairSpec
INVARIANT TypeOK
INVARIANT WithdrawnStaysOut
INVARIANT OptOutIsHeard
INVARIANT ReadyMeansVerified
INVARIANT AcknowledgedIsLoaded
PROPERTY ImplementsLedger
PROPERTY Acknowledged
PROPERTY OptionalReturns
CHECK_DEADLOCK FALSE
