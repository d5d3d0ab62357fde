CONSTANTS
  o1 = o1
  o2 = o2
  o3 = o3
  Operators = {o1, o2, o3}
  ConfigInit = init
  Null = null
  IdOrder <- Alphabet
  CapabilityNames <- Capabilities
  WeightFiles <- Files
  Base <- Catalog
  Overlays <- PlaneOverlays
  Commands <- PlaneCommands
  MaxCommands = 2
  MaxCrashes = 1
SPECIFICATION FairSpec
INVARIANT TypeOK
INVARIANT OverlayAccepted
INVARIANT FilesFollowOverlay
INVARIANT ServicesFollowFiles
INVARIANT RoutedModelServed
INVARIANT AvailableResolves
INVARIANT UnverifiedOnlyWhileFetching
PROPERTY AppliedTakesEffect
PROPERTY Recovers
CONSTRAINT EditsApart
CHECK_DEADLOCK FALSE
