CONSTANTS
  o1 = o1
  o2 = o2
  o3 = o3
  Operators = {o1}
  ConfigInit = init
  Null = null
  IdOrder <- Alphabet
  CapabilityNames <- Capabilities
  WeightFiles <- Files
  Base <- Catalog
  Overlays <- AcceptedOverlays
  Commands <- AcceptedCommands
  MaxCommands = 2
  MaxCrashes = 0
SPECIFICATION Spec
INVARIANT AcceptedCatalogLoads
CHECK_DEADLOCK FALSE
