SPECIFICATION Spec
CONSTANTS
  ArmCode <- ArmAddresses
  ThumbCode <- ThumbAddresses
  ArmEntries <- ArmStart
  ThumbEntries <- ThumbStart
  CodeTop = 20
  StackWords = 5
  MaxCalls = 6
  Half = 4
CHECK_DEADLOCK FALSE
INVARIANTS
  ModeMatchesCode
  SavedReturnsIntact
  ConditionsRight
  CarriesExact
PROPERTIES
  ReturnsBehindCall
