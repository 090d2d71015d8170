SPECIFICATION Spec
CONSTANTS
  ArmCode <- ArmAddresses
  ThumbCode <- ThumbAddresses
  ArmEntries <- ArmStart
  ThumbEntries <- ThumbStart
  CodeTop = 20
  StackWords = 5
  MaxCalls = 6
  Half = 2
CHECK_DEADLOCK FALSE
INVARIANTS
  EveryInstructionDecodes
