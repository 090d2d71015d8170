SPECIFICATION ProcessSpec
CONSTANTS
  PageSize = 1
  Pages = 12
  MaxRegions = 6
  InitialCursor = 4
  Protections <- AllRights
  Bytes = {0}
  AccessLengths = {1}
  UserKData = 8
  Images <- TwoImages
  StackSize = 4
INVARIANTS
  StackAvailable
CHECK_DEADLOCK FALSE
