SPECIFICATION Spec
CONSTANTS
  PageSize = 2
  Pages = 3
  MaxRegions = 3
  InitialCursor = 2
  Protections <- ReadOrWrite
  Bytes = {0, 1}
  AccessLengths = {2}
INVARIANTS
  TypeOK
  RegionsDisjoint
  QueryBoundsAccess
  AllocateFirstFit
PROPERTIES
  RefinesAddressSpace
