SPECIFICATION FairSpec
CONSTANTS
  Dlls = {a, b}
  EntryDlls = {a, b}
  MaxModules = 3
  ImportTables <- AllTables
  Space = 64
  PageSpan = 4
  BlockStrings = 3
  Capacity = 2
  ImageSize = 8
  Bases = {0, 8, 48}
  TriedBlocks <- AllBlocks
  TriedExports <- AllExports
  TriedTexts <- AllTexts
INVARIANTS
  HeldModulesLoaded
  BoundUnlessCyclic
  AttachOrder
  AttachedBeforeProgram
  RelocationsRight
  LookupsRight
PROPERTIES
  CallsReturn
CHECK_DEADLOCK FALSE
