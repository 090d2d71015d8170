SPECIFICATION FilesSpec
CONSTANTS
  MaxHandles = 3
  MaxResources = 2
  Files <- MCFiles
  Patterns <- MCPatterns
  TriedPatterns <- MCTriedPatterns
  TriedNames <- MCTriedNames
  TriedPaths <- MCTriedPaths
INVARIANTS
  OneOwner
  UntoldAreKeys
  MatchesAsMeant
  PathsRight
PROPERTIES
  OrphansOnlyWhenFull
  SearchExact
CHECK_DEADLOCK FALSE
