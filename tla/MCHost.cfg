SPECIFICATION HostSpec
CONSTANTS
  Keys = {hkcu, hklm}
  Names = {n1}
  Kinds = {sz}
  Data = {nodata, d1}
  NoData = nodata
  MaxValues = 2
  MaxTicks = 2
INVARIANTS
  HostTypeOK
  UniqueValues
  RestartReadsPrefix
  SlicesOnlyWhileRunning
PROPERTIES
  OneValueAtATime
  RelaunchKeepsRegistry
  SliceComes
