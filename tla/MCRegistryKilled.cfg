SPECIFICATION Spec
CONSTANTS
  Keys = {hkcu}
  Names = {n1}
  Kinds = {sz}
  Data = {nodata, d1}
  NoData = nodata
  MaxValues = 1
INVARIANTS
  SavedValuesPersist
