SPECIFICATION Spec
CONSTANTS
  MaxWindows = 2
  MaxHandles = 3
  MaxClasses = 0
  QueueSize = 2
  MaxTimers = 0
  ClassNames <- ButtonOnly
  Frames <- OneFrame
  Points = {1, 2}
  Keys = {1}
  CharacterKeys = {1}
  TimerIds = {}
  Width = 4
  Height = 3
  Coordinates <- DrawnCoordinates
  Texts <- DrawnTexts
INVARIANTS
  FocusCaptureLive
  CommandFollowsRelease
  DrawingExact
PROPERTIES
  HandleNeverReused
  CaptureKept
