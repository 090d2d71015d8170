SPECIFICATION Spec
CONSTANTS
  MaxWindows = 1
  MaxHandles = 2
  MaxClasses = 1
  QueueSize = 2
  MaxTimers = 2
  ClassNames <- TwoClasses
  Frames <- OneFrame
  Points = {}
  Keys = {}
  CharacterKeys = {}
  TimerIds = {0, 1}
  Width = 1
  Height = 1
  Coordinates = {0}
  Texts = {}
INVARIANTS
  TypeOK
  CreateLeads
PROPERTIES
  TimersIndependent
  TimerMessagesArmed
