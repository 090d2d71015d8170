SPECIFICATION Spec
CONSTANTS
  Messages = {m1, m2, m3}
  QueueSize = 3
PROPERTIES
  RefinesMessageQueue
