CONSTANTS
  M = 8
  Window = 4
  Shapes <- MCShapes
  MaxId = 12
  MaxChanges = 1
SPECIFICATION Spec
INVARIANTS
  TypeOK
  QueueInSendingOrder
  FramesWhole
  SavedPacketExact
  OnlyDamageDelays
PROPERTIES
  FramesInOrder
  OnlyDamagedFramesSkipped
CHECK_DEADLOCK FALSE
