CONSTANTS
  Frame = {f1, f2}
  NoFrame = NoFrame
  QueueSize = 4
  IdxMod = 8
SPECIFICATION Spec
INVARIANTS
  TypeOK
  IndexOrder
  NoSlotRace
  NoTornPacket
PROPERTY
  ImplementsFifo
