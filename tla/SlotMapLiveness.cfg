SPECIFICATION LiveSpec
CONSTANTS
  Thread = {t1, t2}
  Guard = {g1, g2}
  OwningGuard = {g1, g2}
  Value = {v1, v2}
  MaxSlots = 2
  FirstChunk = 1
  TagMod = 64
  VersionMod = 4
  CountMod = 8
  MAX_REFCOUNT = 6
  RefMod = 16
  Capacity = 0
  MayPanic = FALSE
  None = None
PROPERTIES
  LockFree
  RemovedDestroyed
  SlotsRecycled
