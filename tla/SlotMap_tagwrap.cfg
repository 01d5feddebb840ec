SPECIFICATION Spec
CONSTANTS
  Thread = {t1, t2}
  Guard = {}
  OwningGuard = {}
  Value = {v1, v2, v3, v4}
  MaxSlots = 2
  FirstChunk = 1
  TagMod = 3
  VersionMod = 8
  CountMod = 8
  MAX_REFCOUNT = 6
  RefMod = 16
  Capacity = 0
  MayPanic = FALSE
  None = None
SYMMETRY Symmetry
INVARIANTS
  FreeListSound
CHECK_DEADLOCK FALSE
