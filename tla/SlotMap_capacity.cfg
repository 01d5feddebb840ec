SPECIFICATION Spec
CONSTANTS
  Thread = {t1}
  Guard = {g1}
  OwningGuard = {}
  Value = {v1, v2}
  MaxSlots = 2
  FirstChunk = 1
  TagMod = 64
  VersionMod = 8
  CountMod = 8
  MAX_REFCOUNT = 6
  RefMod = 16
  Capacity = 1
  MayPanic = FALSE
  None = None
SYMMETRY Symmetry
PROPERTIES
  NeverAllocates
