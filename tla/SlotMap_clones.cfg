SPECIFICATION Spec
CONSTANTS
  Thread = {t1}
  Guard = {g1, g2, g3}
  OwningGuard = {g1, g2, g3}
  Value = {v1}
  MaxSlots = 1
  FirstChunk = 1
  TagMod = 64
  VersionMod = 8
  CountMod = 8
  MAX_REFCOUNT = 1
  RefMod = 4
  Capacity = 0
  MayPanic = FALSE
  None = None
SYMMETRY Symmetry
INVARIANTS
  RefCountFits
