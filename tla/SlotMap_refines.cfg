SPECIFICATION Spec
CONSTANTS
  Thread = {t1, t2}
  Guard = {g1, g2, g3}
  OwningGuard = {g1, g2}
  Value = {v1, v2}
  MaxSlots = 2
  FirstChunk = 1
  TagMod = 64
  VersionMod = 8
  CountMod = 8
  MAX_REFCOUNT = 2
  RefMod = 16
  Capacity = 0
  MayPanic = TRUE
  None = None
SYMMETRY Symmetry
INVARIANTS
  NoSlotLost
  DestroyedOnce
  CountExact
  ReferencesBounded
PROPERTIES
  ImplementsKeyedStore
  MissesJustified
