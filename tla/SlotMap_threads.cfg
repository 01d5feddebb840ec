SPECIFICATION Spec
CONSTANTS
  Thread = {t1, t2, t3}
  Guard = {g1, g2}
  OwningGuard = {g1, g2}
  Value = {v1, v2}
  MaxSlots = 2
  FirstChunk = 1
  TagMod = 64
  VersionMod = 8
  CountMod = 8
  MAX_REFCOUNT = 6
  RefMod = 16
  Capacity = 0
  MayPanic = FALSE
  None = None
SYMMETRY Symmetry
INVARIANTS
  TypeOK
  RefCountExact
  ExclusiveOwner
  GuardsReadable
  OccupiedReadable
  DestroysLiveValue
