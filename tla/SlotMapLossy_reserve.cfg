SPECIFICATION LossySpec
CONSTANTS
  Thread = {t1, t2}
  Guard = {}
  OwningGuard = {}
  Value = {v1}
  MaxSlots = 4
  FirstChunk = 1
  TagMod = 64
  VersionMod = 8
  CountMod = 4
  MAX_REFCOUNT = 6
  RefMod = 16
  Capacity = 0
  MayPanic = FALSE
  Lossy = {t1}
  Amounts = {2}
  None = None
SYMMETRY Symmetry
PROPERTIES
  ReservePanicsJustified
