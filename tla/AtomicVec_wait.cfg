SPECIFICATION FairSpec
CONSTANTS
  Thread = {t1, t2}
  Ptr = {p1, p2, p3, p4}
  Null = Null
  FirstChunk = 1
  LenMod = 5
  MaxLen = 2
  Amounts = {0}
  MayFail = TRUE
PROPERTIES
  GetsReturn
