SPECIFICATION FairSpec
CONSTANTS
  i1 = i1
  i2 = i2
  a = a
  b = b
  u = u
  t = t
  r = r
  f = f
  None = None
  ClipIds = {i1, i2}
  Contents = {a, u, t, r, f}
  Images = {a}
  Hashes = {"ha", "hu", "ht", "h-ra", "h-ru", "h-rt"}
  Plain <- NoRichText
  Primary <- First
  Secondary <- Second
  Shape <- OneShape
  CacheWindow = 2
  MaxToken = 2
  Hazards = {}
INVARIANTS TypeOK LiveMediaIntact PendingRestorable IndexComplete UniqueContent IndexSound CacheCoherent EveryWindowHasTimer
PROPERTY WindowsClose
