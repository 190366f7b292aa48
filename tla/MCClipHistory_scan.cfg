SPECIFICATION Spec
CONSTANTS
  i1 = i1
  i2 = i2
  a = a
  b = b
  u = u
  t = t
  r = r
  f = f
  None = None
  ClipIds = {i1, i2}
  Contents = {a, b}
  Images = {a, b}
  Hashes = {"ha", "hb", "h-ra", "h-rb"}
  Plain <- NoRichText
  Primary <- First
  Secondary <- Second
  Shape <- OneShape
  CacheWindow = 2
  MaxToken = 3
  Hazards = {"early_delete"}
SYMMETRY Symmetry
INVARIANT LiveMediaIntact
