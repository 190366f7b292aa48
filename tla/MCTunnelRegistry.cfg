SPECIFICATION FairSpec
CONSTANTS
  a = a
  b = b
  x = x
  y = y
  z = z
  t1 = t1
  t2 = t2
  s1 = s1
  s2 = s2
  p1 = p1
  p2 = p2
  None = None
  Ids = {a, b}
  Wants <- MCWants
  Callers = {t1, t2}
  Closers = {c}
  Slots = {s1, s2}
  Pids = {p1, p2}
  MaxActive = 1
INVARIANTS TypeOK RegistryBound LeftOnlyLate
PROPERTIES OnlyEvictionDetaches ReturnsWanted EveryCallReturns
