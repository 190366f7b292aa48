SPECIFICATION FairSpec
CONSTANTS
  k1 = k1
  k2 = k2
  k3 = k3
  c1 = c1
  c2 = c2
  p = p
  q = q
  x1 = x1
  None = None
  Tasks = {k1, k2}
  Profiles = {p}
  Calls = {c1, c2}
  Terminals = {x1}
  MaxQueued = 1
  MaxHistory = 1
  MaxConcurrent = 1
  MaxSaves = 2
INVARIANTS TypeOK HandlePerActive RunningIsExecuted QueueBound StaleTransferCancelled NoStaleTerminal
PROPERTY StopsInTheEnd
