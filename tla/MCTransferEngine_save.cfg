SPECIFICATION Spec
CONSTANTS
  Transfers = {t1}
  MaxConcurrent = 1
  MaxChanges = 1
  None = None
  Part = Part
  Old = Old
  Theirs = Theirs
  Link = Link
INVARIANT SavesWhatItSaw
CHECK_DEADLOCK FALSE
