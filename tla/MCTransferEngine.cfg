SPECIFICATION FairSpec
CONSTANTS
  Transfers = {t1, t2}
  MaxConcurrent = 2
  MaxChanges = 1
  None = None
  Part = Part
  Old = Old
  Theirs = Theirs
  Link = Link
INVARIANTS TypeOK AlwaysWhole NeverGone
PROPERTIES RefuseNeverReplaces EveryTransferEnds
CHECK_DEADLOCK FALSE
