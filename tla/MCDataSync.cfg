SPECIFICATION FairSpec
CONSTANTS
  Tasks = {t1, t2}
  NObjects = 2
  MaxId = 2
  BatchItems = 1
  Engines <- SqlAndMongo
  Oversized <- SqlOversized
  BsonType <- OneType
  Kind <- LastIsSpecial
  TextRank <- Backwards
  Rounded <- LastRounded
  Unique = {1}
  MaxChanges = 1
  None = None
  Other = Other
INVARIANTS TypeOK OneExecutor ConfirmedOnly CompletedIsComplete SafeCancel
PROPERTIES ComesToAResult KeepsItsPromise
CHECK_DEADLOCK FALSE
