SPECIFICATION Spec
CONSTANTS
  Tasks = {t1}
  NObjects = 1
  MaxId = 2
  BatchItems = 1
  Engines <- PostgresOnly
  Oversized <- NoneOversized
  BsonType <- OneType
  Kind <- AllText
  TextRank <- Backwards
  Rounded <- LastRounded
  Unique = {}
  MaxChanges = 0
  None = None
  Other = Other
INVARIANT NothingMissed
CHECK_DEADLOCK FALSE
