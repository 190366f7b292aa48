SPECIFICATION Spec
CONSTANTS
  Tasks = {t1}
  NObjects = 2
  MaxId = 2
  BatchItems = 1
  Engines <- MongoOnly
  Oversized <- LastOversized
  BsonType <- OneType
  Kind <- AllExact
  TextRank <- Backwards
  Rounded <- LastRounded
  Unique = {}
  MaxChanges = 0
  None = None
  Other = Other
INVARIANT NothingMissed
CHECK_DEADLOCK FALSE
