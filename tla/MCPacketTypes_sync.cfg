SPECIFICATION Spec
CONSTANTS
  Id <- MCIds
  Byte <- MCBytes
  Sync = {0, 1}
  Chunk = {"c1"}
  Session = {"s1"}
  MessageId = {1, 2}
INVARIANT SyncAlwaysFromHeader
