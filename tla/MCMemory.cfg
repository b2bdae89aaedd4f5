SPECIFICATION Spec
CONSTANTS
  base = 1
  PAGE_SIZE = 7
  ObjectSize = 2
  MaxPages = 2
  VectorNames = {v1, v2}
  Elements = {1, 2}
  Capacity = 1
  MaxSize = 3
  Owned = {b1, b2}
  Files = {"p", "q"}
  Counts = {1}
  Data = {0, 1}
  MaxFiles = 3
  MaxBlocks = 3
  Strings <- TestStrings
  MaxPeople = 1
  MaxPhones = 2
  MaxRoom = 64
INVARIANTS PoolBlocksRight ResourcesOwned ArchiveRoundTrip
PROPERTY VectorListSpec
\* Books are read once, and programs that use memory that is not there stop.
CHECK_DEADLOCK FALSE
