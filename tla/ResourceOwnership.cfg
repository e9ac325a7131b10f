CONSTANTS
  o1 = o1
  o2 = o2
  o3 = o3
  StringType = StringType
  Space = Space
  AttributeId = AttributeId
  Objects <- AllObjects
  Ids = {i1, i2, i3, i4, i5}
  Invalid = Invalid
  Default = Default
  UserLists <- SomeLists
  MaxLists = 3
  ChunkRows = {0, 50}
  Omitted = Omitted
  MaxHDF5Failures = 2
SPECIFICATION HandlesSpec
SYMMETRY Symmetry
INVARIANTS NothingLeaks SoleOwner TruthfulResult DatasetAsRequested
PROPERTY QuietReturn
CHECK_DEADLOCK FALSE
