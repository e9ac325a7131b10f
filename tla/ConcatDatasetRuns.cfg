CONSTANTS
  NRanks = 3
  NFiles = 2
  InputSizes <- UpTo9
  Formats <- AnyFormats
  Options <- AnyOptions
  Unwritten = Unwritten
SPECIFICATION MCSpec
INVARIANTS LockstepInTransfers LockstepAtResize BufferBound TransfersInBounds WritesDisjoint ChunksExclusive MaxRowsRespected RowsInPlace RowsWrittenOnce LossesAreShortTails
PROPERTIES ImplementsConcatenation Termination
