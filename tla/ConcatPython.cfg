CONSTANTS
  NRanks = 3
  NFiles = 2
  InputSizes <- UpTo9
  Formats <- AnyFormats
  MemMaxBytes <- Memory
  Unwritten = Unwritten
SPECIFICATION Spec
PROPERTY PyImplementsConcatenation
