CONSTANTS
  NRanks = 1
  NFiles = 1
  InputSizes <- UpTo9
  Formats <- OneFormat
  Options <- ExactBuffer
  Unwritten = Unwritten
SPECIFICATION Spec
INVARIANT NoRowSkipped
