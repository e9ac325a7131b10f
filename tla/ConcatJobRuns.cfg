CONSTANTS
  RankCounts = {1, 2, 3}
  Libraries = {"before 1.10.2", "1.10.2", "1.10.3 and later"}
  CallCounts = {1, 2, 3}
  MaxArguments = 5
  MaxListed = 1
SPECIFICATION Spec
INVARIANTS AcceptedFitsLibrary FailureReported MistakesEndNormally
PROPERTY EndsWhenFailingTogether
CHECK_DEADLOCK FALSE
