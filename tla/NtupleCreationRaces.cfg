CONSTANTS
  Makers = {m1, m2}
  NoMaker = NoMaker
  OverwriterSets = {{}, {m1}, {m1, m2}}
  Throwing = {m1}
  NColumns = 2
  MaxGroups = 4
  MaxFailures = 2
SPECIFICATION Spec
INVARIANTS SoleWriter LiveIsComplete KeptUnlessOverwritten
PROPERTIES OnlyOverwritersReplace
CHECK_DEADLOCK FALSE
