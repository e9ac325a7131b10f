CONSTANTS
  g = g
  h = h
  k = k
  a = a
  b = b
  c = c
  e = e
  Root = Root
  Groups = {g, h, k}
  Parent <- Tree
  Datasets = {a, b, c, e}
  GroupOf <- Members
  Columned = {g, k}
  NFiles = 3
  Selections <- AnySelection
  Contents <- MixedFiles
  MaxRows = 3
SPECIFICATION Spec
INVARIANTS ColumnsCompleteAtOpen ColumnNamesTrigger
PROPERTY InputsReadOrExcused
CHECK_DEADLOCK FALSE
