SPECIFICATION Spec
CONSTANTS
  Indices = {1, 2, 3, 4}
  Broken = {4}
  PageSize = 2
  Word = 16
  PageNumbers = {0, 1, 2, 3, 4, 8, 15}
  MaxRows = 3
  MaxBusy = 1
INVARIANTS
  TypeOK
  BindsSucceed
  PageIsRight
  ThrowsOnlyIf
CHECK_DEADLOCK FALSE
