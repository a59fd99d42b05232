SPECIFICATION Spec
CONSTANTS
  BUFFER_SIZE = 3
  MaxRecord = 7
  MaxRecords = 2
INVARIANTS
  TypeOK
  NothingLeftBehind
  OneRecord
  ZeroReturnIsReal
