SPECIFICATION Spec
CONSTANTS
  ChunkSize = 4
  RecordSizes = {1, 2, 4}
  MaxSize = 13
  MaxResponses = 2
INVARIANTS
  TypeOK
  WritesInside
  OkIsDelivered
PROPERTY EndsUnlessMultiple
