SPECIFICATION Spec
CONSTANTS
  Sessions = {s1, s2}
  Workers = {w1}
  NoWork = NoWork
  Listener = Listener
  MaxSends = 3
  ChunkSize = 2
SYMMETRY Symmetry
CONSTRAINT InBusyService
INVARIANTS
  TypeOK
  IndicesInside
  OneOwner
  NotLost
  UnreadAnnounced
  NoUseAfterFree
