SPECIFICATION ServiceFairSpec
CONSTANTS
  Sessions = {s1, s2}
  Workers = {w1}
  NoWork = NoWork
  Listener = Listener
  MaxSends = 1
  ChunkSize = 3
PROPERTIES
  ClosedAreReleased
  GoneAreUnlisted
