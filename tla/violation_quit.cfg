SPECIFICATION FairSpec
CONSTANTS
  Sessions = {s1}
  Workers = {w1}
  NoWork = NoWork
  Listener = Listener
  MaxSends = 1
  ChunkSize = 2
PROPERTY QuitReturns
