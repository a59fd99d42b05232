SPECIFICATION Spec
CONSTANTS
  Sessions = {s1, s2}
  Workers = {w1}
  NoWork = NoWork
  Listener = Listener
  MaxSends = 2
  ChunkSize = 3
SYMMETRY Symmetry
CONSTRAINT InOneSession
INVARIANTS
  OneOwner
  NoUseAfterFree
PROPERTY LifecycleSpec
