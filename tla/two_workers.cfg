SPECIFICATION Spec
CONSTANTS
  Sessions = {s1}
  Workers = {w1, w2}
  NoWork = NoWork
  Listener = Listener
  MaxSends = 2
  ChunkSize = 2
SYMMETRY Symmetry
INVARIANTS
  OneOwner
  BusyIsReal
  RotationSafe
