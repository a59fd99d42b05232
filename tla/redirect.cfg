SPECIFICATION Spec
CONSTANTS
  Clients = {c1, c2, c3}
  Backlog = 2
INVARIANTS
  TypeOK
  NoClientForgotten
PROPERTY EveryClientServed
