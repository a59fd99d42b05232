SPECIFICATION Spec
CONSTANTS
  Methods = {"GET", "POST"}
  Versions = {"HTTP/1.1", "HTTP/3"}
  Names <- MCNames
  Queries <- MCQueries
  HeaderLists <- MCHeaderLists
INVARIANTS
  TypeOK
  TargetAsSent
  HeadersAsSent
  OneHeaderCut
PROPERTY TurnsAdvance
