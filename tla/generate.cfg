SPECIFICATION Spec
CONSTANTS
  Directories <- MCDirectories
  HashModulus = 65536
  Null = Null
  Dests <- MCDests
  ContentTypeSize <- MCContentTypeSize
  IndexPage <- MCIndexPage
  NotFoundPage <- MCNotFoundPage
  ServiceNames <- MCServiceNames
  SERVICE_OUTPUT_SIZE = 1024
INVARIANTS
  TypeOK
  FirstLocationWins
  UnsetOnlyIfMissing
  BufferReaches
  NullOnlyIfUnread
CHECK_DEADLOCK FALSE
