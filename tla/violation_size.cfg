SPECIFICATION Spec
CONSTANTS
  Directories <- MCDirectories
  HashModulus = 65536
  Null = Null
  Dests <- MCDests
  ContentTypeSize <- MCContentTypeSize
  IndexPage <- MCIndexPage
  NotFoundPage <- MCNotFoundPage
  ServiceNames <- MCServiceNames
  SERVICE_OUTPUT_SIZE = 1024
INVARIANT FileSizeReturned
CHECK_DEADLOCK FALSE
