SPECIFICATION MCSpec
CONSTANTS
  Size = 12
  Calls = {}
  MaxCalls = 4
  BufSize = 2
  Sources <- MCSources
  Inits = {"stream"}
  Pools = {1, 2, 3, 5}
  Limits <- MCFewBytes
  STACK_DEPTH = 2
  NODES_PER_PAGE = 3
  BUFFER_SIZE = 2
  MayFail = FALSE
  WithMalloc = TRUE
  Docs = {}
  Nodes <- MCNodes
  Numbers <- MCNumbers
  Strings <- MCStrings
  Names <- MCNames
  Indices = {0, 1, 2}
  BufferSizes = {0, 1, 3}
INVARIANT BytesArePerMessage
CHECK_DEADLOCK FALSE
