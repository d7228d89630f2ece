SPECIFICATION MCSpec
CONSTANTS
  Size = 12
  Calls <- MCCalls
  MaxCalls = 4
  BufSize = 2
  Sources <- MCSources
  Inits = {"bare", "pool", "data", "stream"}
  Pools = {1, 2, 3, 5}
  Limits <- MCLimits
  STACK_DEPTH = 2
  NODES_PER_PAGE = 3
  BUFFER_SIZE = 2
  MayFail = TRUE
  WithMalloc = TRUE
  Docs <- MCDocs
  Nodes <- MCNodes
  Numbers <- MCNumbers
  Strings <- MCStrings
  Names <- MCNames
  Indices = {0, 1, 2}
  BufferSizes = {0, 1, 3}
CONSTRAINT MCProgram
INVARIANTS NoGap ReadsWhatWasWritten CutIsNoticed TreeIsMessage NodesApart NothingLeaks ErrorsDeserved
PROPERTIES FirstErrorStays LookupsExact IntegersExact TextsExact
CHECK_DEADLOCK FALSE
