SPECIFICATION MCSpec
CONSTANTS
  Parts = {"calls"}
  BigEndian = FALSE
  Streams = {}
  Modes = {}
  Sinks = {}
  GatherMax = 0
  BufLen = 10
  Room = 12
  Faults = FALSE
  Formats <- MCRootBin
  Contents = {1, 3}
  MaxCalls = 5
  Damages = {}
  Alphabets <- MCNesting
  Numbers = {}
  MaxItems = 9
INVARIANT LoadedIsAsNewlyMapped
CHECK_DEADLOCK FALSE
