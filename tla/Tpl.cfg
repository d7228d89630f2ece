SPECIFICATION MCSpec
CONSTANTS
  Parts = {"gather", "calls", "formats"}
  BigEndian = FALSE
  Streams <- MCStreams
  Modes = {"blocking", "nonblocking", "mem"}
  Sinks = {"pipe", "file"}
  GatherMax = 20
  BufLen = 10
  Room = 12
  Faults = TRUE
  Formats <- MCFormats
  Contents = {1, 3}
  MaxCalls = 5
  Damages = {"cut", "long", "short", "number", "format", "text", "runaway", "magic", "flags"}
  Alphabets <- MCAlphabets
  Numbers <- MCNumbers
  MaxItems = 8
INVARIANTS NoneHeldBack FileHoldsImages BlocksAreReachable MapFitsMemory
PROPERTIES ImagesInOrder AllHandedOver OnlyGoodImagesAreTaken DocSpec
CHECK_DEADLOCK FALSE
