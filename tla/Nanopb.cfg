SPECIFICATION MCSpec
CHECK_DEADLOCK FALSE
CONSTANTS
  Parts = {"codec", "varint", "iterator"}
  Descriptors <- Types
  Structs <- MCAll
  Unknown <- MCUnknown
  Readers <- MCReaders
  Befores <- MCAnything
  Flags <- MCFlags
  Values <- Words
  Inputs <- Varints
  Messages <- Bound
  Tags <- TagsAround
  Names <- SubNames
INVARIANTS RoundTrip Joined AcceptedIsWhole NoneMistaken AcceptedIsUsable AnnouncedSizes VarintsExact
PROPERTY Finds
