SPECIFICATION MCSpec
CHECK_DEADLOCK FALSE
CONSTANTS
  Parts = {"codec"}
  Descriptors <- Types
  Structs <- MCBare
  Unknown <- MCUnknown
  Readers <- MCReaders
  Befores <- MCBefores
  Flags <- MCFlags
  Values <- Words
  Inputs <- Varints
  Messages <- Bound
  Tags <- TagsAround
  Names <- SubNames
INVARIANT AllInitialized
