SPECIFICATION MCSpec
CONSTANTS
  Argcs <- MCArgcs
  Numbers <- MCNumbers
  Times <- MCTimes
INVARIANTS ExitCode LineDescribesLoop DeviationOfLoop RoundTrip ForeignIsRefused FitsOrFails
CHECK_DEADLOCK FALSE
