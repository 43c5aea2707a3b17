CONSTANTS
  ErrorHandoffs = 2
  Patient = TRUE
  MaxEvents = 2
SPECIFICATION Spec
INVARIANTS TypeOK   WaitsAlone
CHECK_DEADLOCK FALSE
PROPERTIES Settles
