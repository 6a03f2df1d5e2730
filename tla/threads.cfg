SPECIFICATION Spec
CONSTANTS
  Names <- MCNames
  StatesOf <- MCStatesOf
  OpeningState <- MCOpeningState
  Hearings <- MCHearings
  Patterns = {"text", "button"}
  null = null
  MaxMessages = 3
  MaxCrashes = 1
INVARIANTS
  TypeOK
  StateIsOfThread
CHECK_DEADLOCK FALSE
