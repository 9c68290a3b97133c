SPECIFICATION Spec
CONSTANTS
  Signals <- MCSignals
  Old <- Fatal
INVARIANTS KilledRestored ExitRestored CookedAgain
CHECK_DEADLOCK FALSE
