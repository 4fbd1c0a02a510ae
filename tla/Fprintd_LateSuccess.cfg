\* The projection has succeeded when it is sent SIGTERM.
CONSTANTS
  Senders = {a}
  Mutators = {}
  Mortals = {a}
  Slots = {1}
  NoOne = NoOne
  MaxTimers = 1
  LateSuccess = TRUE
SPECIFICATION Spec
INVARIANTS CleanupEndsVerification
CHECK_DEADLOCK FALSE
