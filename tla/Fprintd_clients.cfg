\* Two clients, one call at a time each; one may leave and may enroll and delete.
CONSTANTS
  Senders = {a, b}
  Mutators = {a}
  Mortals = {a}
  Slots = {1}
  NoOne = NoOne
  MaxTimers = 2
  LateSuccess = FALSE
SPECIFICATION Spec
INVARIANTS FingerNeeded
