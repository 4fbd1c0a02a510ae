\* One client that does not wait for its replies.
CONSTANTS
  Senders = {a}
  Mutators = {a}
  Mortals = {a}
  Slots = {1, 2}
  NoOne = NoOne
  MaxTimers = 1
  LateSuccess = FALSE
SPECIFICATION Spec
INVARIANTS OneOperation OperationBound
PROPERTIES DepartedReleased CallsReturn
CHECK_DEADLOCK FALSE
