CONSTANTS
  Target = t
  Pid = {t, p, q}
  NoPid = none
  Obj <- MCObj
  Payload <- MCSubtreePayload
  PersistenceKeys = {"run"}
  WeakeningKeys = {"weak"}
  Second = 1
  Duration = 1
  Margin = 2
  MaxEvents = 3
  MaxTime = 3
SPECIFICATION Spec
INVARIANTS SubtreeTracked
CHECK_DEADLOCK FALSE
