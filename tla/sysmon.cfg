CONSTANTS
  Target = t
  Pid = {t, p}
  NoPid = none
  Obj <- MCObj
  Payload <- MCPayload
  PersistenceKeys = {"run"}
  WeakeningKeys = {"weak"}
  Second = 2
  Duration = 1
  Margin = 2
  MaxEvents = 3
  MaxTime = 3
SPECIFICATION Spec
INVARIANTS ReportedWasDone WindowCovered ListsShowTheLast
CHECK_DEADLOCK FALSE
