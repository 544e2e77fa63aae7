SPECIFICATION LiveSpec
CONSTANTS
  t1 = t1
  t2 = t2
  write = write
  exit = exit
  NoThread = NoThread
  Thread = {t1, t2}
  Name = {write, exit}
  NoReturn = {exit}
  EqInArgs = {write}
  PipeSize = 3
  Stubborn = TRUE
  MaxCalls = 5
INVARIANTS RecordedExactlyOnce NoConcurrentAccess
PROPERTIES StraceReturns IsObserver
CHECK_DEADLOCK FALSE
