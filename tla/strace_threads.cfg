SPECIFICATION Spec
CONSTANTS
  t1 = t1
  t2 = t2
  write = write
  exit = exit
  NoThread = NoThread
  Thread = {t1, t2}
  Name = {write, exit}
  NoReturn = {exit}
  EqInArgs = {write}
  PipeSize = 2
  Stubborn = FALSE
  MaxCalls = 2
SYMMETRY Sym
INVARIANTS SubtreeRecorded
CHECK_DEADLOCK FALSE
