SPECIFICATION Spec
CONSTANTS
  t1 = t1
  t2 = t2
  other = other
  openat = openat
  exit = exit
  Tid = {t1}
  Target = {t1}
  Nr = {openat, exit}
  FileNr = {}
  NoReturn = {exit}
  RingSize = 2
  FileRingSize = 1
  ActiveSize = 1
  ChanSize = 1
  MaxFileAccesses = 1
  MaxSamples = 1
  NsPerMs = 1
  TidReuse = TRUE
  MaxCalls = 2
INVARIANTS ExitCountIsCompletions
CHECK_DEADLOCK FALSE
