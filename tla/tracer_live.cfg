SPECIFICATION LiveSpec
CONSTANTS
  t1 = t1
  t2 = t2
  other = other
  openat = openat
  exit = exit
  Tid = {t1}
  Target = {t1}
  Nr = {openat}
  FileNr = {openat}
  NoReturn = {}
  RingSize = 1
  FileRingSize = 1
  ActiveSize = 1
  ChanSize = 1
  MaxFileAccesses = 2
  MaxSamples = 1
  NsPerMs = 1
  TidReuse = FALSE
  MaxCalls = 2
INVARIANTS OffsetsOrdered ReleasedOnReturn
PROPERTIES IsObserver ReadersExit
CHECK_DEADLOCK FALSE
