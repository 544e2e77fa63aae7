SPECIFICATION LiveSpec
CONSTANTS
  s1 = s1
  f1 = f1
  p1 = p1
  x1 = x1
  x2 = x2
  a1 = a1
  NoExe = NoExe
  Sock = {s1}
  Foreign = {f1}
  Modes = {"listening", "idle"}
  Pid = {p1}
  Exe = {x1, x2}
  Uid = {0, 1}
  StartUid = 1
  Addr = {a1}
  Mappings <- MCMappings
  MaxChanges = 1
INVARIANTS SocketsAreTheTargets LastingStateReported ChildrenAreReal ResultsAreFinal
PROPERTIES CaptureEnds
CHECK_DEADLOCK FALSE
