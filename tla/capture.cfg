CONSTANTS
  NoPath = nopath
  Hosts <- MCHosts
  Overrides = {"", "ebpf", "strace", "sysmon"}
  Path = {1, 2, 3}
  Area <- MCArea
  Sensitive = {1}
  Acts <- MCActs
  MaxActs = 2
SPECIFICATION Spec
INVARIANTS ListsTellWhatHappened InteropIsTheBoundary SelectionWorks
CHECK_DEADLOCK FALSE
