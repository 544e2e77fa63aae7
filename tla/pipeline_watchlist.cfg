SPECIFICATION PipelineSpec
CONSTANTS
  Item <- Features
  Hash = {"h1", "h2"}
  NoHash = NoHash
  NoDigest = NoDigest
  Captures <- AllCaptures
  MaxSamples = 1
  MaxRuns = 3
  Hosts <- AllHosts
  Overrides = {""}
  WatchList = {1}
  Requests = {1}
  Rank <- Ranks
  Benign = {2}
  Packet = {1}
  InteropPaths = {}
  KnownInterop = {}
  SensitiveKeys = {1}
  Escalations = {}
  AnonymousExec = {}
  NilWeights = NilWeights
INVARIANTS AlwaysSuspiciousIsMalicious
CHECK_DEADLOCK FALSE
