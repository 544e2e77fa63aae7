SPECIFICATION EngineSpec
CONSTANTS
  Item <- Features
  Hash <- Hashes
  Rank <- Ranks
  Benign = {1, 2}
  Packet = {1}
  InteropPaths = {1, 2}
  KnownInterop = {1}
  SensitiveKeys = {2}
  Escalations = {1}
  AnonymousExec = {1}
  NilWeights = NilWeights
  NoHash = NoHash
  NoDigest = NoDigest
  Baselines <- MCBaselines
  Observations <- AllObservations
  Growing <- GrowingObservations
INVARIANTS Deterministic WatchListIsMalicious NoiseIsInert MoreIsNeverBetter
CHECK_DEADLOCK FALSE
