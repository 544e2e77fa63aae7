--------------------------- MODULE AnalysisEngine ---------------------------
(***************************************************************************)
(* One run of `scrutiny analyze`: a baseline and an observation are read,  *)
(* diffSyscalls walks the observed map in whatever order the Go runtime    *)
(* picks, and the rest of Analyze follows from there.                      *)
(***************************************************************************)
EXTENDS Analysis, SequencesExt

CONSTANTS
  Baselines, Observations,
  Growing      (* observations some of which show more than others           *)

(* Files that the program itself writes: weights are 0 to 10.                *)
ASSUME EngineAssumption ==
  /\ Growing \subseteq Observations
  /\ \A b \in Baselines :
       \/ b.weights = NilWeights
       \/ \A type \in DOMAIN b.weights : b.weights[type] \in Nat
  /\ \A b \in Baselines : b.data.procReads \in Nat
  /\ \A o \in Observations : o.data \in Capture

VARIABLES
  baseline, observation,
  visited, (* the syscall names visited so far, in order                     *)
  result   (* <<>> until Analyze returns                                     *)

engineVars == <<baseline, observation, visited, result>>

EngineInit ==
  /\ baseline \in Baselines /\ observation \in Observations
  /\ visited = <<>> /\ result = <<>>

(* One iteration of the map range in diffSyscalls.                           *)
VisitSyscall(k) ==
  /\ k \in Called(observation.data) \ Range(visited)
  /\ visited' = Append(visited, k)
  /\ UNCHANGED <<baseline, observation, result>>

AnalyzeReturns ==
  /\ result = <<>> /\ Range(visited) = Called(observation.data)
  /\ result' = <<Analyze(baseline, observation, visited)>>
  /\ UNCHANGED <<baseline, observation, visited>>

EngineNext == (\E k \in Item : VisitSyscall(k)) \/ AnalyzeReturns
EngineSpec == EngineInit /\ [][EngineNext]_engineVars

----------------------------------------------------------------------------
Done == result # <<>>
R == result[1]
Canonical(x) == Listed(Called(x.data))

(* "given the same baseline and observation it produces the same anomalies   *)
(* in the same order": whatever the order of the map range, the result is that *)
(* of the names in order.                                                    *)
Deterministic ==
  Done => R = Analyze(baseline, observation, Canonical(observation))

(* "An always-suspicious syscall is never just unexpected": a watch-listed   *)
(* name the baseline did not have makes the verdict malicious, also when it  *)
(* is on the noise list, whatever the weights.                               *)
WatchListIsMalicious ==
  Done => ((Called(observation.data) \ Called(baseline.data)) \cap baseline.data.watch # {}
             => R.verdict = "malicious" /\ R.level = 12)

(* Noise suppression is complete: if all that is new is benign syscalls and  *)
(* writes below known interop paths, the report is clean and scores nothing. *)
OnlyNoise(b, o) ==
  /\ Called(o.data) \subseteq Called(b.data) \cup (Benign \ b.data.watch)
  /\ \A d \in DOMAIN o.data.lists : Range(o.data.lists[d]) \subseteq b.data.lists[d]
  /\ o.data.sets["promisc"] \subseteq b.data.sets["promisc"]
  /\ Present(o.data.files["exec"]) \subseteq Present(b.data.files["exec"])
  /\ Present(o.data.files["written"]) \cap InteropPaths \subseteq KnownInterop
  /\ o.data.sets["mapped"] \subseteq b.data.sets["mapped"]
  /\ o.data.sets["regWritten"] \cup o.data.sets["regCreated"]
       \subseteq b.data.sets["regWritten"] \cup b.data.sets["regCreated"]
  /\ o.data.sets["regions"] \cap AnonymousExec = {}
  /\ o.data.sets["privileges"] \cap Escalations = {}
  /\ o.data.children = <<>> /\ ~o.data.weakened
  /\ (o.data.persist => b.data.persist) /\ o.data.procReads <= b.data.procReads
NoiseIsInert ==
  (Done /\ OnlyNoise(baseline, observation)) =>
    R.score = 0 /\ R.verdict = "clean" /\ R.summary.total = 0

(* Observation y shows all that x shows, and perhaps more.                   *)
Extended(x, y) ==
  /\ Called(x.data) \subseteq Called(y.data)
  /\ \A d \in DOMAIN x.data.lists : IsPrefix(x.data.lists[d], y.data.lists[d])
  /\ \A d \in DOMAIN x.data.sets : x.data.sets[d] \subseteq y.data.sets[d]
  /\ \A d \in DOMAIN x.data.files :
       Present(x.data.files[d]) \subseteq Present(y.data.files[d])
  /\ IsPrefix(x.data.children, y.data.children)
  /\ x.data.persist => y.data.persist
  /\ x.data.weakened => y.data.weakened
  /\ x.data.procReads <= y.data.procReads

(* More behaviour never looks better: an observation that shows strictly     *)
(* more than another never has a lower score or a milder verdict.            *)
MoreIsNeverBetter ==
  (Done /\ observation \in Growing /\ visited = Canonical(observation)) =>
    \A y \in Growing : Extended(observation, y) =>
      LET ry == Analyze(baseline, y, Canonical(y))
      IN  R.score <= ry.score /\ R.level <= ry.level
=============================================================================
