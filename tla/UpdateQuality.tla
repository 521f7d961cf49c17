---------------------------- MODULE UpdateQuality ----------------------------
(***************************************************************************)
(* update_quality.c: the server watches how often its host updates it and  *)
(* stops for good when that is too seldom.  Implements HostWatch.          *)
(***************************************************************************)
EXTENDS Integers

CONSTANTS
    TargetTime,             \* setup.targetTickTimeMs
    FailedTickThreshold,    \* the 60 of update_quality.c:54
    AverageThreshold,       \* the 50 of update_quality.c:55
    BatchSize,              \* the 10 of update_quality.c:17
    Deltas                  \* the times that can pass between two updates

ASSUME TargetTimeAssumption == TargetTime \in Nat
ASSUME TickThresholdsAssumption ==
    FailedTickThreshold \in Nat /\ AverageThreshold \in Nat
ASSUME BatchSizeAssumption == BatchSize \in Nat \ {0}
ASSUME DeltasAssumption == Deltas \subseteq Nat

NotSet == -1                \* no average yet

VARIABLES
    qualityState,
    deltaTickTimeFailedInARow,
    averageTickTimeFailedInARow,
    sampleCount,            \* measuredDeltaTimeMsStat: samples since the last
    sampleTotal,            \* average, their total,
    average,                \* and the last average
    slowAverages            \* history: slow averages in a row

statVars == <<sampleCount, sampleTotal, average>>
qualityVars == <<qualityState, deltaTickTimeFailedInARow, averageTickTimeFailedInARow,
                 statVars, slowAverages>>

IsWorking == qualityState = "Working"

\* statsIntAdd of the stats library: every BatchSize samples an average
StatsIntAdd(delta) ==
    IF sampleCount + 1 < BatchSize
    THEN /\ sampleCount' = sampleCount + 1
         /\ sampleTotal' = sampleTotal + delta
         /\ average' = average
    ELSE /\ sampleCount' = 0
         /\ sampleTotal' = 0
         /\ average' = (sampleTotal + delta) \div BatchSize

\* Mutant: the count of updates under a slow average is never taken back.
CountAverageNeverResets ==
    IF average' > TargetTime
    THEN averageTickTimeFailedInARow + 1
    ELSE averageTickTimeFailedInARow

\* The last average is looked at again with every update, until the next.
CountAverage ==
    IF average' = NotSet THEN averageTickTimeFailedInARow
    ELSE IF average' > TargetTime THEN averageTickTimeFailedInARow + 1 ELSE 0

\* nimbleServerUpdateQualityTick on a working server, delta after the last
UpdateQualityTick(delta) ==
    /\ IsWorking
    /\ StatsIntAdd(delta)
    /\ deltaTickTimeFailedInARow' =
          IF delta > TargetTime THEN deltaTickTimeFailedInARow + 1 ELSE 0
    /\ averageTickTimeFailedInARow' = CountAverage
    /\ qualityState' =
          IF deltaTickTimeFailedInARow' > FailedTickThreshold THEN "FailedTickTime"
          ELSE IF averageTickTimeFailedInARow' > AverageThreshold THEN "FailedAverageTickTime"
          ELSE "Working"
    /\ slowAverages' = IF sampleCount' # 0 THEN slowAverages
                       ELSE IF average' > TargetTime THEN slowAverages + 1 ELSE 0

\* nimbleServerUpdateQualityReInit
UpdateQualityReInit ==
    /\ qualityState' = "Working"
    /\ deltaTickTimeFailedInARow' = 0 /\ averageTickTimeFailedInARow' = 0
    /\ sampleCount' = 0 /\ sampleTotal' = 0 /\ average' = NotSet
    /\ slowAverages' = 0

\* nimbleServerUpdateQualityInit
UpdateQualityInit ==
    /\ qualityState = "Working"
    /\ deltaTickTimeFailedInARow = 0 /\ averageTickTimeFailedInARow = 0
    /\ sampleCount = 0 /\ sampleTotal = 0 /\ average = NotSet
    /\ slowAverages = 0

QualityTypeOK ==
    /\ qualityState \in {"Working", "FailedTickTime", "FailedAverageTickTime"}
    /\ deltaTickTimeFailedInARow \in Nat /\ averageTickTimeFailedInARow \in Nat
    /\ sampleCount \in 0..(BatchSize - 1) /\ sampleTotal \in Nat
    /\ average \in Nat \cup {NotSet}
    /\ slowAverages \in Nat

Watch == INSTANCE HostWatch
         WITH TickLimit <- FailedTickThreshold, AverageLimit <- AverageThreshold,
              Batch <- BatchSize,
              status <- IF IsWorking THEN "working" ELSE "stopped",
              late <- deltaTickTimeFailedInARow,
              slow <- slowAverages, since <- sampleCount

\* The host is stopped exactly when HostWatch says so: the counter that is
\* raised once for every update under a slow average, and the one for late
\* updates, are reset when they should be, and a stopped server stays
\* stopped until it gets a new game (update_quality.c:26-65).
ImplementsWatch == Watch!Spec
=============================================================================
