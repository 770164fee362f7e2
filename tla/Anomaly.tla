------------------------------- MODULE Anomaly -------------------------------
(***************************************************************************)
(* The anomaly predictor: the risk of a backend from its checkpoints.      *)
(* Rates are whole percents and durations whole units per file, and means  *)
(* are compared by their sums, where the code computes with doubles.       *)
(***************************************************************************)
EXTENDS ServerClock, Integers, FiniteSets, FiniteSetsExt, SequencesExt

CONSTANTS CheckpointKinds,     \* checkpoints: files, errors, duration, passed
          MaxCheckpoints,      \* bound on the checkpoints of a backend
          DurationMedium,      \* thresholds, in percent
          DurationHigh,
          ErrorMedium,
          ErrorHigh,
          CriticalFailures     \* failures in a row that are critical

ASSUME AnomalyAssumption ==
    /\ CheckpointKinds \subseteq
           [files : Nat, errors : Nat, duration : Nat, passed : BOOLEAN]
    /\ MaxCheckpoints \in Nat
    /\ DurationMedium \in Nat /\ DurationHigh \in Nat
    /\ ErrorMedium \in Nat /\ ErrorHigh \in Nat
    /\ CriticalFailures \in Nat \ {0}

VARIABLES checkpoints, \* the records handed to assess, oldest first
          assessment   \* the last assessment: its level and its factors

anomalyVars == <<checkpoints, assessment>>

\* Risk levels: 0 low, 1 medium, 2 high, 3 critical.
AnomalyInit ==
    /\ checkpoints = <<>>
    /\ assessment = Nothing

ErrorRate(r) == IF r.files = 0 THEN 0 ELSE (100 * r.errors) \div r.files
DurationPerFile(r) == IF r.files = 0 THEN 0 ELSE r.duration \div r.files

TotalDuration(records) == FoldLeft(LAMBDA sum, r : sum + DurationPerFile(r), 0, records)
TotalErrors(records) == FoldLeft(LAMBDA sum, r : sum + ErrorRate(r), 0, records)

\* The trend compares the older half of all records with the newer.
Older(records) == SubSeq(records, 1, Len(records) \div 2)
Newer(records) == SubSeq(records, Len(records) \div 2 + 1, Len(records))

\* Whether the mean duration grew by more than so many percent.
GrewBy(records, percent) ==
    LET old == TotalDuration(Older(records)) * Len(Newer(records))
        new == TotalDuration(Newer(records)) * Len(Older(records))
    IN  old > 0 /\ 100 * (new - old) > percent * old

ErrorsAbove(records, percent) ==
    TotalErrors(Newer(records)) > percent * Len(Newer(records))

\* Failed checkpoints at the end of the list.
ConsecutiveFailures(records) ==
    Max({n \in 0..Len(records) :
            \A i \in (Len(records) - n + 1)..Len(records) : ~records[i].passed})

DurationRisk(records) ==
    IF GrewBy(records, DurationHigh) THEN 2
    ELSE IF GrewBy(records, DurationMedium) THEN 1 ELSE 0

ErrorRisk(records) ==
    IF ErrorsAbove(records, ErrorHigh) THEN 2
    ELSE IF ErrorsAbove(records, ErrorMedium) THEN 1 ELSE 0

FailureRisk(records) ==
    IF ConsecutiveFailures(records) >= CriticalFailures THEN 3
    ELSE IF ConsecutiveFailures(records) > 0 THEN 1 ELSE 0

\* Mutant: errors are judged over all records.
RiskOfAllTime(records) ==
    Max({DurationRisk(records), FailureRisk(records),
         IF TotalErrors(records) > ErrorHigh * Len(records) THEN 2
         ELSE IF TotalErrors(records) > ErrorMedium * Len(records) THEN 1 ELSE 0})

\* The worst factor decides.
Risk(records) ==
    IF records = <<>> THEN 0
    ELSE Max({DurationRisk(records), ErrorRisk(records), FailureRisk(records)})

RecordCheckpoint(r) ==
    /\ Len(checkpoints) < MaxCheckpoints
    /\ checkpoints' = Append(checkpoints, r)
    /\ UNCHANGED <<clockVars, assessment>>

Assess ==
    /\ assessment' = [level |-> Risk(checkpoints),
                      failures |-> ConsecutiveFailures(checkpoints)]
    /\ UNCHANGED <<clockVars, checkpoints>>

AnomalyNext ==
    \/ \E r \in CheckpointKinds : RecordCheckpoint(r)
    \/ Assess

AnomalySpec == ClockInit /\ AnomalyInit /\ [][AnomalyNext]_<<clockVars, anomalyVars>>

-----------------------------------------------------------------------------
(* Properties *)

\* A clean checkpoint, as fast as the fastest so far.
CleanAfter(records) ==
    LET fastest == Min({DurationPerFile(records[i]) : i \in DOMAIN records})
    IN  [files |-> 1, errors |-> 0, duration |-> fastest, passed |-> TRUE]

\* A backend recovers: whatever happened before, after as many clean and fast
\* checkpoints as it had, the risk is low again; no window has to be reset.
BackendRecovers ==
    \A n \in 1..Len(checkpoints) :
        LET before == SubSeq(checkpoints, 1, n)
        IN  Risk(before \o [i \in 1..n |-> CleanAfter(before)]) = 0

=============================================================================
