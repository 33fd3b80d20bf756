----------------------------- MODULE Saturation -----------------------------
(***************************************************************************)
(* The verdict on the generator's health (pkg/storm/saturation.go): seven  *)
(* factors, each measured against two limits.  A measurement is a fraction *)
(* num / den compared without dividing; a ratio is in percent, a time in   *)
(* seconds, a pause in milliseconds.  Only resource factors may end a run. *)
(***************************************************************************)
EXTENDS Integers, Sequences

CONSTANTS
    Thresholds,     \* Thresholds: factor -> [warn, critical]
    Concurrency,    \* Config.Concurrency
    Rate,           \* Config.Rate; 0 without --rate
    MaxFDs          \* GetMaxFDs(); 0 when unknown

OK == 0
WARN == 1
CRITICAL == 2
Severity == {OK, WARN, CRITICAL}

(* In the order in which they are judged. *)
Factors == <<"CPU", "Memory Growth", "GC Pause", "Goroutines", "File Descriptors",
             "RPS Achievement", "Worker Utilization">>
Factor == {Factors[k] : k \in DOMAIN Factors}
resourceSignalFactors == {"CPU", "Memory Growth", "GC Pause", "Goroutines", "File Descriptors"}

ASSUME SaturationAssumption ==
    /\ DOMAIN Thresholds = Factor
    /\ \A f \in DOMAIN Thresholds : Thresholds[f].warn \in Nat /\ Thresholds[f].critical \in Nat
    /\ Concurrency \in Nat \ {0} /\ Rate \in Nat /\ MaxFDs \in Nat

DefaultThresholds == [f \in Factor |->
    CASE f = "CPU"                -> [warn |-> 85, critical |-> 95]
      [] f = "Memory Growth"      -> [warn |-> 100, critical |-> 500]
      [] f = "GC Pause"           -> [warn |-> 100, critical |-> 500]
      [] f = "Goroutines"         -> [warn |-> 10, critical |-> 20]
      [] f = "File Descriptors"   -> [warn |-> 80, critical |-> 95]
      [] f = "RPS Achievement"    -> [warn |-> 90, critical |-> 70]
      [] f = "Worker Utilization" -> [warn |-> 95, critical |-> 99]]

evaluateThreshold(num, den, limit) ==
    IF num >= limit.critical * den THEN CRITICAL
    ELSE IF num >= limit.warn * den THEN WARN ELSE OK

\* For the one factor of which less is worse.
evaluateThresholdInverse(num, den, limit) ==
    IF num <= limit.critical * den THEN CRITICAL
    ELSE IF num <= limit.warn * den THEN WARN ELSE OK

(* What each factor measures.  A stats has the fields cpu, memoryMB, gc    *)
(* (cycles seen, pause in ms), goroutines and fds; a pace has targetRPS,   *)
(* completed and workerUtil; peakMB is the peak memory the caller knows of.*)
Measure(stats, pace, elapsed, peakMB) == [f \in Factor |->
    CASE f = "CPU"                -> [num |-> stats.cpu, den |-> 1]
      [] f = "Memory Growth"      -> [num |-> peakMB * 60, den |-> elapsed]
      [] f = "GC Pause"           -> [num |-> stats.gcPause, den |-> 1]
      [] f = "Goroutines"         -> [num |-> stats.goroutines, den |-> Concurrency]
      [] f = "File Descriptors"   -> [num |-> stats.fds * 100, den |-> MaxFDs]
      [] f = "RPS Achievement"    -> [num |-> pace.completed * 100, den |-> pace.targetRPS * elapsed]
      [] f = "Worker Utilization" -> [num |-> pace.workerUtil, den |-> 1]]

(* Which factors are judged at all. *)
Judged(f, stats, pace, elapsed, peakMB) ==
    /\ f = "Memory Growth" => elapsed > 5 /\ peakMB > 0
    /\ f = "GC Pause" => stats.gcCycles > 0
    /\ f = "File Descriptors" => MaxFDs > 0
    /\ f = "RPS Achievement" => pace.targetRPS > 0

(* The Signals of a Diagnosis: the severity of every factor judged.        *)
CheckSaturation(stats, pace, elapsed, peakMB) ==
    LET measured == Measure(stats, pace, elapsed, peakMB)
    IN  [f \in {g \in Factor : Judged(g, stats, pace, elapsed, peakMB)} |->
            IF f = "RPS Achievement"
            THEN evaluateThresholdInverse(measured[f].num, measured[f].den, Thresholds[f])
            ELSE evaluateThreshold(measured[f].num, measured[f].den, Thresholds[f])]

(* Diagnosis.Level: the worst severity of all signals. *)
Level(signals) ==
    LET seen == {signals[f] : f \in DOMAIN signals}
    IN  IF CRITICAL \in seen THEN CRITICAL ELSE IF WARN \in seen THEN WARN ELSE OK

NoReason == ""

(* The first of a set of factors, or NoReason. *)
First(factors) ==
    LET at == {k \in DOMAIN Factors : Factors[k] \in factors}
    IN  IF at = {} THEN NoReason ELSE Factors[CHOOSE k \in at : \A j \in at : k <= j]

\* Fault: any critical signal, whatever its factor.
criticalSignals(signals) == First({f \in DOMAIN signals : signals[f] = CRITICAL})

(* The first critical resource factor, or NoReason. *)
criticalResourceSignals(signals) ==
    First({f \in DOMAIN signals : signals[f] = CRITICAL /\ f \in resourceSignalFactors})
=============================================================================
