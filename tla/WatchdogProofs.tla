--------------------------- MODULE WatchdogProofs ---------------------------
(***************************************************************************)
(* Proofs about Watchdog, for any samples, thresholds, number of checks a  *)
(* kill takes and workload.                                                *)
(***************************************************************************)
EXTENDS Watchdog, FiniteSetTheorems, TLAPS

LEMMA ConstantsType ==
    /\ Need \in Nat /\ Need > 0 /\ TotalReqs \in Nat /\ MaxTime \in Nat
    /\ \A f \in Factor : Thresholds[f].critical \in Nat
BY WatchdogAssumption, SaturationAssumption

LEMMA TimesOne == \A n \in Nat : n * 1 = n
OBVIOUS

LEMMA FactorsDomain == DOMAIN Factors = 1 .. 7
BY DEF Factors

(* The reason of a kill is one of the factors it was chosen from. *)
LEMMA FirstIsOne == ASSUME NEW factors PROVE First(factors) \in (factors \cap Factor) \cup {NoReason}
<1> DEFINE at == {k \in DOMAIN Factors : Factors[k] \in factors}
<1> SUFFICES ASSUME at # {} PROVE First(factors) \in factors \cap Factor
  BY DEF First
<1>1. DOMAIN Factors = 1 .. 7
  BY FactorsDomain
<1>2. \E k \in at : \A j \in at : k <= j
  <2>1. PICK m \in at : TRUE
    OBVIOUS
  <2>2. \A k \in at : k \in {1, 2, 3, 4, 5, 6, 7}
    BY <1>1
  <2> HIDE DEF at
  <2> QED
    BY <2>1, <2>2
<1>3. (CHOOSE k \in at : \A j \in at : k <= j) \in at
  BY <1>2
<1> QED
  BY <1>3 DEF First, Factor

(* Only an exhausted generator is ever judged critical for a resource. *)
LEMMA CriticalMeansExhausted ==
    ASSUME NEW util, NEW done, current \in Snapshot,
           NEW reasons, reasons = criticalResourceSignals(evaluateLiveSaturation(util, done))
    PROVE  reasons \in Reason /\ (reasons # NoReason => Exhausted)
<1> DEFINE stats == [current EXCEPT !.gcPause = gcDelta]
           pace == [targetRPS |-> IF now < Warmup THEN 0 ELSE Rate,
                    completed |-> done, workerUtil |-> util]
           measured == Measure(stats, pace, now, current.memoryMB)
           signals == evaluateLiveSaturation(util, done)
           factors == {f \in DOMAIN signals : signals[f] = CRITICAL /\ f \in resourceSignalFactors}
<1>1. reasons \in factors \cup {NoReason}
  BY FirstIsOne DEF criticalResourceSignals
<1>2. factors \subseteq resourceSignalFactors
  OBVIOUS
<1>3. ASSUME NEW f \in factors PROVE Exhausted
  <2>1. f \in Factor /\ f \in resourceSignalFactors /\ f # "RPS Achievement"
    BY DEF evaluateLiveSaturation, CheckSaturation, resourceSignalFactors
  <2>2. Judged(f, stats, pace, now, current.memoryMB)
    BY DEF evaluateLiveSaturation, CheckSaturation
  <2>3. evaluateThreshold(measured[f].num, measured[f].den, Thresholds[f]) = CRITICAL
    BY <2>1 DEF evaluateLiveSaturation, CheckSaturation
  <2>4. measured[f].num >= Thresholds[f].critical * measured[f].den
    BY <2>3 DEF evaluateThreshold, CRITICAL, WARN, OK
  <2>5. /\ stats.cpu = current.cpu /\ stats.gcPause = gcDelta /\ stats.gcCycles = current.gcCycles
        /\ stats.goroutines = current.goroutines /\ stats.fds = current.fds
    BY DEF Snapshot
  <2> HIDE DEF factors, signals, stats, pace
  <2>6. CASE f = "CPU"
    <3>1. measured[f].num = stats.cpu /\ measured[f].den = 1
      BY <2>1, <2>6 DEF Measure
    <3>2. Thresholds[f].critical * 1 = Thresholds[f].critical
      BY <2>1, ConstantsType, TimesOne
    <3> QED
      BY <2>4, <2>5, <2>6, <3>1, <3>2 DEF Exhausted
  <2>7. CASE f = "Memory Growth"
    <3>1. measured[f].num = current.memoryMB * 60 /\ measured[f].den = now
      BY <2>1, <2>7 DEF Measure
    <3>2. now > 5 /\ current.memoryMB > 0
      BY <2>2, <2>7 DEF Judged
    <3> QED
      BY <2>4, <2>7, <3>1, <3>2 DEF Exhausted
  <2>8. CASE f = "GC Pause"
    <3>1. measured[f].num = stats.gcPause /\ measured[f].den = 1
      BY <2>1, <2>8 DEF Measure
    <3>2. Thresholds[f].critical * 1 = Thresholds[f].critical
      BY <2>1, ConstantsType, TimesOne
    <3>3. stats.gcCycles > 0
      BY <2>2, <2>8 DEF Judged
    <3> QED
      BY <2>4, <2>5, <2>8, <3>1, <3>2, <3>3 DEF Exhausted
  <2>9. CASE f = "Goroutines"
    <3>1. measured[f].num = stats.goroutines /\ measured[f].den = Concurrency
      BY <2>1, <2>9 DEF Measure
    <3> QED
      BY <2>4, <2>5, <2>9, <3>1 DEF Exhausted
  <2>10. CASE f = "File Descriptors"
    <3>1. measured[f].num = stats.fds * 100 /\ measured[f].den = MaxFDs
      BY <2>1, <2>10 DEF Measure
    <3>2. MaxFDs > 0
      BY <2>2, <2>10 DEF Judged
    <3> QED
      BY <2>4, <2>5, <2>10, <3>1, <3>2 DEF Exhausted
  <2> QED
    BY <2>1, <2>6, <2>7, <2>8, <2>9, <2>10 DEF resourceSignalFactors
<1> QED
  BY <1>1, <1>2, <1>3 DEF Reason

-----------------------------------------------------------------------------
(* Types.                                                                  *)

LEMMA SampleType ==
    ASSUME NEW l \in Load, current \in Snapshot
    PROVE  NextSample(l) \in Snapshot /\ NextSample(l).id = current.id + 1
<1>1. /\ l.cpu \in Nat /\ l.memoryMB \in Nat /\ l.gcPause \in Nat
      /\ l.goroutines \in Nat /\ l.fds \in Nat
  BY WatchdogAssumption
<1>2. current.id \in Nat /\ current.gcPause \in Nat /\ current.gcCycles \in Nat
  BY DEF Snapshot
<1> QED
  BY <1>1, <1>2 DEF NextSample, Snapshot

LEMMA TypeInit == Init => TypeOK
<1> SUFFICES ASSUME Init PROVE TypeOK
  OBVIOUS
<1>1. current \in Snapshot
  BY DEF Init, Idle, Snapshot
<1>2. hot = {} /\ report.kill = NoReason /\ report.level = OK
  BY DEF Init, NoReport
<1>3. now \in 0 .. MaxTime /\ streak \in 0 .. Need /\ prev \in Nat \cup {NoPrev}
  BY ConstantsType DEF Init
<1>4. {reason, killEvent, inStats, report.kill} \subseteq Reason /\ report.level \in Severity
  BY <1>2 DEF Init, Reason, Severity
<1> QED
  BY <1>1, <1>2, <1>3, <1>4 DEF Init, TypeOK

(* An unfinished streak is shorter than Need. *)
StreakInv == dpc = "select" => streak < Need

LEMMA LevelType == ASSUME NEW signals PROVE Level(signals) \in Severity
BY DEF Level, Severity, OK, WARN, CRITICAL

(* A check that finds a reason finds an exhausted generator. *)
LEMMA CheckType ==
    ASSUME TypeOK, StreakInv, NEW util, NEW done, CheckHealth(util, done)
    PROVE  /\ TypeOK' /\ StreakInv'
           /\ reason' # NoReason => Exhausted
           /\ streak' = IF reason' # NoReason THEN streak + 1 ELSE 0
           /\ dpc' = "store" => reason' # NoReason
<1> USE ConstantsType DEF TypeOK, StreakInv
<1>1. reason' \in Reason /\ (reason' # NoReason => Exhausted)
  BY CriticalMeansExhausted DEF CheckHealth
<1>2. streak' = IF reason' # NoReason THEN streak + 1 ELSE 0
  BY DEF CheckHealth
<1>3. /\ streak' \in 0 .. Need /\ (dpc' = "select" => streak' < Need)
      /\ dpc' = "store" => reason' # NoReason
      /\ dpc' \in {"select", "store"}
  BY <1>2 DEF CheckHealth
<1>4. current.id \in Nat /\ prev' \in Nat
  BY DEF CheckHealth, Snapshot
<1>6. hot' \subseteq 0 .. current.id
  <2>1. hot' = IF Exhausted THEN hot \cup {current.id} ELSE {}
    BY DEF CheckHealth
  <2>2. current.id \in 0 .. current.id
    BY <1>4
  <2> QED
    BY <2>1, <2>2
<1>5. UNCHANGED <<now, monitorVars, runVars, killEvent, aborted>> /\ checkDue' = FALSE
  BY DEF CheckHealth
<1> QED
  BY <1>1, <1>2, <1>3, <1>4, <1>5, <1>6 DEF monitorVars, runVars

LEMMA TypeStep == TypeOK /\ StreakInv /\ [Next]_vars => TypeOK' /\ StreakInv'
<1> SUFFICES ASSUME TypeOK, StreakInv, [Next]_vars PROVE TypeOK' /\ StreakInv'
  OBVIOUS
<1> USE ConstantsType
<1>1. CASE Engine
  <2>1. UNCHANGED <<now, monitorVars, watchdogVars, runVars>> /\ aborted' \in BOOLEAN
    BY <1>1 DEF Engine
  <2> QED
    BY <2>1 DEF TypeOK, StreakInv, monitorVars, watchdogVars, runVars
<1>2. CASE Tick
  BY <1>2 DEF Tick, runVars, TypeOK, StreakInv
<1>3. ASSUME NEW l \in Load, Sample(l) PROVE TypeOK' /\ StreakInv'
  <2>1. current' \in Snapshot /\ current'.id = current.id + 1 /\ current.id \in Nat
    BY <1>3, SampleType DEF Sample, TypeOK, Snapshot
  <2>2. hot' \subseteq 0 .. current'.id
    BY <1>3, <2>1 DEF Sample, TypeOK, watchdogVars
  <2> QED
    BY <1>3, <2>1, <2>2 DEF Sample, TypeOK, StreakInv, watchdogVars, runVars
<1>4. CASE LeaveMonitor
  BY <1>4 DEF LeaveMonitor, TypeOK, StreakInv, watchdogVars, runVars
<1>5. ASSUME NEW util, NEW done, CheckHealth(util, done) PROVE TypeOK' /\ StreakInv'
  BY <1>5, CheckType
<1>6. CASE StoreKill
  BY <1>6 DEF StoreKill, TypeOK, StreakInv, monitorVars, runVars
<1>7. CASE CancelRun
  BY <1>7 DEF CancelRun, TypeOK, StreakInv, monitorVars, runVars
<1>8. CASE LeaveWatchdog
  BY <1>8 DEF LeaveWatchdog, TypeOK, StreakInv, monitorVars, runVars
<1>9. CASE EndCollect \/ CloseDone \/ StopMonitor
  BY <1>9 DEF EndCollect, CloseDone, StopMonitor, TypeOK, StreakInv, monitorVars, watchdogVars
<1>10. ASSUME NEW l \in Load, LastSample(l) PROVE TypeOK' /\ StreakInv'
  <2>1. current' \in Snapshot /\ current'.id = current.id + 1 /\ current.id \in Nat
    BY <1>10, SampleType DEF LastSample, TypeOK, Snapshot
  <2>2. hot' \subseteq 0 .. current'.id
    BY <1>10, <2>1 DEF LastSample, TypeOK, watchdogVars
  <2> QED
    BY <1>10, <2>1, <2>2 DEF LastSample, TypeOK, StreakInv, watchdogVars
<1>11. CASE WriteStats
  BY <1>11 DEF WriteStats, TypeOK, StreakInv, monitorVars, watchdogVars
<1>12. ASSUME NEW util, buildHealthReport(util) PROVE TypeOK' /\ StreakInv'
  <2>1. report'.kill = killEvent /\ report'.level \in Severity
    BY <1>12, LevelType DEF buildHealthReport, Severity
  <2> QED
    BY <1>12, <2>1 DEF buildHealthReport, TypeOK, StreakInv, monitorVars, watchdogVars
<1>13. CASE UNCHANGED vars
  BY <1>13 DEF vars, monitorVars, watchdogVars, runVars, TypeOK, StreakInv
<1> QED
  BY <1>1, <1>2, <1>3, <1>4, <1>5, <1>6, <1>7, <1>8, <1>9, <1>10, <1>11, <1>12, <1>13
     DEF Next, Monitor, Watchdog, Run, Rest

(* The types of the monitor, the watchdog and the tail of Run. *)
THEOREM TypeCorrect == Spec => [](TypeOK /\ StreakInv)
<1>1. Init => StreakInv
  BY ConstantsType DEF Init, StreakInv
<1> QED
  BY <1>1, TypeInit, TypeStep, PTL DEF Spec

-----------------------------------------------------------------------------
(* The snapshot that is reported is the last one.                          *)

(* Run comes to its tail in order, and after Stop nothing samples. *)
OrderInv ==
    /\ rpc # "collect" => collected
    /\ watchDone <=> rpc \notin {"collect", "closeDone"}
    /\ monitorStop <=> rpc \notin {"collect", "closeDone", "stopMonitor"}
    /\ mpc = "done" => monitorStop
    /\ rpc \in {"stats", "health", "returned"} => mpc = "done"

LEMMA OrderStep == OrderInv /\ [Next]_vars => OrderInv'
<1> SUFFICES ASSUME OrderInv, [Next]_vars PROVE OrderInv'
  OBVIOUS
<1> USE DEF OrderInv, monitorVars, watchdogVars, runVars, engineVars
<1>1. CASE Engine
  <2>1. collected => collected'
    BY <1>1 DEF Engine, E!Dispatch, E!Begin, E!Return, E!Count, E!Lose, E!Cancel
  <2> QED
    BY <1>1, <2>1 DEF Engine
<1>2. CASE Tick
  BY <1>2 DEF Tick
<1>3. ASSUME NEW l \in Load, Sample(l) PROVE OrderInv'
  BY <1>3 DEF Sample
<1>4. CASE LeaveMonitor
  BY <1>4 DEF LeaveMonitor
<1>5. ASSUME NEW util, NEW done, CheckHealth(util, done) PROVE OrderInv'
  BY <1>5 DEF CheckHealth
<1>6. CASE StoreKill \/ CancelRun \/ LeaveWatchdog
  BY <1>6 DEF StoreKill, CancelRun, LeaveWatchdog, E!Cancel
<1>7. CASE EndCollect \/ CloseDone \/ StopMonitor \/ WriteStats
  BY <1>7 DEF EndCollect, CloseDone, StopMonitor, WriteStats
<1>8. ASSUME NEW l \in Load, LastSample(l) PROVE OrderInv'
  BY <1>8 DEF LastSample
<1>9. ASSUME NEW util, buildHealthReport(util) PROVE OrderInv'
  BY <1>9 DEF buildHealthReport
<1>10. CASE UNCHANGED vars
  BY <1>10 DEF vars
<1> QED
  BY <1>1, <1>2, <1>3, <1>4, <1>5, <1>6, <1>7, <1>8, <1>9, <1>10
     DEF Next, Monitor, Watchdog, Run, Rest

LEMMA OrderInit == Init => OrderInv
BY DEF Init, OrderInv

(* After Stop has returned nothing writes the snapshot that Stats and the  *)
(* health report are made of (monitor.go:62-68).                           *)
THEOREM ReportsLastSample == Spec => SnapshotIsFinal
<1>1. OrderInv /\ [Next]_vars =>
          [(rpc \in {"stats", "health", "returned"}) => UNCHANGED current]_vars
  <2> SUFFICES ASSUME OrderInv, [Next]_vars, rpc \in {"stats", "health", "returned"}
               PROVE  UNCHANGED current
    OBVIOUS
  <2> QED
    BY DEF OrderInv, Next, Engine, Tick, Monitor, Sample, LeaveMonitor, Watchdog, CheckHealth,
           StoreKill, CancelRun, LeaveWatchdog, Run, EndCollect, CloseDone, StopMonitor,
           LastSample, WriteStats, buildHealthReport, Rest, vars, monitorVars
<1> QED
  BY <1>1, OrderInit, OrderStep, PTL DEF Spec, SnapshotIsFinal

-----------------------------------------------------------------------------
(* An unfinished run says so.                                              *)

EngineInv ==
    /\ sent \in 0 .. TotalReqs /\ begun \in 0 .. sent
    /\ counted \subseteq 1 .. begun /\ lost \subseteq 1 .. begun
    /\ lost # {} => cancelled
    /\ collected => cancelled \/ counted = 1 .. TotalReqs

LEMMA EngineStep == EngineInv /\ [Next]_vars => EngineInv'
<1> SUFFICES ASSUME EngineInv, [Next]_vars PROVE EngineInv'
  OBVIOUS
<1> USE ConstantsType DEF EngineInv
<1>1. CASE Engine
  <2>1. CASE E!Dispatch
    BY <2>1 DEF E!Dispatch, Timed
  <2>2. CASE E!Begin
    BY <2>2 DEF E!Begin
  <2>3. ASSUME NEW r \in E!Running, E!Count(r) PROVE EngineInv'
    BY <2>3 DEF E!Count, E!Running
  <2>4. ASSUME NEW r \in E!Running, E!Lose(r) PROVE EngineInv'
    BY <2>4 DEF E!Lose, E!Running
  <2>5. CASE E!Cancel
    BY <2>5 DEF E!Cancel
  <2>6. CASE E!Return
    BY <2>6 DEF E!Return, E!Running, Timed
  <2> QED
    BY <1>1, <2>1, <2>2, <2>3, <2>4, <2>5, <2>6 DEF Engine
<1>2. CASE CancelRun
  BY <1>2 DEF CancelRun, E!Cancel
<1>3. CASE UNCHANGED engineVars
  BY <1>3 DEF engineVars
<1> QED
  BY <1>1, <1>2, <1>3 DEF Next, Tick, Monitor, Sample, LeaveMonitor, Watchdog, CheckHealth,
     StoreKill, LeaveWatchdog, Run, EndCollect, CloseDone, StopMonitor, LastSample, WriteStats,
     buildHealthReport, Rest, vars

(* The kill is stored before the run is cancelled, and stored once. *)
KillInv ==
    /\ dpc = "store" => reason # NoReason
    /\ dpc = "cancel" => killEvent # NoReason
    /\ killEvent # NoReason => dpc \in {"cancel", "gone"}
    /\ cancelled /\ ~ aborted => killEvent # NoReason
    /\ rpc \in {"health", "returned"} =>
          /\ inStats # NoReason => inStats = killEvent
          /\ counted # 1 .. TotalReqs /\ ~ aborted => inStats # NoReason
    /\ rpc = "returned" /\ inStats # NoReason => report.kill = inStats /\ report.level = CRITICAL

LEMMA KillInit == Init => KillInv
BY DEF Init, KillInv, E!Init

LEMMA KillStep ==
    TypeOK /\ StreakInv /\ OrderInv /\ EngineInv /\ KillInv /\ [Next]_vars => KillInv'
<1> SUFFICES ASSUME TypeOK, StreakInv, OrderInv, EngineInv, KillInv, [Next]_vars PROVE KillInv'
  OBVIOUS
<1> USE DEF KillInv, monitorVars, watchdogVars, runVars, engineVars
<1>1. CASE Engine
  <2>1. UNCHANGED <<dpc, reason, killEvent, rpc, inStats, report>>
    BY <1>1 DEF Engine
  <2>2. /\ cancelled' /\ ~ aborted' => cancelled /\ ~ aborted
        /\ ~ aborted' => ~ aborted
    BY <1>1 DEF Engine
  <2>3. collected => counted' = counted
    BY <1>1 DEF Engine, E!Dispatch, E!Begin, E!Return, E!Count, E!Lose, E!Cancel
  <2>4. rpc \in {"health", "returned"} => collected
    BY DEF OrderInv
  <2> QED
    BY <2>1, <2>2, <2>3, <2>4
<1>2. CASE Tick
  BY <1>2 DEF Tick
<1>3. ASSUME NEW l \in Load, Sample(l) PROVE KillInv'
  BY <1>3 DEF Sample
<1>4. CASE LeaveMonitor
  BY <1>4 DEF LeaveMonitor
<1>5. ASSUME NEW util, NEW done, CheckHealth(util, done) PROVE KillInv'
  <2>1. dpc' = "store" => reason' # NoReason
    BY <1>5, CheckType
  <2>2. /\ dpc = "select" /\ dpc' \in {"select", "store"}
        /\ UNCHANGED <<engineVars, killEvent, rpc, inStats, report, aborted>>
    BY <1>5 DEF CheckHealth
  <2> QED
    BY <2>1, <2>2
<1>6. CASE StoreKill
  BY <1>6 DEF StoreKill
<1>7. CASE CancelRun
  BY <1>7 DEF CancelRun, E!Cancel
<1>8. CASE LeaveWatchdog
  BY <1>8 DEF LeaveWatchdog
<1>9. CASE EndCollect \/ CloseDone \/ StopMonitor
  BY <1>9 DEF EndCollect, CloseDone, StopMonitor
<1>10. ASSUME NEW l \in Load, LastSample(l) PROVE KillInv'
  BY <1>10 DEF LastSample
<1>11. CASE WriteStats
  <2>1. rpc = "stats" /\ rpc' = "health" /\ inStats' = killEvent
        /\ UNCHANGED <<engineVars, dpc, reason, killEvent, aborted, report>>
    BY <1>11 DEF WriteStats
  <2>2. counted # 1 .. TotalReqs => cancelled
    BY <2>1 DEF OrderInv, EngineInv
  <2> QED
    BY <2>1, <2>2
<1>12. ASSUME NEW util, buildHealthReport(util) PROVE KillInv'
  <2>1. /\ rpc = "health" /\ rpc' = "returned" /\ report'.kill = killEvent
        /\ killEvent # NoReason => report'.level = CRITICAL
        /\ UNCHANGED <<engineVars, dpc, reason, killEvent, aborted, inStats>>
    BY <1>12 DEF buildHealthReport
  <2> QED
    BY <2>1
<1>13. CASE UNCHANGED vars
  BY <1>13 DEF vars
<1> QED
  BY <1>1, <1>2, <1>3, <1>4, <1>5, <1>6, <1>7, <1>8, <1>9, <1>10, <1>11, <1>12, <1>13
     DEF Next, Monitor, Watchdog, Run, Rest

(* A run that did not finish and was not aborted for its failures carries  *)
(* one and the same reason in Stats and in the health report, and its      *)
(* verdict is CRITICAL (storm.go:176-246).                                 *)
THEOREM UnfinishedRunIsExplained == Spec => []UnfinishedRunSaysSo
<1>1. Init => EngineInv
  BY ConstantsType DEF Init, E!Init, EngineInv
<1>2. Cardinality(1 .. TotalReqs) = TotalReqs
  <2>1. Cardinality(1 .. TotalReqs) = IF 1 > TotalReqs THEN 0 ELSE TotalReqs - 1 + 1
    BY ConstantsType, FS_Interval
  <2> QED
    BY <2>1, ConstantsType
<1>3. KillInv => UnfinishedRunSaysSo
  BY <1>2, ConstantsType DEF KillInv, UnfinishedRunSaysSo
<1> QED
  BY <1>1, <1>3, KillInit, KillStep, OrderInit, OrderStep, EngineStep, TypeCorrect, PTL DEF Spec

-----------------------------------------------------------------------------
(* A kill is sustained.                                                    *)

(* The sample of the last check may be read by the next one: the monitor   *)
(* does not sample in between.                                             *)
Reread == current.id \in hot /\ ~ (sampleDue /\ ~ checkDue)

(* Every check of the streak found an exhausted generator, and a sample is *)
(* read by two checks at most: by the last check of a second and, before   *)
(* the monitor's next sample, by the first of the second after.            *)
HotInv == dpc # "gone" =>
    /\ IsFiniteSet(hot)
    /\ 2 * Cardinality(hot) >= streak + (IF Reread THEN 1 ELSE 0)
    /\ checkDue /\ ~ sampleDue => current.id \notin hot
    /\ dpc # "select" => streak >= Need

LEMMA HotInit == Init => HotInv
BY FS_EmptySet, ConstantsType DEF Init, HotInv, Reread

(* A new sample is in nobody's streak yet. *)
LEMMA NewSample ==
    ASSUME TypeOK, HotInv, dpc # "gone", hot' = hot, streak' = streak, dpc' = dpc,
           current'.id = current.id + 1
    PROVE  HotInv'
<1>1. current.id \in Nat /\ hot \subseteq 0 .. current.id
  BY DEF TypeOK, Snapshot
<1>2. current'.id \notin hot'
  BY <1>1
<1>3. Cardinality(hot) \in Nat /\ streak \in Nat
  BY FS_CardinalityType DEF HotInv, TypeOK
<1> QED
  BY <1>2, <1>3 DEF HotInv, Reread

LEMMA HotCheck ==
    ASSUME TypeOK, StreakInv, HotInv, NEW util, NEW done, CheckHealth(util, done)
    PROVE  HotInv'
<1> USE ConstantsType
<1>1. /\ dpc = "select" /\ checkDue /\ ~ checkDue' /\ UNCHANGED <<sampleDue, current>>
      /\ hot' = IF Exhausted THEN hot \cup {current.id} ELSE {}
      /\ dpc' = IF streak' >= Need THEN "store" ELSE "select"
  BY DEF CheckHealth, monitorVars
<1>2. /\ reason' # NoReason => Exhausted
      /\ streak' = IF reason' # NoReason THEN streak + 1 ELSE 0
  BY CheckType
<1>3. IsFiniteSet(hot) /\ Cardinality(hot) \in Nat /\ streak \in Nat
  BY <1>1, FS_CardinalityType DEF HotInv, TypeOK
<1>4. CASE ~ Exhausted
  <2>1. hot' = {} /\ streak' = 0 /\ ~ Reread'
    BY <1>1, <1>2, <1>4 DEF Reread
  <2>2. IsFiniteSet(hot') /\ Cardinality(hot') = 0
    BY <2>1, FS_EmptySet
  <2> QED
    BY <1>1, <2>1, <2>2 DEF HotInv
<1>5. CASE Exhausted /\ current.id \in hot
  <2>1. hot' = hot
    BY <1>1, <1>5
  <2>2. Reread /\ sampleDue
    BY <1>1, <1>5 DEF Reread, HotInv
  <2>3. 2 * Cardinality(hot) >= streak + 1
    BY <1>1, <2>2 DEF HotInv
  <2>4. ~ Reread' /\ streak' \in Nat /\ streak' <= streak + 1
    BY <1>1, <1>2, <1>3, <2>2 DEF Reread
  <2>5. 2 * Cardinality(hot') >= streak'
    BY <1>3, <2>1, <2>3, <2>4
  <2>6. IsFiniteSet(hot') /\ (dpc' # "select" => streak' >= Need)
    BY <1>1, <1>3, <2>1
  <2>7. Cardinality(hot') \in Nat
    BY <1>3, <2>1
  <2> QED
    BY <1>1, <2>4, <2>5, <2>6, <2>7 DEF HotInv
<1>6. CASE Exhausted /\ current.id \notin hot
  <2>1. hot' = hot \cup {current.id}
    BY <1>1, <1>6
  <2>2. IsFiniteSet(hot') /\ Cardinality(hot') = Cardinality(hot) + 1
    BY <1>3, <1>6, <2>1, FS_AddElement
  <2>3. 2 * Cardinality(hot) >= streak
    BY <1>1, <1>3 DEF HotInv
  <2>4. streak' \in Nat /\ streak' <= streak + 1
    BY <1>2, <1>3
  <2>5. 2 * Cardinality(hot') >= streak' + 1
    BY <1>3, <2>2, <2>3, <2>4
  <2>6. Cardinality(hot') \in Nat /\ 2 * Cardinality(hot') >= streak'
    BY <1>3, <2>2, <2>4, <2>5
  <2> QED
    BY <1>1, <2>2, <2>4, <2>5, <2>6 DEF HotInv
<1> QED
  BY <1>4, <1>5, <1>6

LEMMA HotStep == TypeOK /\ StreakInv /\ OrderInv /\ HotInv /\ [Next]_vars => HotInv'
<1> SUFFICES ASSUME TypeOK, StreakInv, OrderInv, HotInv, [Next]_vars, dpc' # "gone" PROVE HotInv'
  BY DEF HotInv
<1> USE DEF monitorVars, watchdogVars, runVars
<1>0. dpc # "gone"
  BY DEF Next, Engine, Tick, Monitor, Sample, LeaveMonitor, Watchdog, CheckHealth, StoreKill,
         CancelRun, LeaveWatchdog, Run, EndCollect, CloseDone, StopMonitor, LastSample,
         WriteStats, buildHealthReport, Rest, vars
<1>1. CASE UNCHANGED <<hot, streak, dpc, current, sampleDue, checkDue>>
  BY <1>1 DEF HotInv, Reread
<1>2. CASE Tick
  <2>1. /\ UNCHANGED <<hot, streak, dpc, current>> /\ sampleDue' /\ checkDue'
        /\ dpc = "select" /\ ~ checkDue /\ ~ watchDone
    BY <1>0, <1>2 DEF Tick, Quiet
  <2>2. ~ sampleDue
    BY <1>2, <2>1 DEF Tick, Quiet, OrderInv
  <2>3. Reread' => Reread
    BY <2>1, <2>2 DEF Reread
  <2>4. Cardinality(hot) \in Nat /\ streak \in Nat
    BY <1>0, FS_CardinalityType DEF HotInv, TypeOK
  <2> QED
    BY <1>0, <2>1, <2>3, <2>4 DEF HotInv
<1>3. ASSUME NEW l \in Load, Sample(l) \/ LastSample(l) PROVE HotInv'
  <2>1. UNCHANGED <<hot, streak, dpc>> /\ current'.id = current.id + 1
    BY <1>3, SampleType DEF Sample, LastSample, TypeOK
  <2> QED
    BY <1>0, <2>1, NewSample
<1>4. ASSUME NEW util, NEW done, CheckHealth(util, done) PROVE HotInv'
  BY <1>4, HotCheck
<1>5. CASE StoreKill
  BY <1>5 DEF StoreKill, HotInv, Reread
<1>6. CASE CancelRun \/ LeaveWatchdog
  BY <1>6 DEF CancelRun, LeaveWatchdog
<1>7. CASE Engine \/ LeaveMonitor \/ EndCollect \/ CloseDone \/ StopMonitor \/ WriteStats
  BY <1>1, <1>7 DEF Engine, LeaveMonitor, EndCollect, CloseDone, StopMonitor, WriteStats
<1>8. ASSUME NEW util, buildHealthReport(util) PROVE HotInv'
  BY <1>1, <1>8 DEF buildHealthReport
<1>9. CASE UNCHANGED vars
  BY <1>1, <1>9 DEF vars
<1> QED
  BY <1>2, <1>3, <1>4, <1>5, <1>6, <1>7, <1>8, <1>9 DEF Next, Monitor, Watchdog, Run, Rest

(* A kill has Need checks in a row behind it that found the generator      *)
(* itself exhausted, in at least half as many samples, wherever in their   *)
(* second the monitor and the watchdog run (saturation_watch.go:8-16).     *)
THEOREM KillsAreSustained == Spec => []KillIsSustained
<1>1. TypeOK /\ HotInv => KillIsSustained
  <2> SUFFICES ASSUME TypeOK, HotInv, dpc \in {"store", "cancel"}
               PROVE  2 * Cardinality(hot) >= Need
    BY DEF KillIsSustained
  <2>1. Cardinality(hot) \in Nat /\ streak \in Nat /\ Need \in Nat
    BY ConstantsType, FS_CardinalityType DEF HotInv, TypeOK
  <2>2. 2 * Cardinality(hot) >= streak /\ streak >= Need
    BY <2>1 DEF HotInv
  <2> QED
    BY <2>1, <2>2
<1> QED
  BY <1>1, HotInit, HotStep, OrderInit, OrderStep, TypeCorrect, PTL DEF Spec
=============================================================================
