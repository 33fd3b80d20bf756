------------------------------ MODULE Watchdog ------------------------------
(***************************************************************************)
(* A run with --saturation-kill: the monitor that samples the generator,   *)
(* the watchdog that may cancel the run, and the tail of LoadTester.Run    *)
(* that stops both and writes Stats and the health report.  The engine is  *)
(* LoadRun, which Pipeline implements; LoadRun's return is here the end of *)
(* collectResults.  The monitor and the watchdog tick once a second, and   *)
(* within a second each of them and Run do what they can do, in any order: *)
(* the scheduling the constants of the watchdog are chosen for.            *)
(***************************************************************************)
EXTENDS Saturation, FiniteSets

CONSTANTS
    TotalReqs,      \* Config.TotalReqs
    Load,           \* what one sample may find: cpu, memoryMB, gcPause, goroutines, fds
    Need,           \* killStreakRequired
    Warmup,         \* liveCheckWarmup in seconds
    MaxTime         \* BOUND: the clock stops here

ASSUME WatchdogAssumption ==
    /\ Need \in Nat \ {0} /\ TotalReqs \in Nat \ {0} /\ {Warmup, MaxTime} \subseteq Nat
    /\ Load \subseteq [cpu : Nat, memoryMB : Nat, gcPause : Nat, goroutines : Nat, fds : Nat]

VARIABLES
    sent, begun, counted, lost, cancelled, collected,   \* the engine
    now,            \* seconds since the start
    sampleDue,      \* the monitor's tick is pending
    checkDue,       \* the watchdog's tick is pending
    mpc,            \* monitor: "first" sample, "loop", "done"
    monitorStop,    \* m.ctx is cancelled
    current,        \* m.current; id counts the samples, gcPause adds up
    dpc,            \* watchdog: "select", "store", "cancel", "gone"
    streak,         \* its streak
    prev,           \* prevStats.GCPauseNS; NoPrev before the first check
    reason,         \* the reason of the verdict it acts on
    watchDone,      \* close(watchDone) has run
    killEvent,      \* lt.killEvent; NoReason when nil
    rpc,            \* Run: "collect", "closeDone", "stopMonitor", "lastSample",
                    \* "stats", "health", "returned"
    inStats,        \* Stats.KillReason
    report,         \* the health report: kill reason and level
    hot,            \* history: samples behind the current streak
    aborted         \* history: the workers cancelled the run

NoPrev == -1
Timed == FALSE

engineVars == <<sent, begun, counted, lost, cancelled, collected>>
monitorVars == <<sampleDue, mpc, current>>
watchdogVars == <<checkDue, dpc, streak, prev, reason, killEvent, hot>>
runVars == <<monitorStop, watchDone, rpc, inStats, report>>
vars == <<engineVars, now, monitorVars, watchdogVars, aborted, runVars>>

E == INSTANCE LoadRun WITH returned <- collected

Idle == [id |-> 0, cpu |-> 0, memoryMB |-> 0, gcPause |-> 0, gcCycles |-> 0,
         goroutines |-> 0, fds |-> 0]
Snapshot == [id : Nat, cpu : Nat, memoryMB : Nat, gcPause : Nat, gcCycles : Nat,
             goroutines : Nat, fds : Nat]
NoReport == [kill |-> NoReason, level |-> OK]
Reason == resourceSignalFactors \cup {NoReason}

(* Types.  A streak ends with the kill it leads to, and only the factors   *)
(* that can end a run are ever its reason.                                 *)
TypeOK ==
    /\ now \in 0 .. MaxTime /\ {sampleDue, checkDue, monitorStop, watchDone} \subseteq BOOLEAN
    /\ mpc \in {"first", "loop", "done"}
    /\ current \in Snapshot
    /\ dpc \in {"select", "store", "cancel", "gone"}
    /\ streak \in 0 .. Need /\ prev \in Nat \cup {NoPrev}
    /\ {reason, killEvent, inStats, report.kill} \subseteq Reason
    /\ rpc \in {"collect", "closeDone", "stopMonitor", "lastSample", "stats", "health", "returned"}
    /\ report.level \in Severity
    /\ hot \subseteq 0 .. current.id /\ aborted \in BOOLEAN

Init ==
    /\ E!Init
    /\ now = 0 /\ sampleDue = FALSE /\ checkDue = FALSE
    /\ mpc = "first" /\ monitorStop = FALSE /\ current = Idle
    /\ dpc = "select" /\ streak = 0 /\ prev = NoPrev /\ reason = NoReason
    /\ watchDone = FALSE /\ killEvent = NoReason
    /\ rpc = "collect" /\ inStats = NoReason /\ report = NoReport
    /\ hot = {} /\ aborted = FALSE

-----------------------------------------------------------------------------
(* The engine: workers that begin, finish and lose requests, and an abort  *)
(* on consecutive failures.                                                *)

Engine ==
    /\ \/ E!Dispatch \/ E!Begin \/ E!Return
       \/ \E r \in E!Running : E!Count(r) \/ (cancelled /\ E!Lose(r))
       \/ ~ cancelled /\ begun > 0 /\ E!Cancel
    /\ aborted' = (aborted \/ (~ cancelled /\ cancelled'))
    /\ UNCHANGED <<now, monitorVars, watchdogVars, runVars>>

(* Nobody but the engine has anything left to do in this second. *)
Quiet ==
    /\ mpc = "done" \/ (mpc = "loop" /\ ~ sampleDue /\ ~ monitorStop)
    /\ dpc = "gone" \/ (dpc = "select" /\ ~ checkDue /\ ~ watchDone)
    /\ rpc = "returned" \/ (rpc = "collect" /\ ~ collected)

(* One second passes. *)
Tick ==
    /\ now < MaxTime
    /\ Quiet
    /\ now' = now + 1
    /\ sampleDue' = TRUE /\ checkDue' = TRUE
    /\ UNCHANGED <<engineVars, mpc, current, dpc, streak, prev, reason, killEvent,
                   hot, aborted, runVars>>

-----------------------------------------------------------------------------
(* The monitor. *)

(* The next sample: what it finds, and the cumulative pause. *)
NextSample(l) ==
    [id |-> current.id + 1, cpu |-> l.cpu, memoryMB |-> l.memoryMB,
     gcPause |-> current.gcPause + l.gcPause,
     gcCycles |-> current.gcCycles + (IF l.gcPause > 0 THEN 1 ELSE 0),
     goroutines |-> l.goroutines, fds |-> l.fds]

Sample(l) ==
    /\ mpc = "first" \/ (mpc = "loop" /\ sampleDue)
    /\ mpc' = "loop"
    /\ sampleDue' = IF mpc = "first" THEN sampleDue ELSE FALSE
    /\ current' = NextSample(l)
    /\ UNCHANGED <<engineVars, now, watchdogVars, aborted, runVars>>

LeaveMonitor ==
    /\ mpc = "loop" /\ monitorStop
    /\ mpc' = "done"
    /\ UNCHANGED <<engineVars, now, sampleDue, current, watchdogVars, aborted, runVars>>

Monitor == (\E l \in Load : Sample(l)) \/ LeaveMonitor

-----------------------------------------------------------------------------
(* The watchdog. *)

(* The pause since the last check, of a counter that only grows. *)
gcDelta == IF prev # NoPrev /\ current.gcPause > prev THEN current.gcPause - prev ELSE 0

(* lt.peakMemoryMB is never assigned, so the peak is this very sample.     *)
evaluateLiveSaturation(util, done) ==
    CheckSaturation([current EXCEPT !.gcPause = gcDelta],
                    [targetRPS |-> IF now < Warmup THEN 0 ELSE Rate,
                     completed |-> done, workerUtil |-> util],
                    now, current.memoryMB)

(* The generator is short of a resource now: the yardstick of the checks,  *)
(* stated without signals, severities or an order of the factors.          *)
Exhausted ==
    LET limit(f) == Thresholds[f].critical IN
    \/ current.cpu >= limit("CPU")
    \/ current.gcCycles > 0 /\ gcDelta >= limit("GC Pause")
    \/ current.goroutines >= limit("Goroutines") * Concurrency
    \/ MaxFDs > 0 /\ current.fds * 100 >= limit("File Descriptors") * MaxFDs
    \/ now > 5 /\ current.memoryMB > 0 /\ current.memoryMB * 60 >= limit("Memory Growth") * now

\* Fault: no reset, so that critical checks need not be consecutive.
CheckHealthNoReset(util, done) ==
    /\ dpc = "select" /\ checkDue
    /\ checkDue' = FALSE
    /\ reason' = criticalResourceSignals(evaluateLiveSaturation(util, done))
    /\ streak' = IF reason' # NoReason THEN streak + 1 ELSE streak
    /\ dpc' = IF reason' # NoReason /\ streak' >= Need THEN "store" ELSE "select"
    /\ prev' = current.gcPause
    /\ hot' = IF Exhausted THEN hot \cup {current.id} ELSE {}
    /\ UNCHANGED <<engineVars, now, monitorVars, killEvent, aborted, runVars>>

\* Fault: the run is cancelled before the reason is stored.
CheckHealthCancels(util, done) ==
    /\ dpc = "select" /\ checkDue
    /\ checkDue' = FALSE
    /\ reason' = criticalResourceSignals(evaluateLiveSaturation(util, done))
    /\ streak' = IF reason' # NoReason THEN streak + 1 ELSE 0
    /\ dpc' = IF streak' >= Need THEN "store" ELSE "select"
    /\ cancelled' = (cancelled \/ streak' >= Need)
    /\ prev' = current.gcPause
    /\ hot' = IF Exhausted THEN hot \cup {current.id} ELSE {}
    /\ UNCHANGED <<sent, begun, counted, lost, collected, now, monitorVars,
                   killEvent, aborted, runVars>>

CheckHealth(util, done) ==
    /\ dpc = "select" /\ checkDue
    /\ checkDue' = FALSE
    /\ reason' = criticalResourceSignals(evaluateLiveSaturation(util, done))
    /\ streak' = IF reason' # NoReason THEN streak + 1 ELSE 0
    /\ dpc' = IF streak' >= Need THEN "store" ELSE "select"
    /\ prev' = current.gcPause
    /\ hot' = IF Exhausted THEN hot \cup {current.id} ELSE {}
    /\ UNCHANGED <<engineVars, now, monitorVars, killEvent, aborted, runVars>>

StoreKill ==
    /\ dpc = "store"
    /\ dpc' = "cancel"
    /\ killEvent' = reason
    /\ UNCHANGED <<engineVars, now, monitorVars, checkDue, streak, prev, reason,
                   hot, aborted, runVars>>

CancelRun ==
    /\ dpc = "cancel"
    /\ dpc' = "gone"
    /\ E!Cancel
    /\ UNCHANGED <<now, monitorVars, checkDue, streak, prev, reason, killEvent, hot,
                   aborted, runVars>>

LeaveWatchdog ==
    /\ dpc = "select" /\ watchDone
    /\ dpc' = "gone"
    /\ UNCHANGED <<engineVars, now, monitorVars, checkDue, streak, prev, reason,
                   killEvent, hot, aborted, runVars>>

(* What the workers report is anything: idle or saturated workers, nothing *)
(* or everything completed.                                                *)
Watchdog ==
    \/ \E util \in {0, 100}, done \in {0, MaxTime * Rate} : CheckHealth(util, done)
    \/ StoreKill \/ CancelRun \/ LeaveWatchdog

-----------------------------------------------------------------------------
(* The tail of Run. *)

(* collectResults has returned. *)
EndCollect ==
    /\ rpc = "collect" /\ collected
    /\ rpc' = "closeDone"
    /\ UNCHANGED <<engineVars, now, monitorVars, watchdogVars, aborted, monitorStop,
                   watchDone, inStats, report>>

\* Fault: the watchdog is never told.
CloseDoneForgotten ==
    /\ rpc = "closeDone"
    /\ rpc' = "stopMonitor"
    /\ UNCHANGED <<engineVars, now, monitorVars, watchdogVars, aborted, watchDone, monitorStop,
                   inStats, report>>

CloseDone ==
    /\ rpc = "closeDone"
    /\ rpc' = "stopMonitor"
    /\ watchDone' = TRUE
    /\ UNCHANGED <<engineVars, now, monitorVars, watchdogVars, aborted, monitorStop,
                   inStats, report>>

StopMonitor ==
    /\ rpc = "stopMonitor"
    /\ rpc' = "lastSample"
    /\ monitorStop' = TRUE
    /\ UNCHANGED <<engineVars, now, monitorVars, watchdogVars, aborted, watchDone,
                   inStats, report>>

\* Fault: Stop does not wait for the sampling goroutine.
LastSampleAtOnce(l) ==
    /\ rpc = "lastSample"
    /\ rpc' = "stats"
    /\ current' = NextSample(l)
    /\ UNCHANGED <<engineVars, now, sampleDue, mpc, watchdogVars, aborted, monitorStop,
                   watchDone, inStats, report>>

(* Stop waits for the sampling goroutine, then samples once more itself. *)
LastSample(l) ==
    /\ rpc = "lastSample" /\ mpc = "done"
    /\ rpc' = "stats"
    /\ current' = NextSample(l)
    /\ UNCHANGED <<engineVars, now, sampleDue, mpc, watchdogVars, aborted, monitorStop,
                   watchDone, inStats, report>>

WriteStats ==
    /\ rpc = "stats"
    /\ rpc' = "health"
    /\ inStats' = killEvent
    /\ UNCHANGED <<engineVars, now, monitorVars, watchdogVars, aborted, monitorStop,
                   watchDone, report>>

(* buildHealthReport: a second diagnosis, of the whole run, and a second   *)
(* look at killEvent.  It is given the cumulative pause.                   *)
buildHealthReport(util) ==
    /\ rpc = "health"
    /\ rpc' = "returned"
    /\ LET pace == [targetRPS |-> Rate, completed |-> Cardinality(counted), workerUtil |-> util]
           signals == CheckSaturation(current, pace, now, 0)
       IN  report' = [kill |-> killEvent,
                      level |-> IF killEvent # NoReason THEN CRITICAL ELSE Level(signals)]
    /\ UNCHANGED <<engineVars, now, monitorVars, watchdogVars, aborted, monitorStop,
                   watchDone, inStats>>

Run == \/ EndCollect \/ CloseDone \/ StopMonitor \/ WriteStats
       \/ \E l \in Load : LastSample(l)
       \/ \E util \in {0, 100} : buildHealthReport(util)

(* The caller goes on with its Stats. *)
Rest == rpc = "returned" /\ UNCHANGED vars

Next == Engine \/ Tick \/ Monitor \/ Watchdog \/ Run \/ Rest

(* Every goroutine is scheduled, and a select whose done channel stays     *)
(* closed takes that branch in the end: Go chooses among ready branches at *)
(* random.                                                                 *)
Spec == Init /\ [][Next]_vars
FairSpec == /\ Spec
            /\ WF_vars(Engine) /\ WF_vars(Tick) /\ WF_vars(Monitor) /\ WF_vars(Run)
            /\ WF_vars(Watchdog) /\ WF_vars(LeaveMonitor) /\ WF_vars(LeaveWatchdog)

-----------------------------------------------------------------------------
(* Properties. *)

(* "A single critical sample can be a transient spike" (saturation_watch.go*)
(* 8-10): a kill has Need consecutive exhausted checks behind it, at least *)
(* half of them of samples of their own - a check may read what the check  *)
(* before has read, but not twice running - and none of them is about a    *)
(* slow target or busy workers.  With the Need of 3 of the code that is    *)
(* two samples.                                                            *)
KillIsSustained ==
    dpc \in {"store", "cancel"} => 2 * Cardinality(hot) >= Need

(* A run that did not finish says why: unless it was aborted for its       *)
(* failures, Stats and the health report carry the same kill reason and    *)
(* the verdict is CRITICAL, whatever the last diagnosis found.  It takes   *)
(* the order of store and cancel in the watchdog, and Run's two looks at   *)
(* killEvent after the collection.                                         *)
UnfinishedRunSaysSo ==
    rpc = "returned" /\ ~ aborted /\ Cardinality(counted) < TotalReqs =>
        inStats # NoReason /\ report.kill = inStats /\ report.level = CRITICAL

(* After Stop has returned nothing writes the snapshot that is reported.   *)
SnapshotIsFinal ==
    [][(rpc \in {"stats", "health", "returned"}) => UNCHANGED current]_vars

(* Neither goroutine outlives the run, and Run always returns. *)
AllEnds == <>[](rpc = "returned" /\ dpc = "gone" /\ mpc = "done")

-----------------------------------------------------------------------------
(* A statement of the documentation that the code does not keep. *)

(* "Memory growth MB/min - detects runaway allocation" (saturation.go:35): *)
(* a kill for memory growth is preceded by growth.  All of Load has the    *)
(* same memoryMB when this is checked.                                     *)
SteadyMemoryIsNoReason ==
    (\A k, l \in Load : k.memoryMB = l.memoryMB) => killEvent # "Memory Growth"
=============================================================================
