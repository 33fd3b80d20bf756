------------------------------ MODULE Capacity ------------------------------
(***************************************************************************)
(* EstimateCapacity (pkg/storm/capacity.go): a benchmark of SampleSize     *)
(* requests before the run, next to a monitor whose samples give the time  *)
(* the rate is divided by.  The clock moves on whether or not anybody has  *)
(* kept up with it: the runtime may fire the ticker late, the monitor may  *)
(* be late to receive from it, and so two samples may be no time apart.    *)
(***************************************************************************)
EXTENDS Integers, Sequences

CONSTANTS
    SampleSize,     \* probes to send (200 in the code)
    Probers,        \* goroutines that send them: --concurrency
    Retained,       \* samples the monitor keeps (10 in the code)
    Interval,       \* time between two ticks of the monitor (200 ms)
    Fallback,       \* time a rate is divided by when the samples give none (3 s)
    MaxTime         \* BOUND: the clock stops here

ASSUME CapacityAssumption ==
    /\ {SampleSize, Probers, Interval, Fallback} \subseteq Nat \ {0}
    /\ Retained \in Nat /\ Retained >= 4 /\ MaxTime \in Nat

VARIABLES
    epc,            \* "off", "wait" in the select, "stop" or "cut": stopping the monitor
                    \* for either reason; "settled" with a result, "failed" with an error
    timedOut,       \* capCtx is over: the interrupt, or ten seconds
    jobsLeft,       \* probes in the closed channel
    probing,        \* probes under way
    workerWg,       \* goroutines that have not left
    completed,      \* probes done, failed ones included
    drained,        \* close(monitorWg)
    clock,          \* time since the start
    mpc,            \* the monitor's goroutine: "first" sample, "loop", "done"
    tick,           \* its ticker's channel holds a tick
    nextTick,       \* when the ticker is due
    samples,        \* timestamps of m.samples
    firstAt         \* history: time of the first sample of all

probeVars == <<jobsLeft, probing, workerWg, completed, drained>>
samplerVars == <<mpc, tick, nextTick, samples, firstAt>>
capVars == <<epc, timedOut, probeVars, clock, samplerVars>>

CapTypeOK ==
    /\ epc \in {"off", "wait", "stop", "cut", "settled", "failed"}
    /\ {timedOut, drained, tick} \subseteq BOOLEAN
    /\ {jobsLeft, completed} \subseteq 0 .. SampleSize
    /\ workerWg \in 0 .. Probers /\ probing \in 0 .. workerWg
    /\ clock \in 0 .. MaxTime
    /\ mpc \in {"first", "loop", "done"}
    /\ samples \in Seq(0 .. MaxTime) /\ Len(samples) <= Retained
    /\ firstAt \in 0 .. MaxTime /\ nextTick \in 0 .. MaxTime + Interval

CapInit ==
    /\ epc = "off" /\ timedOut = FALSE
    /\ jobsLeft = 0 /\ probing = 0 /\ workerWg = 0 /\ completed = 0 /\ drained = FALSE
    /\ clock = 0 /\ mpc = "first" /\ samples = <<>> /\ firstAt = 0
    /\ tick = FALSE /\ nextTick = 0

(* The channel has room for every probe, so that feeding it never waits.   *)
StartEstimate ==
    /\ epc = "off" /\ epc' = "wait"
    /\ jobsLeft' = SampleSize /\ workerWg' = Probers
    /\ UNCHANGED <<timedOut, probing, completed, drained, clock, samplerVars>>

-----------------------------------------------------------------------------
(* The goroutines that probe, and the one that waits for them. *)

Begun == epc # "off"
Running == epc \in {"wait", "stop", "cut"}

\* Fault: a probe is counted when it is sent, too.
SendProbeCounted ==
    /\ jobsLeft > 0 /\ probing < workerWg
    /\ jobsLeft' = jobsLeft - 1 /\ probing' = probing + 1 /\ completed' = completed + 1
    /\ UNCHANGED <<epc, timedOut, workerWg, drained, clock, samplerVars>>
SendProbe ==
    /\ jobsLeft > 0 /\ probing < workerWg
    /\ jobsLeft' = jobsLeft - 1 /\ probing' = probing + 1
    /\ UNCHANGED <<epc, timedOut, workerWg, completed, drained, clock, samplerVars>>

(* With whatever outcome. *)
EndProbe ==
    /\ probing > 0
    /\ probing' = probing - 1 /\ completed' = completed + 1
    /\ UNCHANGED <<epc, timedOut, jobsLeft, workerWg, drained, clock, samplerVars>>

(* NewRequestWithContext rejects the URL. *)
RejectProbe ==
    /\ jobsLeft > 0 /\ probing < workerWg
    /\ jobsLeft' = jobsLeft - 1 /\ completed' = completed + 1
    /\ UNCHANGED <<epc, timedOut, probing, workerWg, drained, clock, samplerVars>>

LeaveProber ==
    /\ jobsLeft = 0 /\ probing < workerWg
    /\ workerWg' = workerWg - 1
    /\ UNCHANGED <<epc, timedOut, jobsLeft, probing, completed, drained, clock, samplerVars>>

\* Fault: waiting for the channel instead of the goroutines.
SeeDrainedQueue ==
    /\ Begun /\ ~ drained /\ jobsLeft = 0
    /\ drained' = TRUE
    /\ UNCHANGED <<epc, timedOut, jobsLeft, probing, workerWg, completed, clock, samplerVars>>

SeeDrained ==
    /\ Begun /\ ~ drained /\ workerWg = 0
    /\ drained' = TRUE
    /\ UNCHANGED <<epc, timedOut, jobsLeft, probing, workerWg, completed, clock, samplerVars>>

-----------------------------------------------------------------------------
(* The monitor. *)

\* Fault: the ring is cut by one sample too many.
KeepFewer(s) == IF Len(s) > Retained THEN SubSeq(s, 3, Len(s)) ELSE s
Keep(s) == IF Len(s) > Retained THEN Tail(s) ELSE s
Sample == samples' = Keep(Append(samples, clock))

FirstSample ==
    /\ Running /\ mpc = "first" /\ mpc' = "loop"
    /\ Sample
    /\ firstAt' = clock /\ nextTick' = clock + Interval
    /\ UNCHANGED <<epc, timedOut, probeVars, clock, tick>>

TickSample ==
    /\ mpc = "loop" /\ tick
    /\ Sample
    /\ tick' = FALSE
    /\ UNCHANGED <<epc, timedOut, probeVars, clock, mpc, nextTick, firstAt>>

LeaveSampler ==
    /\ mpc = "loop" /\ epc \in {"stop", "cut"}
    /\ mpc' = "done"
    /\ UNCHANGED <<epc, timedOut, probeVars, clock, tick, nextTick, samples, firstAt>>

Tick ==
    /\ Running /\ clock < MaxTime
    /\ clock' = clock + 1
    /\ UNCHANGED <<epc, timedOut, probeVars, samplerVars>>

(* The ticker is due, or overdue: it skips what it has missed.  A tick     *)
(* that finds the channel full is dropped.                                 *)
FireTicker ==
    /\ mpc = "loop" /\ nextTick <= clock
    /\ nextTick' \in {t \in nextTick + Interval .. clock + Interval :
                         t > clock /\ (t - nextTick) % Interval = 0}
    /\ tick' = TRUE
    /\ UNCHANGED <<epc, timedOut, probeVars, clock, mpc, samples, firstAt>>

-----------------------------------------------------------------------------
(* The caller. *)

Expire ==
    /\ Running /\ ~ timedOut /\ timedOut' = TRUE
    /\ UNCHANGED <<epc, probeVars, clock, samplerVars>>

(* Both cases of the select may be ready; one of them leads to a result.   *)
StopMonitor ==
    /\ epc = "wait"
    /\ \/ drained /\ epc' = "stop"
       \/ timedOut /\ epc' = "cut"
    /\ UNCHANGED <<timedOut, probeVars, clock, samplerVars>>

LastSample ==
    /\ epc \in {"stop", "cut"} /\ mpc = "done"
    /\ Sample
    /\ epc' = IF epc = "stop" THEN "settled" ELSE "failed"
    /\ UNCHANGED <<timedOut, probeVars, clock, mpc, tick, nextTick, firstAt>>

EstimateNext ==
    \/ SendProbe \/ EndProbe \/ RejectProbe \/ LeaveProber \/ SeeDrained
    \/ FirstSample \/ TickSample \/ LeaveSampler \/ Tick \/ FireTicker
    \/ Expire \/ StopMonitor \/ LastSample

(* MaxRPS is completed / Window, the time between the oldest sample that   *)
(* is left and the last one.                                               *)
Window ==
    LET span == samples[Len(samples)] - samples[1]
    IN  IF span > 0 THEN span ELSE Fallback

-----------------------------------------------------------------------------
(* Properties. *)

(* "Wait for workers to finish" (capacity.go): a result is of all probes,  *)
(* and none of them is left to disturb the run that follows.  The time its *)
(* rate is of runs from the first sample to the last, or is the fallback   *)
(* when that is none at all; but once the ring has been cut it is only     *)
(* known to be more than Retained - 4 intervals, however late ticks come   *)
(* and however many coincide.  So the rate, which capacity.go:26-27 calls  *)
(* the throughput measured, may be too high by whole over that; the time   *)
(* before the first sample adds to it.                                     *)
EstimateIsBounded == epc = "settled" =>
    LET whole == samples[Len(samples)] - firstAt
    IN  /\ completed = SampleSize /\ probing = 0 /\ workerWg = 0
        /\ \/ Window = IF whole > 0 THEN whole ELSE Fallback
           \/ (Retained - 4) * Interval < Window /\ Window <= whole
=============================================================================
