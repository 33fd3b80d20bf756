-------------------------- MODULE ArrivalSchedule --------------------------
(***************************************************************************)
(* The producer of a run with --rate (pkg/storm/arrival.go): it dispatches *)
(* a number of jobs fixed before the run, job j no earlier than j/Rate     *)
(* seconds after the start, and keeps telemetry that Run reads at the end. *)
(* The workers are an environment that empties the jobs channel; the clock *)
(* runs at its own pace, also between two steps of the producer.           *)
(***************************************************************************)
EXTENDS ArrivalMath

CONSTANTS
    Rate,          \* Config.Rate
    Duration,      \* Config.Duration in clock units; 0 in count mode
    TotalReqs,     \* Config.TotalReqs, count mode
    MinGradedLag,  \* minGradedLagNS
    JobsCap,       \* buffer of the jobs channel
    MaxTime        \* BOUND: the clock stops here

ASSUME ScheduleAssumption ==
    /\ Rate \in Nat \ {0} /\ JobsCap \in Nat \ {0}
    /\ {Duration, TotalReqs, MinGradedLag, MaxTime} \subseteq Nat

Limit == IF Duration > 0 THEN ArrivalLimit(Duration, Rate) ELSE TotalReqs
GradedLag == LET width == NsPerSec \div Rate
             IN  IF width < MinGradedLag THEN MinGradedLag ELSE width

NoTelemetry == [sent |-> 0, late |-> 0, maxLag |-> 0]
Lesser(a, b) == IF a < b THEN a ELSE b
Greater(a, b) == IF a > b THEN a ELSE b

VARIABLES
    now,           \* the clock, since the start of the schedule
    ppc,           \* where the producer is
    j,             \* its next slot
    due,           \* the last slot it found due
    queued,        \* jobs in the channel
    cancelled,     \* the run context is cancelled
    telemetry,     \* lt.arrival; NoTelemetry until something is recorded
    rpc,           \* Run: "collect", "stats", "report", "returned"
    inStats,       \* Stats.Arrival
    inReport       \* HealthReport.Arrival

producerVars == <<ppc, j, due, telemetry>>
runVars == <<rpc, inStats, inReport>>
vars == <<now, ppc, j, due, queued, cancelled, telemetry, rpc, inStats, inReport>>

Telemetry == [sent : Nat, late : Nat, maxLag : Nat]

(* Types, and the bound of the channel. *)
TypeOK ==
    /\ now \in Nat /\ j \in Nat /\ due \in Int
    /\ ppc \in {"start", "look", "send", "grade", "lag", "sleep", "closed"}
    /\ queued \in 0 .. JobsCap
    /\ cancelled \in BOOLEAN
    /\ telemetry \in Telemetry
    /\ rpc \in {"collect", "stats", "report", "returned"}
    /\ inStats \in Telemetry /\ inReport \in Telemetry

Init ==
    /\ now = 0 /\ ppc = "start" /\ j = 0 /\ due = 0
    /\ queued = 0 /\ cancelled = FALSE /\ telemetry = NoTelemetry
    /\ rpc = "collect" /\ inStats = NoTelemetry /\ inReport = NoTelemetry

-----------------------------------------------------------------------------
(* Faults. *)

\* The clamp of due to the last slot forgotten.
LookUnclamped ==
    /\ ppc = "look"
    /\ due' = DueIndex(now, Rate)
    /\ ppc' = IF j <= due' THEN "send" ELSE IF j >= Limit THEN "closed" ELSE "sleep"
    /\ UNCHANGED <<now, j, queued, cancelled, telemetry, runVars>>

\* The producer sends the slot after the last due one as well.
LookOneAhead ==
    /\ ppc = "look"
    /\ due' = Lesser(DueIndex(now, Rate) + 1, Limit - 1)
    /\ ppc' = IF j <= due' THEN "send" ELSE IF j >= Limit THEN "closed" ELSE "sleep"
    /\ UNCHANGED <<now, j, queued, cancelled, telemetry, runVars>>

\* The send does not wait for room in the channel.
SendJobUnbounded ==
    /\ ppc = "send"
    /\ queued' = queued + 1
    /\ ppc' = "grade"
    /\ UNCHANGED <<now, j, due, cancelled, telemetry, runVars>>

\* A full channel skips the slot: select with a default case.
SendJobOrSkip ==
    /\ ppc = "send"
    /\ IF queued < JobsCap
       THEN queued' = queued + 1 /\ ppc' = "grade" /\ j' = j
       ELSE queued' = queued /\ ppc' = "look" /\ j' = j + 1
    /\ UNCHANGED <<now, due, cancelled, telemetry, runVars>>

\* The send is not in a select with ctx.Done().
StopOnlyAsleep ==
    /\ cancelled
    /\ ppc = "sleep" /\ now < SlotOffset(j, Rate)
    /\ ppc' = "closed"
    /\ UNCHANGED <<now, j, due, queued, cancelled, telemetry, runVars>>

-----------------------------------------------------------------------------
(* The producer.  Between two of its steps the clock may advance, the      *)
(* workers may take jobs and Run may read the telemetry.                   *)

StartSchedule ==
    /\ ppc = "start"
    /\ ppc' = IF Limit <= 0 THEN "closed" ELSE "look"
    /\ UNCHANGED <<now, j, due, queued, cancelled, telemetry, runVars>>

(* The position is derived from the clock anew, never carried over. *)
LookAtClock ==
    /\ ppc = "look"
    /\ due' = Lesser(DueIndex(now, Rate), Limit - 1)
    /\ ppc' = IF j <= due' THEN "send" ELSE IF j >= Limit THEN "closed" ELSE "sleep"
    /\ UNCHANGED <<now, j, queued, cancelled, telemetry, runVars>>

SendJob ==
    /\ ppc = "send"
    /\ queued < JobsCap
    /\ queued' = queued + 1
    /\ ppc' = "grade"
    /\ UNCHANGED <<now, j, due, cancelled, telemetry, runVars>>

(* record: the counters are plain fields, written one after the other. *)
GradeSent ==
    /\ ppc = "grade"
    /\ telemetry' = [telemetry EXCEPT !.sent = @ + 1]
    /\ ppc' = "lag"
    /\ UNCHANGED <<now, j, due, queued, cancelled, runVars>>

GradeLag ==
    /\ ppc = "lag"
    /\ LET lag == Greater(now - SlotOffset(j, Rate), 0) IN
        telemetry' = [telemetry EXCEPT !.late = @ + (IF lag > GradedLag THEN 1 ELSE 0),
                                       !.maxLag = Greater(@, lag)]
    /\ j' = j + 1
    /\ ppc' = IF j' <= due THEN "send" ELSE IF j' >= Limit THEN "closed" ELSE "sleep"
    /\ UNCHANGED <<now, due, queued, cancelled, runVars>>

(* Nothing to wait for, or the timer has fired. *)
Wake ==
    /\ ppc = "sleep"
    /\ now >= SlotOffset(j, Rate)
    /\ ppc' = "look"
    /\ UNCHANGED <<now, j, due, queued, cancelled, telemetry, runVars>>

StopProducer ==
    /\ cancelled
    /\ ppc = "send" \/ (ppc = "sleep" /\ now < SlotOffset(j, Rate))
    /\ ppc' = "closed"
    /\ UNCHANGED <<now, j, due, queued, cancelled, telemetry, runVars>>

Producer == \/ StartSchedule \/ LookAtClock \/ SendJob \/ GradeSent \/ GradeLag
            \/ Wake \/ StopProducer

-----------------------------------------------------------------------------
(* The rest of the run. *)

(* The clock is read from the start of the schedule on. *)
Tick == now < MaxTime /\ ppc # "start" /\ now' = now + 1
        /\ UNCHANGED <<producerVars, queued, cancelled, runVars>>

TakeJob == queued > 0 /\ queued' = queued - 1
           /\ UNCHANGED <<now, producerVars, cancelled, runVars>>

(* A streak of failures (worker.go:32), the watchdog                       *)
(* (saturation_watch.go:102), or whoever holds the context the run was     *)
(* made with (config.go:187).                                              *)
Cancel == ~ cancelled /\ rpc = "collect" /\ cancelled' = TRUE
          /\ UNCHANGED <<now, producerVars, queued, runVars>>

\* Fault: Run waits for the channel to be empty, not for it to be closed.
CollectDoneWhenEmpty ==
    /\ rpc = "collect"
    /\ cancelled \/ queued = 0
    /\ rpc' = "stats"
    /\ UNCHANGED <<now, producerVars, queued, cancelled, inStats, inReport>>

(* collectResults ends when every worker has left: after the producer has  *)
(* closed the channel and it is empty - or at once, when cancelled.        *)
CollectDone ==
    /\ rpc = "collect"
    /\ cancelled \/ (ppc = "closed" /\ queued = 0)
    /\ rpc' = "stats"
    /\ UNCHANGED <<now, producerVars, queued, cancelled, inStats, inReport>>

SnapshotForStats ==
    /\ rpc = "stats"
    /\ rpc' = "report"
    /\ inStats' = telemetry
    /\ UNCHANGED <<now, producerVars, queued, cancelled, inReport>>

SnapshotForReport ==
    /\ rpc = "report"
    /\ rpc' = "returned"
    /\ inReport' = telemetry
    /\ UNCHANGED <<now, producerVars, queued, cancelled, inStats>>

Run == CollectDone \/ SnapshotForStats \/ SnapshotForReport

AllGone == rpc = "returned" /\ ppc = "closed" /\ UNCHANGED vars

Next == Producer \/ Tick \/ TakeJob \/ Cancel \/ Run \/ AllGone

(* The clock runs, the producer and Run are scheduled; the workers take    *)
(* jobs as long as the run is live.                                        *)
Spec == Init /\ [][Next]_vars
FairSpec == /\ Spec
            /\ WF_vars(Producer) /\ WF_vars(Tick) /\ WF_vars(Run)
            /\ WF_vars(~ cancelled /\ TakeJob)

-----------------------------------------------------------------------------
(* Properties. *)

Sent == j + (IF ppc \in {"grade", "lag"} THEN 1 ELSE 0)

(* No burst and no early dispatch: at any time no more has been sent than  *)
(* the slots that are due - the token bucket this schedule replaced sent a *)
(* whole second of traffic at once (arrival.go:17-20).                     *)
NoOvershoot == Sent > 0 => (Sent - 1) * NsPerSec <= now * Rate

(* The whole schedule and nothing else: a producer that was not cancelled  *)
(* stops after exactly Limit jobs, however late the workers made it.       *)
ExactDispatch ==
    /\ Sent <= Limit
    /\ ppc = "closed" /\ ~ cancelled => j = Limit

(* "generator-caused deviation is measured, never hidden" (arrival.go:150):*)
(* between two slots the telemetry has every job sent, so none was skipped *)
(* to catch up, and it has a late one exactly if some lag went beyond the  *)
(* graded one.                                                             *)
LateIsRecorded ==
    ppc \notin {"grade", "lag"} =>
        /\ telemetry.sent = j
        /\ telemetry.maxLag > GradedLag <=> telemetry.late > 0

(* "Written only by the producer goroutine and read after Run joins it"    *)
(* (arrival.go:87-88).  Run joins the workers and not the producer; that   *)
(* it reads the last word of the whole schedule, twice the same, hangs on  *)
(* the closed channel the workers wait for - and so not on a cancellation, *)
(* after which the producer may still be writing.                          *)
ReadsAreFinal ==
    rpc = "returned" /\ ~ cancelled =>
        inStats.sent = Limit /\ inStats = telemetry /\ inReport = telemetry

(* The schedule comes to its end, or stops when told to. *)
ScheduleEnds == <>[](ppc = "closed" /\ rpc = "returned")
=============================================================================
