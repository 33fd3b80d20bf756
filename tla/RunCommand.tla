----------------------------- MODULE RunCommand -----------------------------
(***************************************************************************)
(* One command of the CLI from its flags to its exit status: storm run     *)
(* (cmd/storm/run.go) with its estimate, the engine, the report, the file, *)
(* the health report and the gates; and what storm run-dist has of these.  *)
(* The engine is LoadRun, which Pipeline implements.  A flag gets its      *)
(* value where it is first looked at.                                      *)
(***************************************************************************)
EXTENDS Capacity, FiniteSets

CONSTANTS
    TotalReqs,      \* --requests
    MaxP95          \* BOUND: percentiles are 0..MaxP95

ASSUME RunCommandAssumption == {TotalReqs, MaxP95} \subseteq Nat \ {0}

VARIABLES
    command,        \* "run" or "run-dist"
    pc,             \* "args", "estimate", "validate", "run", "save", "print", "health",
                    \* "gate", "exited"
    exit,           \* the exit status; -1 while the command runs
    interrupted,    \* the context of NotifyContext is cancelled
    saturation,     \* --saturation and --saturation-kill: "off", "warn", "kill"
    killEvent,      \* the watchdog has stored one
    sent, begun, counted, lost, cancelled, returned,    \* the engine
    bad,            \* counted requests that failed
    stats,          \* the Stats that Run returned
    format,         \* --format
    screen,         \* what is on stdout
    saved,          \* what is in the file: "none" asked for, "written", "lost"
    limits          \* --fail-above-errors and --fail-above-p95; -1 is disabled

engineVars == <<sent, begun, counted, lost, cancelled, returned, bad, killEvent>>
outputVars == <<stats, format, screen, saved, limits>>
runVars == <<command, pc, exit, interrupted, saturation, engineVars, outputVars>>
vars == <<capVars, runVars>>

Timed == FALSE
E == INSTANCE LoadRun

NoStats == [total |-> 0, failed |-> 0, p95 |-> 0]
NoLimits == [errors |-> -1, p95 |-> -1]
Format == {"text", "json", "table", "quiet", "csv"}

(* What each printer of report.go shows of Stats.  None shows a kill.      *)
PrintStatsTable == {"total", "failed", "p95"}
PrintStatsQuiet == {"total", "failed", "p95"}
PrintStatsCSV == {"total", "failed", "p95"}
PrintStatsReport == {"total", "failed", "p95", "errors"}
ReportJSON == {"total", "failed", "p95", "errors", "arrival"}
Shown == [text |-> PrintStatsReport, json |-> ReportJSON, table |-> PrintStatsTable,
          quiet |-> PrintStatsQuiet, csv |-> PrintStatsCSV]
ReportFacts == {"total", "failed", "p95", "errors", "arrival", "health", "kill"}

TypeOK ==
    /\ CapTypeOK
    /\ command \in {"run", "run-dist"} /\ exit \in {-1, 0, 1, 2, 130}
    /\ pc \in {"args", "estimate", "validate", "run", "save", "print", "health", "gate", "exited"}
    /\ {interrupted, killEvent, cancelled, returned} \subseteq BOOLEAN
    /\ saturation \in {"off", "warn", "kill"}
    /\ sent \in 0 .. TotalReqs /\ begun \in 0 .. sent
    /\ counted \subseteq 1 .. begun /\ lost \subseteq 1 .. begun /\ counted \cap lost = {}
    /\ bad \subseteq counted
    /\ stats \in [total : 0 .. TotalReqs, failed : 0 .. TotalReqs, p95 : 0 .. MaxP95]
    /\ format \in Format /\ screen \subseteq ReportFacts /\ saved \in {"none", "written", "lost"}
    /\ limits \in [errors : -1 .. TotalReqs, p95 : -1 .. MaxP95]

Init ==
    /\ CapInit /\ E!Init
    /\ command \in {"run", "run-dist"} /\ pc = "args" /\ exit = -1
    /\ interrupted = FALSE /\ saturation = "off" /\ killEvent = FALSE /\ bad = {}
    /\ stats = NoStats /\ format = "text" /\ screen = {} /\ saved = "none" /\ limits = NoLimits

Exit(status) == pc' = "exited" /\ exit' = status

-----------------------------------------------------------------------------
(* Flags, headers, Redis; then the estimate. *)

(* A flag, a header or Redis is not as it should be. *)
RejectArgs ==
    /\ pc = "args" /\ Exit(1)
    /\ UNCHANGED <<capVars, command, interrupted, saturation, engineVars, outputVars>>

PreRunE ==
    /\ pc = "args"
    /\ pc' = IF command = "run" THEN "validate" ELSE "run"
    /\ UNCHANGED <<capVars, command, exit, interrupted, saturation, engineVars, outputVars>>

Estimate ==
    /\ pc = "args" /\ command = "run" /\ pc' = "estimate"
    /\ StartEstimate
    /\ UNCHANGED <<command, exit, interrupted, saturation, engineVars, outputVars>>

(* Also probes that outlive a failed estimate. *)
EstimateStep == Begun /\ EstimateNext /\ UNCHANGED runVars

(* The error of an estimate is printed and forgotten.  What is left of one *)
(* are probes, of one that failed.                                         *)
EndEstimate ==
    /\ pc = "estimate" /\ epc \in {"settled", "failed"}
    /\ pc' = "validate"
    /\ epc' = IF epc = "settled" THEN "off" ELSE "failed"
    /\ clock' = 0 /\ tick' = FALSE /\ nextTick' = 0 /\ samples' = <<>> /\ firstAt' = 0 /\ completed' = 0
    /\ UNCHANGED <<timedOut, jobsLeft, probing, workerWg, drained, mpc, command, exit, interrupted,
                   saturation, engineVars, outputVars>>

-----------------------------------------------------------------------------
(* The run. *)

(* A negative rate, or a duration below a second. *)
RejectConfig ==
    /\ pc = "validate" /\ Exit(1)
    /\ UNCHANGED <<capVars, command, interrupted, saturation, engineVars, outputVars>>

StartRun ==
    /\ pc = "validate" /\ pc' = "run"
    /\ saturation' \in {"off", "warn", "kill"}
    /\ cancelled' = interrupted
    /\ UNCHANGED <<capVars, command, exit, interrupted, sent, begun, counted, lost, returned,
                   bad, killEvent, outputVars>>

EngineStep ==
    /\ pc = "run" /\ command = "run"
    /\ \/ (E!Dispatch \/ E!Begin \/ \E r \in E!Running : E!Lose(r)) /\ UNCHANGED bad
       \/ \E r \in E!Running : E!Count(r) /\ bad' \in {bad, bad \cup {r}}
    /\ UNCHANGED <<capVars, command, pc, exit, interrupted, saturation, killEvent, outputVars>>

(* A streak of failures, or the generator is saturated. *)
Abort ==
    /\ pc = "run" /\ command = "run" /\ E!Cancel
    /\ UNCHANGED <<capVars, command, pc, exit, interrupted, saturation, bad, killEvent, outputVars>>
Kill ==
    /\ pc = "run" /\ saturation = "kill" /\ killEvent' = TRUE
    /\ E!Cancel
    /\ UNCHANGED <<capVars, command, pc, exit, interrupted, saturation, bad, outputVars>>

(* A percentile is of the responses, and zero if there is none. *)
StatsOf(total, failed) ==
    {[total |-> total, failed |-> failed, p95 |-> p] :
        p \in IF total = 0 THEN {0} ELSE IF failed = total THEN 0 .. MaxP95 ELSE 1 .. MaxP95}

EndRun ==
    /\ pc = "run" /\ command = "run" /\ E!Return
    /\ stats' \in StatsOf(Cardinality(counted), Cardinality(bad))
    /\ pc' = "save"
    /\ UNCHANGED <<capVars, command, exit, interrupted, saturation, bad, killEvent, format,
                   screen, saved, limits>>

(* RunCoordinator returns a report of all jobs, or an error. *)
EndDist ==
    /\ pc = "run" /\ command = "run-dist" /\ ~ interrupted
    /\ \E failed \in 0 .. TotalReqs : stats' \in StatsOf(TotalReqs, failed)
    /\ pc' = "save"
    /\ UNCHANGED <<capVars, command, exit, interrupted, saturation, engineVars, format, screen,
                   saved, limits>>
\* Fault: the polling does not look at the context.
FailDistUnheeding ==
    /\ pc = "run" /\ command = "run-dist" /\ ~ interrupted /\ Exit(1)
    /\ UNCHANGED <<capVars, command, interrupted, saturation, engineVars, outputVars>>
FailDist ==
    /\ pc = "run" /\ command = "run-dist" /\ Exit(1)
    /\ UNCHANGED <<capVars, command, interrupted, saturation, engineVars, outputVars>>

-----------------------------------------------------------------------------
(* The report. *)

SkipFile ==
    /\ pc = "save" /\ pc' = "print"
    /\ UNCHANGED <<capVars, command, exit, interrupted, saturation, engineVars, outputVars>>

SaveFile ==
    /\ pc = "save" /\ pc' = "print"
    /\ saved' = "written"
    /\ UNCHANGED <<capVars, command, exit, interrupted, saturation, engineVars, stats, format,
                   screen, limits>>

\* Fault: the file that was not written is passed over.
FailToSaveQuietly ==
    /\ pc = "save" /\ pc' = "print"
    /\ saved' = "lost"
    /\ UNCHANGED <<capVars, command, exit, interrupted, saturation, engineVars, stats, format,
                   screen, limits>>

(* The results go with it: nothing is printed and no gate is looked at.    *)
FailToSave ==
    /\ pc = "save" /\ Exit(1)
    /\ saved' = "lost"
    /\ UNCHANGED <<capVars, command, interrupted, saturation, engineVars, stats, format,
                   screen, limits>>

(* run-dist knows json, and prints text for anything else. *)
Printed(f) == IF command = "run-dist" /\ f # "json" THEN Shown["text"] ELSE Shown[f]

HasHealth(f) == command = "run" /\ saturation # "off" /\ f \in {"text", "table"}

PrintResults ==
    /\ pc = "print"
    /\ format' \in Format
    /\ screen' = Printed(format')
    /\ pc' = IF HasHealth(format') THEN "health" ELSE "gate"
    /\ UNCHANGED <<capVars, command, exit, interrupted, saturation, engineVars, stats, saved,
                   limits>>

FormatHealthReport ==
    /\ pc = "health" /\ pc' = "gate"
    /\ screen' = screen \cup {"health"} \cup (IF killEvent THEN {"kill"} ELSE {})
    /\ UNCHANGED <<capVars, command, exit, interrupted, saturation, engineVars, stats, format, saved,
                   limits>>

-----------------------------------------------------------------------------
(* The gate, and the signal. *)

\* Fault: the gate stops at the first limit that is set.
FirstLimitOnly(s, l) ==
    IF l.errors >= 0 THEN s.failed > l.errors ELSE l.p95 >= 0 /\ s.p95 > l.p95

evaluateThresholds(s, l) ==
    \/ (l.errors >= 0 /\ s.failed > l.errors)
    \/ (l.p95 >= 0 /\ s.p95 > l.p95)

Gate ==
    /\ pc = "gate"
    /\ limits' \in [errors : -1 .. TotalReqs, p95 : -1 .. MaxP95]
    /\ Exit(IF evaluateThresholds(stats, limits') THEN 2 ELSE 0)
    /\ UNCHANGED <<capVars, command, interrupted, saturation, engineVars, stats, format, screen,
                   saved>>

(* SIGINT or SIGTERM.  The handler stays to the end, so that a second one  *)
(* does nothing.                                                           *)
Interrupt ==
    /\ ~ interrupted /\ pc \notin {"args", "exited"} /\ interrupted' = TRUE
    /\ timedOut' = (timedOut \/ Running)
    /\ cancelled' = (cancelled \/ pc = "run")
    /\ UNCHANGED <<epc, probeVars, clock, samplerVars, command, pc, exit, saturation, sent,
                   begun, counted, lost, returned, bad, killEvent, outputVars>>
InterruptEarly ==
    /\ pc = "args" /\ Exit(130)
    /\ UNCHANGED <<capVars, command, interrupted, saturation, engineVars, outputVars>>

Rest == pc = "exited" /\ UNCHANGED vars

Command ==
    \/ RejectArgs \/ PreRunE \/ Estimate \/ EndEstimate \/ RejectConfig \/ StartRun
    \/ EngineStep \/ EndRun \/ EndDist \/ FailDist
    \/ SkipFile \/ SaveFile \/ FailToSave \/ PrintResults \/ FormatHealthReport \/ Gate

Others == Abort \/ Kill \/ Interrupt \/ InterruptEarly

Next ==
    \/ pc # "exited" /\ (Command \/ EstimateStep \/ Others)
    \/ Rest

Spec == Init /\ [][Next]_vars

(* The command goes on, its goroutines and those of the estimate too; that *)
(* run-dist gets its results is not promised, that it heeds an interrupt is*)
Local == \/ RejectArgs \/ PreRunE \/ Estimate \/ EndEstimate \/ RejectConfig \/ StartRun
         \/ EngineStep \/ EndRun \/ (interrupted /\ FailDist)
         \/ SkipFile \/ SaveFile \/ FailToSave \/ PrintResults \/ FormatHealthReport \/ Gate
FairSpec == /\ Spec
            /\ WF_vars(Local)
            /\ WF_vars((SendProbe \/ EndProbe \/ RejectProbe \/ LeaveProber) /\ UNCHANGED runVars)
            /\ WF_vars(SeeDrained /\ UNCHANGED runVars)
            /\ WF_vars(FirstSample /\ UNCHANGED runVars)
            /\ WF_vars(LeaveSampler /\ UNCHANGED runVars)
            /\ WF_vars((StopMonitor \/ LastSample) /\ UNCHANGED runVars)

-----------------------------------------------------------------------------
(* Properties. *)

(* README.md:280-284: status 0 is a test that ran and kept its limits, 2 a *)
(* limit exceeded, after "the full report is always printed first".  A run *)
(* nobody cut short that passes with a limit on errors has got at least    *)
(* the workload less the limit right; one that was cut short passes on     *)
(* what it has.  Status 1 is not only the "configuration error" of the     *)
(* table: it is a test that never began, or one whose results are lost     *)
(* with their file; nothing is on the screen either way.                   *)
GateIsHonest ==
    /\ exit = 2 => /\ evaluateThresholds(stats, limits)
                   /\ {"failed", "p95"} \subseteq screen /\ saved # "lost"
    /\ exit = 1 => /\ screen = {}
                   /\ command = "run" => begun = 0 \/ saved = "lost"
    /\ exit = 0 /\ command = "run" =>
        /\ ~ cancelled => Cardinality(counted) = TotalReqs
        /\ limits.errors >= 0 => Cardinality(bad) <= limits.errors
        /\ limits.p95 >= 0 /\ bad # counted => stats.p95 \in 1 .. limits.p95
        /\ saved # "lost" /\ {"failed", "p95"} \subseteq screen

(* storm run ends by itself, whatever the interrupts, the kill and the     *)
(* estimate that was cut short; run-dist ends when it is interrupted.      *)
CommandEnds == (command = "run" \/ interrupted) ~> (pc = "exited")
=============================================================================
