------------------------------ MODULE Pipeline ------------------------------
(***************************************************************************)
(* The engine of storm run (pkg/storm): one producer goroutine, a pool of  *)
(* workers and the collector inside LoadTester.Run, joined by two bounded  *)
(* channels and one cancellable context.                                   *)
(*                                                                         *)
(*   produceJobs --jobs--> worker, worker, ... --results--> collectResults *)
(*                                                                         *)
(* A job is its ID.  A result is the ID and how the request ended.  Atomic *)
(* steps are the operations other goroutines can see: a channel send or    *)
(* receive, an atomic counter, a cancel.                                   *)
(***************************************************************************)
EXTENDS Integers, Sequences, FiniteSets

CONSTANTS
    Worker,           \* the worker goroutines; Config.Concurrency of them
    TotalReqs,        \* Config.TotalReqs, count mode
    Timed,            \* Config.Duration > 0: duration mode
    MaxJobs,          \* BOUND: jobs a duration-mode producer generates
    AbortThreshold    \* defaultAbortThreshold (100 in the code)

ASSUME WorkerAssumption == Worker # {} /\ IsFiniteSet(Worker)
ASSUME WorkloadAssumption ==
    /\ TotalReqs \in Nat /\ MaxJobs \in Nat /\ Timed \in BOOLEAN
    /\ ~ Timed => TotalReqs > 0
ASSUME ThresholdAssumption == AbortThreshold \in Nat \ {0}

Concurrency == Cardinality(Worker)
JobsCap == 2 * Concurrency
ResultsCap == Concurrency
Workload == IF Timed THEN MaxJobs ELSE TotalReqs

(* A Result: 2xx/3xx, another status, or Result.Error set. *)
Outcome == {"ok", "badStatus", "error"}
HasError(o) == o = "error"
CountsAsFailed(o) == o # "ok"

NoJob == 0

VARIABLES
    sent,          \* producer: jobs sent so far, i of the loop
    ppc,           \* producer: "check" the limits, in the "send" select, "closed"
    jobs,          \* the jobs channel
    expired,       \* the wall clock has passed the deadline
    ctx,           \* lt.ctx: "live", or who cancelled it first
    wpc,           \* wpc[w]: where worker w is
    job,           \* job[w]: the job w holds; kept when w returns with it
    outcome,       \* outcome[w]: how the request w holds ended
    completed,     \* lt.completed
    streak,        \* lt.consecutiveFailures
    results,       \* the results channel
    resultsClosed, \* close(lt.results) has run
    stats,         \* Stats.TotalRequests and Stats.Failed, as collected
    returned,      \* Run has its final Stats
    counted,       \* history: the jobs the collector has added
    cut            \* history: jobs already received when the deadline passed

producerVars == <<sent, ppc>>
workerVars == <<wpc, job, outcome, completed, streak>>
collectorVars == <<results, resultsClosed, stats, returned, counted>>
historyVars == <<cut>>
vars == <<sent, ppc, jobs, expired, ctx, wpc, job, outcome, completed, streak,
          results, resultsClosed, stats, returned, counted, cut>>

WorkerPC == {"select", "exec", "doomed", "tally", "abort", "deliver", "exited"}
Result == [id : Nat, outcome : Outcome]

(* Jobs received by a worker: sent, and no longer in the channel. *)
Begun == sent - Len(jobs)

(* The type of every variable; the two channels never exceed the buffers   *)
(* NewLoadTester gives them.                                               *)
TypeOK ==
    /\ sent \in Nat /\ Begun \in Nat
    /\ ppc \in {"check", "send", "closed"}
    /\ jobs \in Seq(Nat) /\ Len(jobs) <= JobsCap
    /\ expired \in BOOLEAN
    /\ ctx \in {"live", "killed", "aborted"}
    /\ wpc \in [Worker -> WorkerPC]
    /\ job \in [Worker -> Nat]
    /\ outcome \in [Worker -> Outcome]
    /\ completed \in Nat
    /\ streak \in Nat
    /\ results \in Seq(Result) /\ Len(results) <= ResultsCap
    /\ resultsClosed \in BOOLEAN
    /\ stats \in [total : Nat, failed : Nat]
    /\ returned \in BOOLEAN
    /\ counted \in SUBSET Nat
    /\ cut \in Nat

Cancelled == ctx # "live"

Init ==
    /\ sent = 0 /\ ppc = "check" /\ jobs = <<>>
    /\ expired = FALSE /\ ctx = "live"
    /\ wpc = [w \in Worker |-> "select"]
    /\ job = [w \in Worker |-> NoJob]
    /\ outcome = [w \in Worker |-> "ok"]
    /\ completed = 0 /\ streak = 0
    /\ results = <<>> /\ resultsClosed = FALSE
    /\ stats = [total |-> 0, failed |-> 0]
    /\ returned = FALSE
    /\ counted = {} /\ cut = 0

-----------------------------------------------------------------------------
(* Faults: slips a programmer could make in this code.  Nothing below uses *)
(* them; each one replaces the definition it is named after in a run that  *)
(* must then refute a property.                                            *)

\* The count-mode limit compared with > : one job too many.
CheckLimitsOffByOne ==
    /\ ppc = "check"
    /\ ppc' = IF (IF Timed THEN expired ELSE sent > TotalReqs) THEN "closed" ELSE "send"
    /\ UNCHANGED <<sent, jobs, expired, ctx, workerVars, collectorVars, historyVars>>

\* The jobs channel without a bound.
SendJobUnbounded ==
    /\ ppc = "send"
    /\ sent < Workload
    /\ sent' = sent + 1
    /\ jobs' = Append(jobs, sent + 1)
    /\ ppc' = "check"
    /\ UNCHANGED <<expired, ctx, workerVars, collectorVars, historyVars>>

\* The deadline looked at once, before the loop.
SendJobNoRecheck ==
    /\ ppc = "send"
    /\ Len(jobs) < JobsCap
    /\ sent' = sent + 1
    /\ jobs' = Append(jobs, sent + 1)
    /\ ppc' = IF Timed THEN "send" ELSE "check"
    /\ UNCHANGED <<expired, ctx, workerVars, collectorVars, historyVars>>

\* break instead of return in the ctx.Done() case of the select.
StopProducerBreak ==
    /\ ppc = "send"
    /\ Cancelled
    /\ ppc' = "check"
    /\ UNCHANGED <<sent, jobs, expired, ctx, workerVars, collectorVars, historyVars>>

\* A worker that leaves when it finds the channel empty rather than closed.
LeaveSelectWhenIdle(w) ==
    /\ wpc[w] = "select"
    /\ Cancelled \/ jobs = <<>>
    /\ wpc' = [wpc EXCEPT ![w] = "exited"]
    /\ UNCHANGED <<producerVars, jobs, expired, ctx, job, outcome, completed,
                   streak, collectorVars, historyVars>>

\* Every response counted as a failure, whatever its outcome.
TallyOutcomeAlways(w) ==
    /\ wpc[w] = "tally"
    /\ streak' = streak + 1
    /\ wpc' = [wpc EXCEPT ![w] = IF streak' >= AbortThreshold THEN "abort" ELSE "deliver"]
    /\ UNCHANGED <<producerVars, jobs, expired, ctx, job, outcome, completed,
                   collectorVars, historyVars>>

\* The delivered result is delivered again.
DeliverResultTwice(w) ==
    /\ wpc[w] = "deliver"
    /\ Len(results) < ResultsCap
    /\ results' = Append(results, [id |-> job[w], outcome |-> outcome[w]])
    /\ UNCHANGED <<producerVars, jobs, expired, ctx, wpc, job, outcome, completed,
                   streak, resultsClosed, stats, returned, counted, historyVars>>

\* A non-blocking send: select with a default case.
DropResultWhenFull(w) ==
    /\ wpc[w] = "deliver"
    /\ Cancelled \/ Len(results) = ResultsCap
    /\ wpc' = [wpc EXCEPT ![w] = "exited"]
    /\ UNCHANGED <<producerVars, jobs, expired, ctx, job, outcome, completed,
                   streak, collectorVars, historyVars>>

\* break instead of return: the worker drops the result and goes on.
DropResultBreak(w) ==
    /\ wpc[w] = "deliver"
    /\ Cancelled
    /\ job' = [job EXCEPT ![w] = NoJob]
    /\ wpc' = [wpc EXCEPT ![w] = "select"]
    /\ UNCHANGED <<producerVars, jobs, expired, ctx, outcome, completed,
                   streak, collectorVars, historyVars>>

\* wg.Add missing for all workers but one.
CloseResultsEarly ==
    /\ ~ resultsClosed
    /\ \E w \in Worker : wpc[w] = "exited"
    /\ resultsClosed' = TRUE
    /\ UNCHANGED <<producerVars, jobs, expired, ctx, workerVars, results, stats,
                   returned, counted, historyVars>>

-----------------------------------------------------------------------------
(* The producer. *)

(* The limits are looked at only here, never again while blocked in Send.  *)
CheckLimits ==
    /\ ppc = "check"
    /\ \/ /\ IF Timed THEN expired ELSE sent >= TotalReqs
          /\ ppc' = "closed"
       \/ /\ IF Timed THEN ~ expired /\ sent < MaxJobs ELSE sent < TotalReqs
          /\ ppc' = "send"
    /\ UNCHANGED <<sent, jobs, expired, ctx, workerVars, collectorVars, historyVars>>

SendJob ==
    /\ ppc = "send"
    /\ Len(jobs) < JobsCap
    /\ sent' = sent + 1
    /\ jobs' = Append(jobs, sent + 1)
    /\ ppc' = "check"
    /\ UNCHANGED <<expired, ctx, workerVars, collectorVars, historyVars>>

StopProducer ==
    /\ ppc = "send"
    /\ Cancelled
    /\ ppc' = "closed"
    /\ UNCHANGED <<sent, jobs, expired, ctx, workerVars, collectorVars, historyVars>>

Producer == CheckLimits \/ SendJob \/ StopProducer

-----------------------------------------------------------------------------
(* A worker. *)

(* Both cases of the select may be ready, and Go picks either: a cancelled *)
(* worker can still receive a job, but the HTTP client then refuses it.    *)
ReceiveJob(w) ==
    /\ wpc[w] = "select"
    /\ jobs # <<>>
    /\ job' = [job EXCEPT ![w] = Head(jobs)]
    /\ jobs' = Tail(jobs)
    /\ wpc' = [wpc EXCEPT ![w] = IF Cancelled THEN "doomed" ELSE "exec"]
    /\ UNCHANGED <<producerVars, expired, ctx, outcome, completed, streak,
                   collectorVars, historyVars>>

LeaveSelect(w) ==
    /\ wpc[w] = "select"
    /\ Cancelled \/ (jobs = <<>> /\ ppc = "closed")
    /\ wpc' = [wpc EXCEPT ![w] = "exited"]
    /\ UNCHANGED <<producerVars, jobs, expired, ctx, job, outcome, completed,
                   streak, collectorVars, historyVars>>

FinishRequest(w, o) ==
    /\ \/ wpc[w] = "exec"
       \/ wpc[w] = "doomed" /\ o = "error"
    /\ outcome' = [outcome EXCEPT ![w] = o]
    /\ completed' = completed + 1
    /\ wpc' = [wpc EXCEPT ![w] = "tally"]
    /\ UNCHANGED <<producerVars, jobs, expired, ctx, job, streak, collectorVars,
                   historyVars>>

(* consecutiveFailures.Add(1), or Store(0); shared by all workers. *)
TallyOutcome(w) ==
    /\ wpc[w] = "tally"
    /\ streak' = IF HasError(outcome[w]) THEN streak + 1 ELSE 0
    /\ wpc' = [wpc EXCEPT ![w] = IF streak' >= AbortThreshold THEN "abort" ELSE "deliver"]
    /\ UNCHANGED <<producerVars, jobs, expired, ctx, job, outcome, completed,
                   collectorVars, historyVars>>

(* lt.cancel(); return - the result in hand is not delivered. *)
AbortRun(w) ==
    /\ wpc[w] = "abort"
    /\ ctx' = IF Cancelled THEN ctx ELSE "aborted"
    /\ wpc' = [wpc EXCEPT ![w] = "exited"]
    /\ UNCHANGED <<producerVars, jobs, expired, job, outcome, completed, streak,
                   collectorVars, historyVars>>

DeliverResult(w) ==
    /\ wpc[w] = "deliver"
    /\ Len(results) < ResultsCap
    /\ results' = Append(results, [id |-> job[w], outcome |-> outcome[w]])
    /\ job' = [job EXCEPT ![w] = NoJob]
    /\ outcome' = [outcome EXCEPT ![w] = "ok"]
    /\ wpc' = [wpc EXCEPT ![w] = "select"]
    /\ UNCHANGED <<producerVars, jobs, expired, ctx, completed, streak,
                   resultsClosed, stats, returned, counted, historyVars>>

DropResult(w) ==
    /\ wpc[w] = "deliver"
    /\ Cancelled
    /\ wpc' = [wpc EXCEPT ![w] = "exited"]
    /\ UNCHANGED <<producerVars, jobs, expired, ctx, job, outcome, completed,
                   streak, collectorVars, historyVars>>

WorkerStep(w) ==
    \/ ReceiveJob(w) \/ LeaveSelect(w)
    \/ \E o \in Outcome : FinishRequest(w, o)
    \/ TallyOutcome(w) \/ AbortRun(w)
    \/ DeliverResult(w) \/ DropResult(w)

-----------------------------------------------------------------------------
(* Run: the closing goroutine, the collecting loop, the return. *)

CloseResults ==
    /\ ~ resultsClosed
    /\ \A w \in Worker : wpc[w] = "exited"
    /\ resultsClosed' = TRUE
    /\ UNCHANGED <<producerVars, jobs, expired, ctx, workerVars, results, stats,
                   returned, counted, historyVars>>

CollectResult ==
    /\ results # <<>>
    /\ LET r == Head(results) IN
        /\ stats' = [total  |-> stats.total + 1,
                     failed |-> stats.failed + (IF CountsAsFailed(r.outcome) THEN 1 ELSE 0)]
        /\ counted' = counted \cup {r.id}
    /\ results' = Tail(results)
    /\ UNCHANGED <<producerVars, jobs, expired, ctx, workerVars, resultsClosed,
                   returned, historyVars>>

ReturnStats ==
    /\ ~ returned
    /\ results = <<>> /\ resultsClosed
    /\ returned' = TRUE
    /\ UNCHANGED <<producerVars, jobs, expired, ctx, workerVars, results,
                   resultsClosed, stats, counted, historyVars>>

Collector == CloseResults \/ CollectResult \/ ReturnStats

-----------------------------------------------------------------------------
(* What happens to the run. *)

PassDeadline ==
    /\ Timed /\ ~ expired
    /\ expired' = TRUE
    /\ cut' = Begun
    /\ UNCHANGED <<producerVars, jobs, ctx, workerVars, collectorVars>>

(* The saturation watchdog, or the interrupt that cancels the parent.  *)
Kill ==
    /\ ~ Cancelled /\ ~ returned
    /\ ctx' = "killed"
    /\ UNCHANGED <<producerVars, jobs, expired, workerVars, collectorVars, historyVars>>

(* Every goroutine of the run is gone: stuttering here is not a deadlock. *)
AllGone ==
    /\ returned /\ ppc = "closed"
    /\ UNCHANGED vars

Next ==
    \/ Producer
    \/ \E w \in Worker : WorkerStep(w)
    \/ Collector
    \/ PassDeadline
    \/ Kill
    \/ AllGone

(* The Go scheduler runs every runnable goroutine and the clock advances.  *)
(* A request ends because http.Client.Timeout is set (the CLI defaults to  *)
(* 10 s) or because its context is cancelled.                              *)
Fairness ==
    /\ WF_vars(Producer)
    /\ \A w \in Worker : WF_vars(WorkerStep(w))
    /\ WF_vars(Collector)
    /\ WF_vars(PassDeadline)

Spec == Init /\ [][Next]_vars
FairSpec == Spec /\ Fairness

-----------------------------------------------------------------------------
(* Properties. *)

Holds(w) == job[w] # NoJob
Queued == {jobs[k] : k \in 1 .. Len(jobs)}
InHand == {job[w] : w \in {v \in Worker : Holds(v)}}
Delivered == {results[k].id : k \in 1 .. Len(results)}
Lost == {job[w] : w \in {v \in Worker : Holds(v) /\ wpc[v] = "exited"}}

(* At most once: no job is in two places at a time.  The queue holds the   *)
(* jobs no worker has received, in order; two workers never hold the same  *)
(* job; no result is waiting twice; and a job that is waiting as a result  *)
(* is not being worked on or counted again.  (worker.go, the select loops) *)
AtMostOnce ==
    /\ \A k \in 1 .. Len(jobs) : jobs[k] = Begun + k
    /\ \A w \in Worker : Holds(w) =>
        /\ job[w] <= Begun
        /\ job[w] \notin Delivered \cup counted
        /\ \A v \in Worker \ {w} : job[v] # job[w]
    /\ \A k \in 1 .. Len(results) :
        /\ results[k].id \in (1 .. Begun) \ counted
        /\ \A m \in 1 .. Len(results) : m # k => results[m].id # results[k].id

(* Nothing falls out of the pipeline while the run is live: every job sent *)
(* is in the queue, with a worker that is still at work, waiting as a      *)
(* result, or counted.                                                     *)
NothingLostWhileLive ==
    ~ Cancelled => 1 .. sent = Queued \cup (InHand \ Lost) \cup Delivered \cup counted

(* A run nobody cancelled reports the whole workload, and nothing twice:   *)
(* in count mode the total is exactly TotalReqs, and it is what Completed()*)
(* says (storm.go Run, collector.go).                                      *)
CompleteReport ==
    returned /\ ~ Cancelled =>
        /\ stats.total = completed
        /\ stats.total = sent
        /\ ~ Timed => stats.total = TotalReqs

(* A cancelled run under-reports, but by at most one request per worker:   *)
(* Completed() and the reported total differ by no more than Concurrency.  *)
LossBounded ==
    returned => completed - stats.total \in 0 .. Concurrency

(* A run is aborted only on the evidence of AbortThreshold failures: those *)
(* the report has, and those the workers that gave up still hold.          *)
AbortHasEvidence ==
    returned /\ ctx = "aborted" =>
        stats.failed + Cardinality({w \in Worker : Holds(w) /\ CountsAsFailed(outcome[w])})
            >= AbortThreshold

(* The deadline is not checked while jobs wait in the channel or the send  *)
(* is blocked, so requests do start after it; but never more than the      *)
(* channel holds and the one the producer is blocked on.                   *)
LateWorkBounded ==
    expired => Begun - cut <= JobsCap + 1

(* The run returns, and no goroutine of it stays behind. *)
EverythingStops == <>[](returned /\ ppc = "closed" /\ \A w \in Worker : wpc[w] = "exited")

(* What AtMostOnce rests on: a worker holds a job exactly while it works   *)
(* on it (or returned with it), and only received jobs are ever counted.   *)
HandsOK ==
    /\ \A w \in Worker :
        /\ wpc[w] = "select" => ~ Holds(w)
        /\ wpc[w] \notin {"select", "exited"} => Holds(w)
    /\ counted \subseteq 1 .. Begun

(* The engine keeps the promise LoadRun states. *)
Abstract == INSTANCE LoadRun WITH
    TotalReqs <- TotalReqs, Timed <- Timed,
    sent <- sent, begun <- Begun, counted <- counted, lost <- Lost,
    cancelled <- Cancelled, returned <- returned

ImplementsLoadRun == Abstract!Spec

-----------------------------------------------------------------------------
(* What the repository's text says, and the code does not do. *)

(* "Termination is graceful: in-flight requests finish and are counted"    *)
(* (storm.go:88-89).  A request that got its response was in flight when   *)
(* the kill came, or finished before; the report has it either way.        *)
KillCountsInFlight ==
    returned /\ ctx = "killed" => \A w \in Worker : Holds(w) => HasError(outcome[w])
=============================================================================
