-------------------------------- MODULE Dist --------------------------------
(***************************************************************************)
(* A distributed load test (internal/dist, cmd/storm/run_dist.go and       *)
(* agent.go): coordinators and agents that share one Redis.                *)
(*                                                                         *)
(*   run-dist --LPUSH--> storm:jobs --BLPOP--> worker of an agent          *)
(*   run-dist <--LLEN, LRange-- storm:results:<run> <--LPUSH-- worker      *)
(*                                                                         *)
(* One step is one Redis command, or the execution of one request.  A job  *)
(* is taken out of Redis when it is popped: from then on it exists only in *)
(* the hands of a worker.                                                  *)
(***************************************************************************)
EXTENDS Integers, Sequences, FiniteSets, SequencesExt

CONSTANTS
    RunId,          \* the runs; a run-dist command each
    NumJobs,        \* --requests
    ChunkSize,      \* jobs in one LPUSH of PushJobs (100 in the code)
    Agent,          \* the agents
    PerAgent,       \* their worker goroutines, 1..PerAgent
    StayAlive,      \* --stay-alive
    MaxMishaps      \* BOUND: crashes, interrupts, Redis errors and repeated commands

ASSUME DistAssumption ==
    /\ {NumJobs, ChunkSize, PerAgent} \subseteq Nat \ {0}
    /\ MaxMishaps \in Nat
    /\ StayAlive \in BOOLEAN
    /\ IsFiniteSet(RunId) /\ IsFiniteSet(Agent)

Worker == Agent \X (1 .. PerAgent)
JobOf(r) == [run : {r}, id : 1 .. NumJobs]
Job == UNION {JobOf(r) : r \in RunId}
NoJob == [run |-> "none", id |-> 0]

VARIABLES
    queue,          \* the list storm:jobs, its head first
    results,        \* results[r]: the list of run r, whose order nobody reads: id -> copies
    cpc,            \* cpc[r]: where the coordinator of r is
    keys,           \* keys[r]: the results lists its SCAN has found, to be deleted
    pushed,         \* pushed[r]: jobs of r handed to Redis
    report,         \* report[r]: what the coordinator read, id -> copies
    wpc,            \* wpc[w]: "pop", "exec", "push", "gone"
    hand,           \* hand[w]: the job w holds
    interrupted,    \* agents whose context is cancelled
    disturbed,      \* history: runs whose data another run's Flush may have deleted
    faults,         \* crashes, interrupts and Redis errors so far
    retries         \* commands the client repeated after a lost reply

coordinatorVars == <<cpc, keys, pushed, report, disturbed>>
agentVars == <<wpc, hand, interrupted>>
budgetVars == <<faults, retries>>
vars == <<queue, results, coordinatorVars, agentVars, budgetVars>>

CoordinatorPC == {"idle", "scan", "delete", "push", "poll", "read", "agents", "reported",
                  "failed"}
Items == [1 .. NumJobs -> Nat]
Empty == [k \in 1 .. NumJobs |-> 0]
Length(items) == Cardinality(UNION {{k} \X (1 .. items[k]) : k \in DOMAIN items})

(* Types. *)
TypeOK ==
    /\ queue \in Seq(Job)
    /\ results \in [RunId -> Items]
    /\ cpc \in [RunId -> CoordinatorPC]
    /\ keys \in [RunId -> SUBSET RunId]
    /\ disturbed \subseteq RunId
    /\ pushed \in [RunId -> 0 .. NumJobs]
    /\ report \in [RunId -> Items]
    /\ wpc \in [Worker -> {"pop", "exec", "push", "gone"}]
    /\ hand \in [Worker -> Job \cup {NoJob}]
    /\ interrupted \subseteq Agent
    /\ {faults, retries} \subseteq Nat /\ faults + retries <= MaxMishaps

Init ==
    /\ queue = <<>>
    /\ results = [r \in RunId |-> Empty]
    /\ cpc = [r \in RunId |-> "idle"]
    /\ keys = [r \in RunId |-> {}]
    /\ disturbed = {}
    /\ pushed = [r \in RunId |-> 0]
    /\ report = [r \in RunId |-> Empty]
    /\ wpc = [w \in Worker |-> "pop"]
    /\ hand = [w \in Worker |-> NoJob]
    /\ interrupted = {}
    /\ faults = 0 /\ retries = 0

(* One more fault happens, or one more command is repeated. *)
Fault == faults + retries < MaxMishaps /\ faults' = faults + 1 /\ UNCHANGED retries
Repeat == faults + retries < MaxMishaps /\ retries' = retries + 1 /\ UNCHANGED faults

-----------------------------------------------------------------------------
(* Faults of a programmer; nothing below uses them. *)

\* One results list for all runs: whoever polls now gets the result.
PushResultShared(w) ==
    /\ wpc[w] = "push" /\ w[1] \notin interrupted
    /\ results' = [r \in RunId |-> IF cpc[r] \in {"push", "poll", "read"} \/ r = hand[w].run
                                   THEN [results[r] EXCEPT ![hand[w].id] = @ + 1]
                                   ELSE results[r]]
    /\ wpc' = [wpc EXCEPT ![w] = "pop"]
    /\ hand' = [hand EXCEPT ![w] = NoJob]
    /\ UNCHANGED <<queue, coordinatorVars, interrupted, budgetVars>>

\* A worker that logs the error and takes the next job.
FailPushResultGoOn(w) ==
    /\ wpc[w] = "push"
    /\ IF w[1] \in interrupted THEN UNCHANGED budgetVars ELSE Fault
    /\ wpc' = [wpc EXCEPT ![w] = "pop"]
    /\ hand' = [hand EXCEPT ![w] = NoJob]
    /\ UNCHANGED <<queue, results, coordinatorVars, interrupted>>

\* > instead of >= .
PollStrict(r) ==
    /\ cpc[r] = "poll"
    /\ Length(results[r]) > NumJobs
    /\ cpc' = [cpc EXCEPT ![r] = "read"]
    /\ UNCHANGED <<queue, results, keys, pushed, report, disturbed, agentVars, budgetVars>>

\* The list looked at instead of its head taken: LINDEX for BLPOP.
PopJobPeek(w) ==
    /\ wpc[w] = "pop" /\ w[1] \notin interrupted
    /\ queue # <<>>
    /\ hand' = [hand EXCEPT ![w] = Head(queue)]
    /\ wpc' = [wpc EXCEPT ![w] = "exec"]
    /\ UNCHANGED <<queue, results, coordinatorVars, interrupted, budgetVars>>

-----------------------------------------------------------------------------
(* A coordinator.  Flush empties the job list and then deletes every       *)
(* results list it finds, those of other runs included.                    *)

Live(r) == cpc[r] \in {"scan", "delete", "push", "poll", "read", "agents"}
Others(r) == {s \in RunId \ {r} : Live(s)}

FlushQueue(r) ==
    /\ cpc[r] = "idle"
    /\ cpc' = [cpc EXCEPT ![r] = "scan"]
    /\ queue' = <<>>
    /\ disturbed' = disturbed \cup Others(r)
    /\ UNCHANGED <<results, keys, pushed, report, agentVars, budgetVars>>

ScanResults(r) ==
    /\ cpc[r] = "scan"
    /\ cpc' = [cpc EXCEPT ![r] = "delete"]
    /\ keys' = [keys EXCEPT ![r] = {s \in RunId : results[s] # Empty}]
    /\ UNCHANGED <<queue, results, pushed, report, disturbed, agentVars, budgetVars>>

DeleteResults(r) ==
    /\ cpc[r] = "delete"
    /\ cpc' = [cpc EXCEPT ![r] = "push"]
    /\ results' = [s \in RunId |-> IF s \in keys[r] THEN Empty ELSE results[s]]
    /\ keys' = [keys EXCEPT ![r] = {}]
    /\ disturbed' = disturbed \cup (Others(r) \cap keys[r])
    /\ UNCHANGED <<queue, pushed, report, agentVars, budgetVars>>

(* The next chunk, up to last.  LPUSH puts one item after the other in     *)
(* front of the list.                                                      *)
LastOf(r) == IF pushed[r] + ChunkSize > NumJobs THEN NumJobs ELSE pushed[r] + ChunkSize
Chunk(r, last) == [k \in 1 .. last - pushed[r] |-> [run |-> r, id |-> pushed[r] + k]]

\* > instead of >=, and the end of the chunk is not cut: jobs past the last.
PushJobsPastEnd(r) ==
    /\ cpc[r] = "push"
    /\ LET last == pushed[r] + ChunkSize IN
        /\ queue' = Reverse(Chunk(r, last)) \o queue
        /\ pushed' = [pushed EXCEPT ![r] = last]
        /\ cpc' = [cpc EXCEPT ![r] = IF last > NumJobs THEN "poll" ELSE "push"]
    /\ UNCHANGED <<results, keys, report, disturbed, agentVars, budgetVars>>

PushJobs(r) ==
    /\ cpc[r] = "push"
    /\ queue' = Reverse(Chunk(r, LastOf(r))) \o queue
    /\ pushed' = [pushed EXCEPT ![r] = LastOf(r)]
    /\ cpc' = [cpc EXCEPT ![r] = IF LastOf(r) = NumJobs THEN "poll" ELSE "push"]
    /\ UNCHANGED <<results, keys, report, disturbed, agentVars, budgetVars>>

(* The reply is lost and the client sends the command again. *)
PushJobsAgain(r) ==
    /\ cpc[r] = "push"
    /\ Repeat
    /\ queue' = Reverse(Chunk(r, LastOf(r))) \o queue
    /\ UNCHANGED <<results, coordinatorVars, agentVars>>

Poll(r) ==
    /\ cpc[r] = "poll"
    /\ Length(results[r]) >= NumJobs
    /\ cpc' = [cpc EXCEPT ![r] = "read"]
    /\ UNCHANGED <<queue, results, keys, pushed, report, disturbed, agentVars, budgetVars>>

ReadResults(r) ==
    /\ cpc[r] = "read"
    /\ cpc' = [cpc EXCEPT ![r] = "agents"]
    /\ report' = [report EXCEPT ![r] = results[r]]
    /\ UNCHANGED <<queue, results, keys, pushed, disturbed, agentVars, budgetVars>>

(* The registry is asked for the names of the agents; an error now costs   *)
(* the report that is already there.                                       *)
ReadAgents(r) ==
    /\ cpc[r] = "agents"
    /\ cpc' = [cpc EXCEPT ![r] = "reported"]
    /\ UNCHANGED <<queue, results, keys, pushed, report, disturbed, agentVars, budgetVars>>

(* A Redis error or an interrupt: run-dist returns the error and leaves    *)
(* behind what it has put into Redis.                                      *)
FailCoordinator(r) ==
    /\ Live(r)
    /\ Fault
    /\ cpc' = [cpc EXCEPT ![r] = "failed"]
    /\ UNCHANGED <<queue, results, keys, pushed, report, disturbed, agentVars>>

Coordinator ==
    \E r \in RunId : \/ FlushQueue(r) \/ ScanResults(r) \/ DeleteResults(r)
                     \/ PushJobs(r) \/ PushJobsAgain(r)
                     \/ Poll(r) \/ ReadResults(r) \/ ReadAgents(r) \/ FailCoordinator(r)

-----------------------------------------------------------------------------
(* A worker of an agent. *)

PopJob(w) ==
    /\ wpc[w] = "pop" /\ w[1] \notin interrupted
    /\ queue # <<>>
    /\ queue' = Tail(queue)
    /\ hand' = [hand EXCEPT ![w] = Head(queue)]
    /\ wpc' = [wpc EXCEPT ![w] = "exec"]
    /\ UNCHANGED <<results, coordinatorVars, interrupted, budgetVars>>

(* A repeated BLPOP takes the next job; nobody has got the first one. *)
PopJobAgain(w) ==
    /\ wpc[w] = "pop" /\ w[1] \notin interrupted
    /\ queue # <<>>
    /\ Repeat
    /\ queue' = Tail(queue)
    /\ UNCHANGED <<results, coordinatorVars, agentVars>>

(* The queue stayed empty for IdleTimeout. *)
IdleExit(w) ==
    /\ wpc[w] = "pop" /\ queue = <<>> /\ ~ StayAlive
    /\ wpc' = [wpc EXCEPT ![w] = "gone"]
    /\ UNCHANGED <<queue, results, coordinatorVars, hand, interrupted, budgetVars>>

(* Whatever the request came to, there is a result. *)
Execute(w) ==
    /\ wpc[w] = "exec"
    /\ wpc' = [wpc EXCEPT ![w] = "push"]
    /\ UNCHANGED <<queue, results, coordinatorVars, hand, interrupted, budgetVars>>

PushResult(w) ==
    /\ wpc[w] = "push" /\ w[1] \notin interrupted
    /\ results' = [results EXCEPT ![hand[w].run][hand[w].id] = @ + 1]
    /\ wpc' = [wpc EXCEPT ![w] = "pop"]
    /\ hand' = [hand EXCEPT ![w] = NoJob]
    /\ UNCHANGED <<queue, coordinatorVars, interrupted, budgetVars>>

PushResultAgain(w) ==
    /\ wpc[w] = "push" /\ w[1] \notin interrupted
    /\ Repeat
    /\ results' = [results EXCEPT ![hand[w].run][hand[w].id] = @ + 1]
    /\ UNCHANGED <<queue, coordinatorVars, agentVars>>

(* PushResult returns an error - always so when the agent's context is     *)
(* cancelled: the worker leaves, and the result with it.                   *)
FailPushResult(w) ==
    /\ wpc[w] = "push"
    /\ IF w[1] \in interrupted THEN UNCHANGED budgetVars ELSE Fault
    /\ wpc' = [wpc EXCEPT ![w] = "gone"]
    /\ hand' = [hand EXCEPT ![w] = NoJob]
    /\ UNCHANGED <<queue, results, coordinatorVars, interrupted>>

(* BLPOP fails; the server may have popped already. *)
FailPopJob(w) ==
    /\ wpc[w] = "pop"
    /\ IF w[1] \in interrupted THEN UNCHANGED budgetVars ELSE Fault
    /\ queue' \in {queue} \cup (IF queue # <<>> THEN {Tail(queue)} ELSE {})
    /\ wpc' = [wpc EXCEPT ![w] = "gone"]
    /\ UNCHANGED <<results, coordinatorVars, hand, interrupted>>

Agents ==
    \E w \in Worker : \/ PopJob(w) \/ PopJobAgain(w) \/ FailPopJob(w) \/ IdleExit(w)
                      \/ Execute(w)
                      \/ PushResult(w) \/ PushResultAgain(w) \/ FailPushResult(w)

(* Ctrl-C or SIGTERM cancels the context all of an agent's workers share. *)
Interrupt(a) ==
    /\ a \notin interrupted
    /\ Fault
    /\ interrupted' = interrupted \cup {a}
    /\ UNCHANGED <<queue, results, coordinatorVars, wpc, hand>>

(* The process dies with what its workers hold. *)
Crash(a) ==
    /\ \E w \in Worker : w[1] = a /\ wpc[w] # "gone"
    /\ Fault
    /\ wpc' = [w \in Worker |-> IF w[1] = a THEN "gone" ELSE wpc[w]]
    /\ hand' = [w \in Worker |-> IF w[1] = a THEN NoJob ELSE hand[w]]
    /\ UNCHANGED <<queue, results, coordinatorVars, interrupted>>

(* What cannot be stopped is over: no run is live, or no worker is left to *)
(* serve the one that polls.                                               *)
Rest ==
    /\ \A r \in RunId : ~ Live(r) \/ cpc[r] = "poll"
    /\ UNCHANGED vars

Next ==
    \/ Coordinator
    \/ Agents
    \/ \E a \in Agent : Interrupt(a) \/ Crash(a)
    \/ Rest

Spec == Init /\ [][Next]_vars

(* run-dist goes on once it is started, and so does a worker; a worker that*)
(* waits on Redis again and again gets a job.                              *)
FairSpec == /\ Spec
            /\ \A r \in RunId : WF_vars(ScanResults(r) \/ DeleteResults(r) \/ PushJobs(r)
                                        \/ Poll(r) \/ ReadResults(r) \/ ReadAgents(r))
            /\ \A w \in Worker : WF_vars(Execute(w) \/ PushResult(w) \/ FailPushResult(w))
                                 /\ SF_vars(PopJob(w))

-----------------------------------------------------------------------------
(* Properties. *)

(* "waits until every result has landed" (coordinator.go:18), "results     *)
(* from older runs can never leak into this report" (20-21): unless another*)
(* run-dist flushed Redis meanwhile, a report holds its own results, each  *)
(* job once, whatever older runs left in the queue, in the results lists   *)
(* and in the hands of workers; a repeated command puts at most one chunk  *)
(* of duplicates in the place of results that are missing.                 *)
ReportIsOwnAndWhole ==
    \A r \in RunId : cpc[r] = "reported" /\ r \notin disturbed =>
        /\ Length(report[r]) \in NumJobs .. NumJobs + retries * ChunkSize
        /\ Cardinality({k \in 1 .. NumJobs : report[r][k] > 0})
             >= NumJobs - retries * ChunkSize

(* A job is in one place: once in the queue, in one hand, or once in the   *)
(* results of its run, and one more for each repeated command.  Two agents *)
(* never send the same request otherwise, also while two runs overlap.     *)
Queued(b) == Cardinality({k \in DOMAIN queue : queue[k] = b})
Held(b) == Cardinality({w \in Worker : hand[w] = b})
Finished(b) == results[b.run][b.id]
OnePlace == \A b \in Job : Queued(b) + Held(b) + Finished(b) <= 1 + retries

(* Work is only lost with a worker, one job at most with each, or to a     *)
(* repeated BLPOP: of a run that polls and was not flushed, no more jobs   *)
(* are missing than workers are gone and commands were repeated.           *)
Missing(r) == {b \in JobOf(r) : b.id <= pushed[r] /\ Queued(b) + Held(b) + Finished(b) = 0}
LossPerWorker ==
    \A r \in RunId : cpc[r] = "poll" /\ r \notin disturbed =>
        Cardinality(Missing(r)) <= Cardinality({w \in Worker : wpc[w] = "gone"}) + retries

(* As long as a worker stays, nothing fails and nobody else flushes Redis, *)
(* every run that was started comes to its report.                         *)
Undisturbed == /\ faults = 0 /\ retries = 0 /\ disturbed = {}
               /\ \E w \in Worker : wpc[w] # "gone"
RunsReport == []Undisturbed => \A r \in RunId : (cpc[r] = "scan") ~> (cpc[r] = "reported")
=============================================================================
