# go-storm, specified in TLA+

go-storm is an HTTP load generator written in Go: an engine that fires requests
from a pool of workers (`pkg/storm`), a distributed mode in which agents take
jobs from a Redis queue (`internal/dist`), an HTTP transport layer
(`internal/transport`) and a CLI (`cmd/storm`). This directory specifies the
parts of it that have state, order and arithmetic worth getting right, checks
them with TLC and proves the most important results with TLAPS.

## 1. Inventory

| Component | State | Operations | Hard behaviour |
|---|---|---|---|
| Load engine (`storm.go`, `scheduler.go`, `worker.go`, `config.go`) | channels `jobs` (cap 2C) and `results` (cap C), the run context, counters `completed`, `consecutiveFailures`, `stats` | `produceJobs`, `worker`, `collectResults`, the closing goroutine, `Run` | C+3 goroutines, a `select` that may pick either ready case, cancel in the middle of anything, a deadline that is only looked at in one place |
| Arrival schedule (`arrival.go`) | telemetry, slot index `j`, timer | `dueIndex`, `slotOffsetNS`, `arrivalLimit`, `produceScheduled`, `record`, `snapshot` | 128-bit intermediates narrowed to int64, catch-up batches, producer not joined |
| Saturation watchdog (`saturation_watch.go`, `saturation.go`, tail of `Run`) | streak, `killEvent`, health report | `watchSaturation`, `evaluateLiveSaturation`, `buildHealthReport` | kill racing the end of the run, two loads of one pointer |
| System monitor, capacity estimate (`monitor.go`, `capacity.go`) | ring of samples, a channel of probes, `completed` | `Start`, `Stop`, `sample`, `EstimateCapacity` | a window cut to the ring against a count of everything, ticks that come late and then two at once, a late first sample, a select on the end of the probes and on the context |
| Streaming statistics (`collector.go`, `loghistogram.go`, `aggregate.go`) | counters, log-linear buckets | `Add`, `Stats`, `Observe`, `Percentile`, `Merge` | bucket arithmetic, agreement of streaming and exact percentiles |
| Request execution (`execute.go`) | `ConnectionStats` atomics, per-request `newConn` | `Execute`, `Snapshot` | dial callbacks from other goroutines, dials that lose against another connection and come too late, addresses tried side by side of which two may connect, connections that HTTP/2 shares |
| Distributed mode (`internal/dist`) | Redis lists and keys, agents, coordinator | `PushJobs`, `PopJob`, `PushResult`, `ResultsCount`, `Flush`, `RunAgent`, `RunCoordinator`, registry | crash between pop and push, expiry of keys, two coordinators, partial pushes |
| Transport statistics (`internal/transport`) | atomics | `Record*`, `Snapshot`, `Reset`, the tracing client and round tripper | torn snapshots, reset racing record, two definitions of a pool hit, one of which HTTP/2 never meets |
| CLI (`cmd/storm`, `report.go`, `thresholds.go`) | flags, the signal context, the report file, exit status | `run`, `run-dist`, `agent`; estimate, run, save, print, health report, gates | an interrupt in any stage, a file that cannot be written, five formats of which two have the health report |

Components interact as follows. The CLI builds a `Config`, calls
`NewLoadTester`, registers hooks that feed the metrics, and calls `Run`. `Run`
starts the monitor, C workers, the producer, a goroutine that closes `results`
when the last worker is gone, and (with `--saturation-kill`) the watchdog; it
then collects results until the channel is closed. The run context is shared by
the producer's sends, the workers' selects and every HTTP request; it is
cancelled by the watchdog, by a worker that sees the 100th consecutive failure,
or from outside (interrupt). In distributed mode `RunCoordinator` waits for
agents in the registry, pushes the jobs, and polls the length of its result
list; each agent pops, calls the same `Execute`, and pushes the result.

What makes each component correct:

- **Load engine** - every request runs at most once; nothing is lost while the
  run is live and at most one result per worker when it is cancelled; an
  undisturbed run reports exactly its workload; it returns only when nobody is
  at work any more; every goroutine ends.
- **Arrival schedule** - no job before its slot, exactly the number of jobs fixed
  before the run, every late job measured, and the measurements read when they
  are final.
- **Watchdog** - a kill is sustained and about the generator, an unfinished run
  says why in both reports, nothing writes the reported snapshot, nobody outlives
  the run.
- **Distributed mode** - a report holds its own results and each job once; work
  is only lost with a worker; a run nobody disturbs comes to its report; an entry
  in the registry means an agent that is alive.
- **Streaming statistics** - the same numbers as the batch statistics,
  percentiles within the promised relative error and in order.
- **Capacity estimate** - a result is of all probes, none of which disturbs the
  run that follows, and the time it divides by is known: all of it, or a part
  that is not below a bound.
- **Connection and transport statistics** - a hit is a reuse; what the tracing
  client calls one is a return; the connections created are those made, under
  way, and the losers of a race; counters raised in pairs stay together.
- **CLI** - the exit status means what the documentation says, or what the code
  makes of it beyond that, and the command ends whatever happens.

## 2. Modules

| Module | Models | Composed of |
|---|---|---|
| `LoadRun` | what a run promises: dispatch, begin, count, lose, return | |
| `Pipeline` | producer, workers, channels, closing goroutine, collection, return of `Run` | implements `LoadRun` |
| `PipelineProofs` | theorems about `Pipeline` | |
| `ArrivalMath` | `dueIndex`, `slotOffsetNS`, `arrivalLimit`, in integers and in machine words | |
| `ArrivalSchedule` | `produceScheduled`, its telemetry and `Run`'s readings of it | `ArrivalMath` |
| `ArrivalProofs` | theorems about `ArrivalSchedule` | |
| `Saturation` | `CheckSaturation`, thresholds, the choice of a kill reason | |
| `Watchdog` | `watchSaturation`, the monitor's goroutine, the tail of `Run` | `Saturation`, with `LoadRun` as the engine |
| `WatchdogProofs` | theorems about `Watchdog` | |
| `Dist` | run-dist, agents and the Redis lists they share | |
| `DistProofs` | theorems about `Dist` | |
| `Registry` | registration, heartbeats, expiry, `waitForAgents`, shared names | |
| `RegistryProofs` | theorems about `Registry` | |
| `LogHistogram` | bucket index and percentile of the latency histogram | |
| `Collector` | `Add`, `Stats`, and `Aggregate` as the reference | `LogHistogram` |
| `CollectorProofs` | theorems about `Collector` and `LogHistogram` | |
| `ConnTrace` | `Execute`'s connection statistics and those of a tracing client, on the connections of `net/http` | |
| `TransportStats` | the counters of `internal/transport/pool.go` | |
| `TransportProofs` | theorems about `ConnTrace` and `TransportStats` | both |
| `Capacity` | `EstimateCapacity` and its monitor | |
| `RunCommand` | `storm run` and `run-dist` from flags to exit status | `Capacity`, with `LoadRun` as the engine |
| `RunCommandProofs` | theorems about `RunCommand` and `Capacity` | |

`MC*` modules add the sets and symmetries of model checking. Definitions under a
heading "Fault" are single plausible mistakes (a dropped guard, a swapped order);
no specification uses them. Each property was seen to fail when the operation of
its component is replaced by such a mistake.

### How the models correspond to the code

**Pipeline.** `jobs` and `results` are the two channels, `wpc[w]` the place of a
worker in the loop of `worker.go`: `select` (receive a job or leave), `exec`
(`executor.Execute`), `tally` (`completed` and the failure streak), `abort` (the
worker that saw the streak reach the threshold), `deliver` (the second select).
A Go `select` with two ready cases may take either, so `ReceiveJob` and
`LeaveSelect`, `DeliverResult` and `DropResult` are enabled together. The
producer is in `check` (deadline and workload), `send` (the select with the
channel), or `closed`. `Completed()`, the reported total and the set of counted
requests are separate variables, because the code counts them in different
goroutines. `ctx` tells apart a cancellation by the watchdog or an interrupt
(`Kill`, which may come at any moment) from one by a worker. `expired` becomes
true at any moment in duration mode; `cut` is the number of requests begun by
then. What happens inside a request is one of a few outcomes.

**LoadRun.** The promise in five actions. `Pipeline` implements it with `sent`,
`Begun` (what left the channel), `counted` and `Lost` (what a worker that left
still holds): a begun request that is not yet counted may be lost only when the
run was cancelled, and only one per worker follows from the refinement together
with `LossBounded`.

**ArrivalSchedule.** One action per statement of `produceScheduled` that another
goroutine can come between: look at the clock (`due`, clamped to the last slot),
send, the two halves of `record`, sleep. The clock runs at its own pace, also
between reading it and sending. In duration mode the number of jobs is
`arrivalLimit`, which is a different function from `dueIndex`: that they agree
is a property. `Run` looks at the telemetry twice, for `Stats` and for the
health report; it does not wait for the producer, only for the workers, and on
a cancellation these do not wait for it either.

**Saturation, Watchdog.** `CheckSaturation` computes seven signals from one
sample; levels, order and worst level are kept, text is not. The watchdog and
the monitor tick once a second each, independently. Storing the kill event,
cancelling the context, and `Run`'s looks at the event are separate steps.
`hot` is history: the distinct exhausted samples of the present streak.

**Dist.** Every command of run-dist is in it, also the last look at the registry,
after the results are read: an error there throws the report away. One step is one Redis command, or the execution of one request. The
queue is a sequence (LPUSH in front, BLPOP from the front, so a chunk is worked
on from its last job to its first); results are counted per job, since nobody
reads their order. `Flush` is its three commands - DEL, SCAN, DEL - and two runs
may overlap in every way. A mishap is a crash or interrupt of an agent, an error
of any command, or a command that the client sends again because the reply to
the first was lost.

**Registry.** Each agent has a name, and two may have the same one: the key is
of the name. An entry has the seconds left until it expires. Heartbeats come
every `Beat` seconds and may fail; `Agents` is a SCAN followed by one GET per
key, while entries expire and appear; the wait looks every half second, the
unit of time here, for
`AgentsWait`.

**LogHistogram, Collector.** The unit of time is the width of the narrowest
bucket, so that all bounds are integers; the exponent and mantissa of the
float64 become the binade and the bucket in it. `Aggregate` is written from the
whole list of results with sets, not as the loop that it is in the code, and so
serves as the definition the streaming statistics are compared with.

**ConnTrace.** A request needs a connection: one from the pool, or it starts a
dial and waits for whatever comes first, its dial or another connection. The
dial goes on without it. `shared` says which protocol the server speaks, the same
for the whole run. A connection of HTTP/1 serves one request at a time, is put
back (`PutIdleConn`) and handed to whoever waits. One of HTTP/2, which the
transport asks for by default (`internal/transport/config.go:65`), stays in the
pool while requests share it, and is never put back, so that `trace.go:86` never
hears of it; when it comes everybody who waits rides it. `ConnectStart` and `ConnectDone` are the
callbacks of `Execute`, one per address tried, of which there are two side by
side at most (`Racers`). Both may connect: the dialer keeps the first and closes
the other (`losers`), and neither `ConnectDone` has an error. `newConn[r]` is the flag they set,
which `Count` reads when the body has been drained. The pool itself is `net/http`
and external: what it may do is in `GetConn`, `HandOver`, `Share`, `DialEnds`,
`DropIdle` and `Retry`. `own` and `orphans` are history: which requests rode a connection
dialled for them, and which dials brought a connection nobody waited for.
`sizeConnectionPool` gives the room for idle connections.

**TransportStats.** One step is one atomic operation: a `Record` function adds
to one counter after the other (`todo`), `Reset` clears and `Snapshot` loads them
in their order. `torn` is history: the calls that a `Reset` overlapped. The
program itself calls none of them and the tests run only the `Record` functions
side by side (`TestStatsConcurrent`): the package is offered to its users, and
what is said of a `Reset` or `Snapshot` next to them is said to these.

**Capacity.** `jobsLeft` is the
channel of probes, closed before anybody reads it; `workerWg` and `drained` are
the wait group and the goroutine that waits for it. The ticker is due at
`nextTick`; the runtime fires it then or later (`FireTicker`) and leaves out what
it has missed, as `time.Ticker` does; `tick` is its channel, which holds one
tick, and the monitor may take that at any time after. A tick that was taken late
is so followed by the next at once, and two samples may coincide. The caller is
in `wait` (the select on `drained` and the context), then stops the monitor and
takes its last sample, which waits for no tick. `Window` is what the rate is
divided by, the three seconds of `capacity.go:135-138` included. `firstAt` is
history: when the monitor took its first sample, however late.

**RunCommand.** `pc` is the place in `runCmd`. A flag gets its value where it is
first looked at, so that a value nobody looks at does not multiply the states.
The engine is `LoadRun`, which `Pipeline` implements; an interrupt cancels the
context of the estimate or of the run. What a printer shows is a set of facts
(`Shown`). run-dist takes the same way past the estimate, with a report of all
jobs or an error; its own steps are in `Dist`.

## 3. Runs

| Run | Checks | Bounds |
|---|---|---|
| `pipeline_count` | all safety of the engine, the refinement of `LoadRun`, termination | two workers, five requests |
| `pipeline_timed` | how much starts after the deadline | two workers, six jobs |
| `pipeline_kill` | disagrees (section 7) | two workers, three requests |
| `arrival_schedule` | the schedule, its telemetry and what is read of it, its end, and the arithmetic | rate 4 over a window of 5 at 6 units a second, rates to 8, slots to 9 |
| `watchdog` | the kill, the two reports, the last sample, the end of both goroutines | four seconds, samples that are calm, CPU-bound or bound by garbage collection |
| `watchdog_memory` | disagrees | nine seconds of one constant footprint |
| `dist` | what a report holds, where jobs are, what is lost, that runs come to their reports | two runs, two jobs in two chunks, two agents that may leave when idle, one mishap |
| `registry` | entries and agents, the wait, who is there at the start | two agents and two names, a wait of six for both over a TTL of four, nine units of time, one heartbeat in a row lost |
| `registry_interrupt` | disagrees | the same |
| `collector` | agreement with the batch statistics, percentiles | four results, three binades of four buckets |
| `transport` | both kinds of connection statistics | three requests of two workers, HTTP/1 with room for two idle connections or HTTP/2, one retry or further address; two recorders, three calls, one reset |
| `run_command` | the estimate, the exit status, the end | two probes by two goroutines, a ring of five samples two units apart, nine units of time, two requests |

Why the bounds are enough:

- *Engine.* With two workers both channels (2C and C) fill, every pair of workers
  races on both selects, and five requests are more than the channels and hands
  hold at a time in front of the workers; the abort threshold of two is reached
  by one worker's two failures or by two workers' one each. The theorems of
  section 5 hold for any number.
- *Duration mode.* `MaxJobs` of six exceeds the buffer of four plus the blocked
  send, the bound that is checked.
- *Schedule.* The rate does not divide the second, so slots fall between ticks,
  and the last slot due at the end is beyond the limit, which exercises the
  clamp. The channel has one place and the workers may be slow for as long as
  they like. With a word of 16 some due indices and offsets no longer fit an
  int64 and some products need the high word.
- *Watchdog.* Four seconds allow a streak that is broken and a streak of the
  three that a kill needs; the engine has one request, so that it can end at any
  of the moments that matter.
- *Dist.* Two chunks of one job each let a run be interrupted, flushed or worked
  on between its pushes; two runs overlap, or follow each other with a stale
  queue, stale results and workers that still hold old jobs. The properties count
  mishaps, so that they are not weaker with more of them; one mishap is what
  tells a disturbed run from one that is not.
- *Registry.* The code has a heartbeat every second, a TTL of 5 s and a wait of
  up to 30 s (`redis.go:29-30`); the run is not to scale but keeps their order,
  heartbeat 1, TTL 4, wait 6. An agent that dies at the beginning has its entry
  expire while the coordinator still waits: before a look, between its SCAN and
  its GET, or after it, and the coordinator may have counted it by then. Nine
  units of time hold the wait, the last look, and a TTL after a death in the
  middle of it. Two agents under one name and under two are both initial states.
- *Collector.* The durations lie below the floor, exactly on the beginning of a
  binade, inside a wide bucket and at the ceiling; four equal ones make
  interpolation inside one bucket visible. Two stored errors are exceeded by
  three.
- *Transport.* A third request finds what two others did with the pool: a
  connection returned, kept, shared, closed, or brought by a dial whose request
  went on without it. One more attempt is enough for two addresses side by side,
  of which none, one or both connect, and for a retry on a dead connection. A reset of six counters, a snapshot and two calls
  interleave in every way; the two statistics share no state, so that a behaviour
  moves one of them.
- *Command.* Two probes and two goroutines let one goroutine leave while a probe
  is under way. Nine units of time are four intervals and one more: the first
  sample, four ticks and the last sample are more than the ring of five holds, so
  that it is cut, also when ticks are late and two samples coincide; the bound of
  the property is then met exactly. Two requests make a run complete
  or cut short, with one, both or none of them failed, on either side of a limit.

`CHECK_DEADLOCK FALSE` appears only in `Collector.cfg`: a collector that has its
last result stops. Other systems rest in a state they have an explicit step for.

## 4. Fairness

Only what the runtime or the code gives is assumed.

- Goroutines that can go on do (weak fairness of each goroutine's step), as the
  Go scheduler preempts and runs all of them. Fairness is per goroutine, not per
  branch of a select: that a worker leaves a `select` after a cancellation does
  not need the branch to be chosen fairly, because the channel it competes with
  runs dry.
- Requests end: `http.Client` has a timeout, and the context cancels them.
- Time passes: the deadline of a run and the clock of a schedule advance.
- Nobody needs to cancel, kill, fail or start anything: `Kill`, `Cancel`,
  faults and the start of a run-dist are never fair.
- In the watchdog, leaving on a closed channel is fair by itself: the ticker of
  the same `select` is ready once a second and the choice between ready cases
  is random, so it is not passed over for ever.
- Seconds are long: in `Watchdog` and `Registry` the clock moves on only when
  the checks, samples, heartbeats and looks of the present second are done, which
  take micro- or milliseconds in the code. Inside a second every order occurs.
- In `RunCommand` the command's own steps, the goroutines of the estimate and the
  monitor's are fair; the context of an estimate runs out or not, and run-dist is
  only assumed to return when it is interrupted. Since probes end (the client has
  a timeout), `CommandEnds` needs no more.
- In distributed mode a worker that waits on Redis again and again gets a job
  (strong fairness of `PopJob`): Redis serves blocked clients in their order.

## 5. What is proved

`PipelineProofs` proves, for every non-empty finite set of workers, every
workload in either mode and every abort threshold (the assumptions of
`Pipeline`):

| Theorem | States | Argument |
|---|---|---|
| `TypeCorrect` | `TypeOK`, with both channel bounds | inductive |
| `RunsAtMostOnce` | `AtMostOnce` | needs `HandsOK`: a worker holds a job exactly while it works on it, and only received jobs are counted. `OnceInv` is the conjunction |
| `NothingLost` | `NothingLostWhileLive` | every begun job is in a hand, delivered or counted (`Accounted`), and while the run is live a worker has left only with empty hands (`ExitInv`) |
| `LossIsBounded` | `LossBounded` | `CountInv`: what `Completed()` has beyond the collected and the waiting results is in workers' hands, of which there are as many as workers |
| `LateWork` | `LateWorkBounded` | `LateInv`: after the deadline at most the blocked send is still added to the channel |
| `ReportIsComplete` | `CompleteReport` | the above, and `WorkloadInv`: in count mode a producer that stops without a cancellation has sent all |
| `AbortsOnEvidence` | `AbortHasEvidence` | `EvidenceInv`: the streak is never ahead of the failures in the report, on the way to it and in hands that gave up or are about to; these never become fewer |
| `PipelineImplementsLoadRun` | `ImplementsLoadRun` | every step under the invariant `RefineInv` is a step of `LoadRun` or leaves its state unchanged |

`ArrivalProofs` proves, for every rate, window, workload and resolution of the
clock, `TypeCorrect`, `NeverEarly` (`NoOvershoot`), `DispatchesAll`
(`ExactDispatch`), `LateJobsAreRecorded` (`LateIsRecorded`) and `ReadsTheLastWord`
(`ReadsAreFinal`, from `ReadInv`: once the workers of a run that nobody cancelled
have left, the producer has closed its channel). The invariant `ScheduleInv` adds `BatchOK`: between the look
at the clock and the sends that follow, `due` is a slot that was due at some
time not after now and lies below the limit. The lemmas `DivBounds` and
`DueIsDue` are what is needed of integer division. `TelemetryInv` says what the
counters are in the middle of `record`, which writes them one after the other.
`ArithmeticIsExact` (`MathIsExact`) is about the functions themselves, for any
sets of rates and slots and any width of a word: `DueMeets` compares the slot due
with the offset of a slot, `LimitCounts` counts the slots before a deadline, and
`WordsMeet` follows a value through the double word, the division and the
narrowing. Only the last of these needs the result to fit.

`WatchdogProofs` proves, for any set of samples, thresholds, pace of the two
tickers and workload (`SaturationAssumption`, `WatchdogAssumption`):

| Theorem | States | Argument |
|---|---|---|
| `TypeCorrect` | `TypeOK`, and `StreakInv`: an unfinished streak is shorter than `Need` | inductive |
| `ReportsLastSample` | `SnapshotIsFinal` | `OrderInv`: `Run` comes to its tail in order, and the monitor's goroutine has left before `Stop` takes its sample |
| `UnfinishedRunIsExplained` | `UnfinishedRunSaysSo` | `EngineInv`: a run that was not cancelled has counted everything; `KillInv`: the kill is stored before the run is cancelled, and only once, so that both looks of `Run` find the same |
| `KillsAreSustained` | `KillIsSustained` | `HotInv`: the streak is of exhausted samples, and one sample is read by at most two checks - the last of its second and the first of the next. A check that reads a sample again (`Reread`) leaves it two behind at most, which is where the factor of two comes from |

`RegistryProofs` proves, for any finite set of agents under any names
(`RegistryAssumption`), `TypeCorrect`, `WaitsNotForever` (`WaitIsBounded`, from
`WaitInv`: a look begins at most one pause after `AgentsWait`),
`EntriesAreOfTheLiving` (`EntryMeansAlive`) and `StartsWithTheLiving`
(`StartsWithAgents`). `BeatAssumption` says that the TTL outlasts the heartbeats
that are lost in a row and a late one; the code has a TTL of 5 s and a heartbeat a second. `AliveInv`
says how long an entry still lives when `m` heartbeats were lost, and
`OwnerInv` that every entry is somebody's and ends a TTL after the death of all
its owners. `LookInv` says of every name a look has found that its agent had not
been dead for a TTL when the look began; distinct names are distinct agents,
which is the step from names counted to agents alive.

`RunCommandProofs` proves, for any workload, number of probes and goroutines and
any size of the ring (`CapacityAssumption`, `RunCommandAssumption`):

| Theorem | States | Argument |
|---|---|---|
| `TypeCorrect` | `TypeOK` | from the invariants below |
| `EstimatesBounded` | `EstimateIsBounded` | `ProbeInv`: every probe is in the channel, under way or done, and a goroutine leaves only an empty channel. `RingInv`: the ring begins with the first sample unless it is full, and `Gap` says how many intervals a sample is before another time, counted from the d-th sample before the last. For the time the ticker is due d is 1, or 0 with a tick in the channel, since firing it adds an interval (`Fires`); for the last sample d is 2, since between a sample and the next but one there is a tick that came due after the first of the two. `KeepShape` and `GapGrows` carry this over an append and over the drop of the oldest sample |
| `GatesHonestly` | `GateIsHonest` | `EngineInv`: requests are thrown away only after a cancellation, so that the report of a run nobody cut short is of all of them; `ReportInv`: the statistics at the gate are of the requests made, and nothing changes them between the screen and the exit; nothing is on the screen before `print`, and nothing of the engine happens before the run, which is what status 1 is about |

`DistProofs` proves, for any finite sets of runs and agents, any number of jobs
and workers and any chunk size (`DistAssumption`):

| Theorem | States | Argument |
|---|---|---|
| `TypeCorrect` | `TypeOK`, and `HandInv`: a worker holds a job exactly from the pop to the push | inductive |
| `JobsAreInOnePlace` | `OnePlace` | `PlaceInv`: before a job is pushed there is none of it but what repeated commands brought. Each command hands it on from one place to the next: lemmas say how often a job is in a chunk (`OccursInChunk`), in a list after LPUSH and BLPOP (`OccursPushed`, `OccursPopped`) and in the hands of the workers (`HoldChanges`) |
| `LossIsBounded` | `LossPerWorker` | `LossInv`: a run that has not begun to push has nothing to lose, also while it deletes; after that a job leaves the lists and hands only with a worker that goes, by a repeated BLPOP, or by a flush that disturbs the run. A crash takes with it as many jobs as workers at most, the image of those that die |
| `ReportsAreWhole` | `ReportIsOwnAndWhole` | `ExcessInv`: what there is of a run's jobs beyond one of each that is pushed comes from repeated commands, a chunk each at most (`MoveStep`, `FewAdded`), and this holds of disturbed runs too. `LengthBound` compares the lengths of two lists job by job. `ReportInv` carries the length found by the last poll over the reading: results go away only by a deletion that disturbs the run (`ResultsStay`) |

`TransportProofs` proves, for any number of requests, workers, retries and
further addresses and for either protocol (`ConnTraceAssumption`), `CreatedCounts`
(`CreatedAddsUp`: each callback of a dial adds or takes one element of the
attempts under way, of the connections made or of the losers), `HitsReuse`
(`HitsAreReuses`) and `ReturnsCover` (`ReturnsAreNotHits`). The invariants behind
the last two are `OwnInv`, that a request on its own connection has been told of
the dial before it counts; `HitInv`, that the counter is the number of requests
that ended as hits; and, for HTTP/1, `SupplyInv`, that hits, idle connections and
requests on a pooled connection together are covered by what was returned and by
what late dials brought - a connection handed over gives one ride or one place in
the pool (`HandOverMoves`).

It proves `SkewIsBounded` (`SkewBounded`) for any number of recorders, calls and
resets (`TransportStatsAssumption`). With the calls counted
that have made one of their two additions, each pair is off by at most the calls
a `Reset` overlapped (`torn`). `SkewInv` says why this also holds of a `Reset`
that is half done: from the clearing of one counter of a pair to the clearing of
the other, whatever raises the first is an overlapped call. For a `Snapshot`, the
hits it reads later are no fewer than they were when it read the reuses.
`TransportTypes` (`TypeOK`) puts the two together: the ranges need the invariants
above, `created` because it is a number of connections and attempts and so never
negative, `hits` and `misses` because they are numbers of requests.

`CollectorProofs` proves, for any durations, status codes, resolution and range
of the histogram and any number of results (`HistogramAssumption`,
`CollectorAssumption`):

| Theorem | States | Argument |
|---|---|---|
| `StreamingMatchesBatch` | `StreamingIsBatch` | `BatchInv`: after each result every counter is what a set or a sum over all results so far makes of them (`Counts`, `Tracks`, `Extremal`), and the i-th error kept is the one with i failures up to it (`Keeps`). `ErrorsMeet` and `ExtremesMeet` take this to the reference |
| `PercentilesMeet` | `PercentilesAreClose` | `Tracks`: each bucket holds the number of values whose index it has. `BucketsMeet`: buckets follow on each other without a gap, so that `Index` is the bucket a value lies in (`IndexHolds`) and ascends (`IndexAscends`). The first bucket in which the counts reach the rank is the bucket of the exact value (`AtRank`, `PercentileIs`); the estimate lies in it, and a bucket is no wider than the `Sub`-th part of its lower bound. Estimates ascend across buckets as the buckets do, inside one as the ranks do (`PercentileAscends`) |

Both need facts about sums and powers, which are defined by recursion. An
induction is a choice here: of the least number that has no such property
(`LeastNumber`), or of a minimal set (`MinimalSubset`). `SumIsUnits` says with it
that a sum is as many units as the numbers have together, a cardinality, of which
the library has what is needed; a power of two is the number of subsets of a set
(`PowerCounts`). `Aggregate` puts its `Errors` in order by counting the failures
up to each, which is the order of the code's loop and needs no sorting.

## 6. What is only model-checked

Liveness (`EverythingStops`, `ScheduleEnds`, `AllEnds`, `RunsReport`,
`CommandEnds`), which is out of the prover's reach. Every other property
of a passing run is stated by a theorem of section 5.

## 7. Where the code and its documentation disagree

Three statements of comments and documentation are refuted by a run:

- `pipeline_kill`: `storm.go:88-89` promises that requests in flight at a kill
  "finish and are counted". A worker with a finished response and a cancelled
  context may take the other branch of the select, and the result is gone.
- `watchdog_memory`: "Memory growth MB/min" (`saturation.go:35`) is footprint
  divided by elapsed minutes, not growth: a generator that never grows can be
  killed for it while the run is young.
- `registry_interrupt`: an agent stopped by Ctrl-C unregisters with the context
  the interrupt cancelled, so its entry stays until it expires.

Read in the code while it was modelled, and not stated as a run:

- *Engine.* The tail of a run with a deadline is not "bounded by the per-request
  timeout" (`CHANGELOG.md:147`): with C workers up to 2C jobs in the channel and
  the one the producer is blocked on start after the deadline, which takes up to
  three timeouts (`LateWorkBounded` is the bound there is). An aborted run reports fewer failures than it had, so that
  `--fail-above-errors` may pass. A cancelled schedule's producer is not joined,
  although the comment says so. `slotOffsetNS` does not clamp between 2^63 and
  2^64.
- *Watchdog and verdict.* A check under way at the end of a run may mark a
  complete run as killed. The health report judges the cumulative pause of
  garbage collection where the watchdog judges that of one second
  (`storm.go:206`). `peakMemoryMB` is never written, so that the report never
  judges memory. The health text prints the number sent for both numbers of one
  line (`saturation.go:340`).
- *Statistics.* A negative duration lands in the bucket of its absolute value
  (`loghistogram.go:64`). A snapshot of the transport's counters may show a hit
  ratio above one. A tracing client counts what is returned, not what is
  reused, and with HTTP/2, the default, nothing at all. `ConnectionsCreated` is
  corrected for attempts that fail (`execute.go:131-136`), not for the second of
  two addresses that both connect: it stays one too high for each
  (`CreatedAddsUp`).
- *Capacity estimate.* It does not "measure throughput" (`capacity.go:26-27`) once
  the benchmark is longer than the ring of ten samples, two seconds of at most
  ten: all requests are divided by what the ring still holds. The first sample
  may come long after the first probe. `EstimateIsBounded` says by how much the
  window may be too short: the whole time over `Retained - 4` intervals, 1.2 s.
- *Distributed mode.* The wait for agents is bounded "so run-dist can't hang
  forever" (`registry.go:78-79`), the wait for results is not: one job lost with
  its worker, and run-dist polls until it is interrupted. `Flush` deletes the
  results of other runs that are under way. An error of the registry after the
  results are read throws the report away (`coordinator.go:83`). `EXPIRE` does
  not bring back an entry that has expired, and agents that share a name share
  an entry.
- *Command.* The configuration is validated after the estimate has been run with
  it (`storm.go:117`). A report that cannot be saved is not printed either. A
  killed run passes as a clean one in json, csv, quiet and in the saved file: no
  printer shows `KilledOnSaturation`, although `config.go:117-122` gives it the
  json name that `CHANGELOG.md:135` documents and says that "consumers should
  treat such results as a warning". Status 1 is not only the "configuration
  error" of `README.md:284`: a run whose file cannot be written has it too. An interrupted `run`
  exits with 0, an interrupted `run-dist` with 1.

## 8. What is not modelled, and why

- Input, output and text: the layout of `report.go`, `textui.go`, the progress
  bar, banner, `version` and `report` commands, reading `/proc`, JSON.
- Data handed to a library: TLS and timeouts of `internal/transport`, its buffer
  pool, the settings of `internal/config`, the build information. Nothing in
  them depends on an order of events.
- Prometheus counters (`internal/metrics`) and the two hooks that feed them:
  they are raised and only read by a scraper.
- Of modelled parts: the inside of an HTTP request beyond its connection and its
  outcome, floating-point rounding, success rate and latency of the estimate,
  `Merge` of collectors (only a test calls it), `busyNanos`, the breakdown of a
  distributed report by agent.

Each component's entry in `PROJECT.json` says what of it is left out.
