--------------------------- MODULE TransportStats ---------------------------
(***************************************************************************)
(* The statistics of a Transport (internal/transport/pool.go): counters    *)
(* that are atomic each but raised in pairs, cleared one after the other   *)
(* by Reset and read one after the other by Snapshot.  A package for its   *)
(* users: the program reports its connections from execute.go instead, and *)
(* the tests run only the Record functions side by side (pool_test.go, in  *)
(* TestStatsConcurrent), so that what is said of a Reset or a Snapshot     *)
(* next to them is about the code, not about a run of the program.         *)
(***************************************************************************)
EXTENDS Integers, Sequences, FiniteSets

CONSTANTS
    Recorder,       \* goroutines that record
    MaxCalls,       \* BOUND: calls of Record functions
    MaxResets       \* BOUND: calls of Reset

ASSUME TransportStatsAssumption ==
    IsFiniteSet(Recorder) /\ MaxCalls \in Nat /\ MaxResets \in Nat

(* The counters in the order of Reset and Snapshot.  Those of errors behave*)
(* like PoolMisses; IdleConnections is never raised.                       *)
Order == <<"created", "reused", "closed", "hits", "misses", "active">>
Counter == {Order[k] : k \in 1 .. 6}

(* What the Record functions add, one atomic operation each. *)
Up(c) == [counter |-> c, by |-> 1]
RecordConnectionCreated == <<Up("created"), Up("active")>>
\* Fault: a reuse is counted once.
RecordReusedOnly == <<Up("reused")>>
RecordConnectionReused == <<Up("reused"), Up("hits")>>
RecordConnectionClosed == <<Up("closed"), [counter |-> "active", by |-> -1]>>
RecordPoolMiss == <<Up("misses")>>
Record == {RecordConnectionCreated, RecordConnectionReused, RecordConnectionClosed, RecordPoolMiss}

VARIABLES
    stats,          \* the counters
    todo,           \* todo[g]: the additions of g's call still to come
    calls,          \* their calls so far
    resetAt,        \* Reset has still to clear Order[resetAt ..]; 0 outside of it
    resets,         \* calls of Reset so far
    readAt,         \* Snapshot has still to load Order[readAt ..]; 0 outside of it
    snapshot,       \* what it has loaded
    torn            \* history: calls that a Reset overlapped

statsVars == <<stats, todo, calls, resetAt, resets, readAt, snapshot, torn>>

StatsTypeOK ==
    /\ stats \in [Counter -> Int] /\ snapshot \in [Counter -> Int]
    /\ \A g \in Recorder : todo[g] \in {<<>>} \cup Record \cup {Tail(c) : c \in Record}
    /\ calls \in 0 .. MaxCalls
    /\ resetAt \in 0 .. 6 /\ readAt \in 0 .. 6
    /\ resets \in 0 .. MaxResets /\ torn \in Nat

Zero == [c \in Counter |-> 0]
Busy == {g \in Recorder : todo[g] # <<>>}

StatsInit ==
    /\ stats = Zero /\ snapshot = Zero /\ torn = 0
    /\ todo = [g \in Recorder |-> <<>>] /\ calls = 0
    /\ resetAt = 0 /\ resets = 0 /\ readAt = 0

Call(g, c) ==
    /\ todo[g] = <<>> /\ calls < MaxCalls
    /\ todo' = [todo EXCEPT ![g] = c]
    /\ calls' = calls + 1
    /\ torn' = IF resetAt = 0 THEN torn ELSE torn + 1
    /\ UNCHANGED <<stats, resetAt, resets, readAt, snapshot>>

Add(g) ==
    /\ todo[g] # <<>>
    /\ stats' = [stats EXCEPT ![todo[g][1].counter] = @ + todo[g][1].by]
    /\ todo' = [todo EXCEPT ![g] = Tail(@)]
    /\ UNCHANGED <<calls, resetAt, resets, readAt, snapshot, torn>>

BeginReset ==
    /\ resetAt = 0 /\ resets < MaxResets
    /\ resetAt' = 1 /\ resets' = resets + 1
    /\ torn' = torn + Cardinality(Busy)
    /\ UNCHANGED <<stats, todo, calls, readAt, snapshot>>

After(k) == IF k = 6 THEN 0 ELSE k + 1
Reset ==
    /\ resetAt > 0 /\ resetAt' = After(resetAt)
    /\ stats' = [stats EXCEPT ![Order[resetAt]] = 0]
    /\ UNCHANGED <<todo, calls, resets, readAt, snapshot, torn>>

BeginSnapshot ==
    /\ readAt = 0 /\ readAt' = 1
    /\ snapshot' = Zero
    /\ UNCHANGED <<stats, todo, calls, resetAt, resets, torn>>

Snapshot ==
    /\ readAt > 0 /\ readAt' = After(readAt)
    /\ snapshot' = [snapshot EXCEPT ![Order[readAt]] = stats[Order[readAt]]]
    /\ UNCHANGED <<stats, todo, calls, resetAt, resets, torn>>

StatsNext ==
    \/ \E g \in Recorder : Add(g) \/ \E c \in Record : Call(g, c)
    \/ BeginReset \/ Reset \/ BeginSnapshot \/ Snapshot

StatsSpec == StatsInit /\ [][StatsNext]_statsVars

-----------------------------------------------------------------------------
(* Properties. *)

(* Counters that are raised together stay together: outside of Reset they  *)
(* differ by the calls under way, and by those that a Reset overlapped -   *)
(* each of which may have lost one of its two additions for good.  In a    *)
(* snapshot with no Reset before it, the counter that is read first is     *)
(* ahead by no more than the recorders there are.                          *)
Distance(a, b) == IF a > b THEN a - b ELSE b - a
SkewBounded == resetAt = 0 =>
    /\ Distance(stats["reused"], stats["hits"]) <= Cardinality(Busy) + torn
    /\ Distance(stats["created"] - stats["closed"], stats["active"]) <= Cardinality(Busy) + torn
    /\ readAt = 0 /\ resets = 0 =>
          snapshot["reused"] - snapshot["hits"] <= Cardinality(Recorder)
=============================================================================
