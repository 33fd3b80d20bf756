----------------------------- MODULE ConnTrace -----------------------------
(***************************************************************************)
(* The connection statistics: those Execute keeps for the health report    *)
(* (pkg/storm/execute.go) and those of a tracing client or round tripper   *)
(* (internal/transport/trace.go).  Both are fed by the callbacks of        *)
(* net/http, which run in the goroutine that dials.  The connection pool   *)
(* of net/http is external: a request that finds no connection starts a    *)
(* dial and takes whatever comes first, its own connection or one that     *)
(* becomes available meanwhile; the dial goes on without it.  Which        *)
(* protocol the server speaks is open: a connection of HTTP/1 serves one   *)
(* request at a time and is put back, one of HTTP/2 - the default where    *)
(* the server has it - is shared while it is in use and never put back.    *)
(***************************************************************************)
EXTENDS Integers, FiniteSets

CONSTANTS
    NumRequests,    \* requests of the run, started in order
    Concurrency,    \* workers: requests under way at a time
    PerWorker,      \* sizeConnectionPool: idle connections per worker (2 in the code)
    MinAutoIdle,    \* minAutoIdlePerHost (256 in the code)
    MaxAgain        \* BOUND: requests retried, and further addresses tried by a dial

Racers == 2         \* net.Dialer: addresses that a dial tries side by side

ASSUME ConnTraceAssumption ==
    {NumRequests, Concurrency, PerWorker, MinAutoIdle} \subseteq Nat \ {0}
    /\ MaxAgain \in Nat

(* MaxIdleConnsPerHost after sizeConnectionPool, raised and never lowered. *)
sizeConnectionPool(configured) ==
    LET wanted == IF PerWorker * Concurrency > MinAutoIdle THEN PerWorker * Concurrency ELSE MinAutoIdle
    IN  IF configured < wanted THEN wanted ELSE configured
IdleLimit == sizeConnectionPool(0)

Request == 1 .. NumRequests
Dial == 1 .. NumRequests + MaxAgain

VARIABLES
    shared,         \* the server speaks HTTP/2
    pc,             \* pc[r]: "new", "wait" for a connection, "ride" one, "count", or its
                    \* outcome "hit", "miss", "error"
    newConn,        \* newConn[r]: the atomic.Bool of Execute
    want,           \* want[r]: the dial started for its present wait; 0 before the first
    dial,           \* dial[d]: "free", "dialling", "connected", "open", "failed"
    losers,         \* dials that made a second connection and closed it
    owner,          \* owner[d]: the request it was started for
    inflight,       \* inflight[d]: its connection attempts under way
    tried,          \* tried[d]: addresses tried
    idle,           \* connections in the pool: idle ones; of HTTP/2, all
    created,        \* ConnectionsCreated, the same in both statistics
    hits, misses,   \* ConnectionStats: PoolHits = ConnectionsReused, PoolMisses
    returns,        \* TraceStats: PoolHits = ConnectionsReused
    again,          \* retries and further addresses so far
    own,            \* history: requests whose last connection was dialled for them
    orphans         \* history: dials whose connection went to the pool

requestVars == <<pc, newConn, want, again, own>>
dialVars == <<dial, losers, owner, inflight, tried>>
counterVars == <<created, hits, misses, returns>>
vars == <<shared, requestVars, dialVars, idle, counterVars, orphans>>

Outcome == {"hit", "miss", "error"}
Waiting == {r \in Request : pc[r] = "wait"}
Done == {r \in Request : pc[r] \in Outcome}
Successes == {r \in Request : pc[r] \in {"hit", "miss"}}
Answered == {r \in Request : pc[r] \in {"count", "hit", "miss"}}
Established == {d \in Dial : dial[d] \in {"connected", "open"}}

TraceTypeOK ==
    /\ pc \in [Request -> {"new", "wait", "ride", "count"} \cup Outcome]
    /\ newConn \in [Request -> BOOLEAN]
    /\ want \in [Request -> Dial \cup {0}]
    /\ dial \in [Dial -> {"free", "dialling", "connected", "open", "failed"}]
    /\ owner \in [Dial -> Request \cup {0}]
    /\ inflight \in [Dial -> 0 .. 1 + MaxAgain] /\ tried \in [Dial -> 0 .. 1 + MaxAgain]
    /\ shared \in BOOLEAN /\ losers \subseteq Dial
    /\ idle \in Nat /\ (shared \/ idle <= IdleLimit) /\ again \in 0 .. MaxAgain
    /\ created \in Nat /\ returns \in Nat
    /\ hits \in 0 .. NumRequests /\ misses \in 0 .. NumRequests
    /\ own \subseteq Request /\ orphans \subseteq Dial

TraceInit ==
    /\ pc = [r \in Request |-> "new"] /\ newConn = [r \in Request |-> FALSE]
    /\ want = [r \in Request |-> 0] /\ again = 0 /\ own = {}
    /\ dial = [d \in Dial |-> "free"] /\ owner = [d \in Dial |-> 0]
    /\ inflight = [d \in Dial |-> 0] /\ tried = [d \in Dial |-> 0]
    /\ shared \in BOOLEAN /\ losers = {}
    /\ idle = 0 /\ created = 0 /\ hits = 0 /\ misses = 0 /\ returns = 0
    /\ orphans = {}

-----------------------------------------------------------------------------
(* The pool of net/http. *)

(* A connection becomes free while requests are as in p: the first that    *)
(* waits gets it, else it is kept if there is room, else it is closed.     *)
Kept == Waiting # {} \/ idle < IdleLimit
HandOver(p) ==
    \/ /\ \E w \in Waiting : pc' = [p EXCEPT ![w] = "ride"]
       /\ UNCHANGED idle
    \/ /\ Waiting = {}
       /\ pc' = p
       /\ idle' = IF Kept THEN idle + 1 ELSE idle

(* A connection of HTTP/2 goes to everybody who waits, and to the pool.    *)
Share ==
    /\ pc' = [q \in Request |-> IF q \in Waiting THEN "ride" ELSE pc[q]]
    /\ idle' = idle + 1

(* The request needs a connection.  One of HTTP/2 stays where it is, but   *)
(* may have all the streams its server allows.                             *)
GetConn(r) ==
    \/ /\ idle > 0
       /\ idle' = IF shared THEN idle ELSE idle - 1
       /\ pc' = [pc EXCEPT ![r] = "ride"]
       /\ UNCHANGED <<want, dial, owner>>
    \/ /\ idle = 0 \/ shared
       /\ \E d \in Dial :
            /\ dial[d] = "free" /\ \A c \in Dial : c < d => dial[c] # "free"
            /\ dial' = [dial EXCEPT ![d] = "dialling"]
            /\ owner' = [owner EXCEPT ![d] = r]
            /\ want' = [want EXCEPT ![r] = d]
       /\ pc' = [pc EXCEPT ![r] = "wait"]
       /\ UNCHANGED idle

(* Idle for too long, closed by the server, or not needed after all.       *)
DropIdle ==
    /\ idle > 0
    /\ idle' = idle - 1
    /\ UNCHANGED <<shared, requestVars, dialVars, counterVars, orphans>>

-----------------------------------------------------------------------------
(* A dial and its callbacks.  It may try its addresses side by side, and a *)
(* racer that loses may have begun another attempt.                        *)

Made(d) == (IF d \in Established THEN 1 ELSE 0) + (IF d \in losers THEN 1 ELSE 0)

Attempt(d) ==
    /\ dial[d] \in {"dialling", "connected", "open"}
    /\ inflight[d] + Made(d) < Racers
    /\ \/ tried[d] = 0 /\ UNCHANGED again
       \/ tried[d] > 0 /\ again < MaxAgain /\ again' = again + 1
    /\ tried' = [tried EXCEPT ![d] = @ + 1]
    /\ inflight' = [inflight EXCEPT ![d] = @ + 1]

\* Fault: the start of an attempt is not passed on to Execute.
ConnectStartUnseen(d) ==
    /\ Attempt(d)
    /\ created' = created + 1
    /\ UNCHANGED <<shared, pc, newConn, want, own, dial, losers, owner, idle, hits, misses, returns, orphans>>

ConnectStart(d) ==
    /\ Attempt(d)
    /\ newConn' = [newConn EXCEPT ![owner[d]] = TRUE]
    /\ created' = created + 1
    /\ UNCHANGED <<shared, pc, want, own, dial, losers, owner, idle, hits, misses, returns, orphans>>

\* Fault: an attempt that failed stays counted.
ConnectFailsCounted(d) ==
    /\ inflight[d] > 0
    /\ inflight' = [inflight EXCEPT ![d] = @ - 1]
    /\ UNCHANGED <<shared, requestVars, dial, losers, owner, tried, idle, counterVars, orphans>>

(* ConnectDone with an error: refused, timed out, or called off because    *)
(* another address was faster.                                             *)
ConnectFails(d) ==
    /\ inflight[d] > 0
    /\ inflight' = [inflight EXCEPT ![d] = @ - 1]
    /\ created' = created - 1
    /\ UNCHANGED <<shared, requestVars, dial, losers, owner, tried, idle, hits, misses, returns, orphans>>

(* ConnectDone without one.  When both racers connect, the dialer takes    *)
(* the first and closes the other, and Execute is told of two connections. *)
ConnectSucceeds(d) ==
    /\ inflight[d] > 0
    /\ inflight' = [inflight EXCEPT ![d] = @ - 1]
    /\ \/ dial[d] = "dialling" /\ dial' = [dial EXCEPT ![d] = "connected"] /\ UNCHANGED losers
       \/ dial[d] # "dialling" /\ losers' = losers \cup {d} /\ UNCHANGED dial
    /\ UNCHANGED <<shared, requestVars, owner, tried, idle, counterVars, orphans>>

(* Its request takes the connection, unless it has gone on with another    *)
(* one or has given up; of HTTP/2, one that came meanwhile may be used.    *)
Wanted(d) == owner[d] \in Waiting /\ want[owner[d]] = d
DialEnds(d) ==
    /\ dial[d] = "connected"
    /\ dial' = [dial EXCEPT ![d] = "open"]
    /\ \/ Wanted(d) /\ own' = own \cup {owner[d]} /\ UNCHANGED orphans
       \/ Wanted(d) /\ shared /\ UNCHANGED <<own, orphans>>
       \/ ~ Wanted(d) /\ orphans' = orphans \cup {d} /\ UNCHANGED own
    /\ \/ shared /\ Share
       \/ ~ shared /\ Wanted(d) /\ pc' = [pc EXCEPT ![owner[d]] = "ride"] /\ UNCHANGED idle
       \/ ~ shared /\ ~ Wanted(d) /\ HandOver(pc)
    /\ UNCHANGED <<shared, newConn, want, again, losers, owner, inflight, tried, counterVars>>

(* The name is not found, or every address has failed.  A failed handshake *)
(* is a request that fails on its connection.                              *)
DialFails(d) ==
    /\ dial[d] = "dialling" /\ inflight[d] = 0
    /\ dial' = [dial EXCEPT ![d] = "failed"]
    /\ pc' = [r \in Request |-> IF r \in Waiting /\ want[r] = d THEN "error" ELSE pc[r]]
    /\ UNCHANGED <<shared, newConn, want, again, own, losers, owner, inflight, tried, idle,
                   counterVars, orphans>>

-----------------------------------------------------------------------------
(* Execute. *)

Active == {r \in Request : pc[r] \in {"wait", "ride", "count"}}

Begin(r) ==
    /\ pc[r] = "new" /\ \A q \in Request : q < r => pc[q] # "new"
    /\ Cardinality(Active) < Concurrency
    /\ GetConn(r)
    /\ UNCHANGED <<shared, newConn, again, own, losers, inflight, tried, counterVars, orphans>>

(* The timeout, a cancelled run, or the connection breaks. *)
Fail(r) ==
    /\ pc[r] \in {"wait", "ride"}
    /\ pc' = [pc EXCEPT ![r] = "error"]
    /\ UNCHANGED <<shared, newConn, want, again, own, dialVars, idle, counterVars, orphans>>

(* The server had closed the idle connection, or takes no more requests on *)
(* one of HTTP/2: net/http gets another one.                               *)
Retry(r) ==
    /\ pc[r] = "ride" /\ (shared \/ r \notin own)
    /\ again < MaxAgain /\ again' = again + 1
    /\ GetConn(r)
    /\ own' = own \ {r}
    /\ UNCHANGED <<shared, newConn, losers, inflight, tried, counterVars, orphans>>

\* Fault: the error of PutIdleConn is tested the wrong way round.
DrainCountsClosed(r) ==
    /\ pc[r] = "ride" /\ ~ shared
    /\ HandOver([pc EXCEPT ![r] = "count"])
    /\ returns' = IF Kept THEN returns ELSE returns + 1
    /\ UNCHANGED <<shared, newConn, want, again, own, dialVars, created, hits, misses, orphans>>

(* The body is drained and the connection returned (PutIdleConn), both     *)
(* before Execute goes on.  On HTTP/2 the stream just ends.                *)
Drain(r) ==
    /\ pc[r] = "ride"
    /\ \/ /\ ~ shared /\ HandOver([pc EXCEPT ![r] = "count"])
          /\ returns' = IF Kept THEN returns + 1 ELSE returns
       \/ /\ shared /\ pc' = [pc EXCEPT ![r] = "count"]
          /\ UNCHANGED <<idle, returns>>
    /\ UNCHANGED <<shared, newConn, want, again, own, dialVars, created, hits, misses, orphans>>

(* The body breaks off; nobody looks at the error of io.Copy, and the      *)
(* connection is closed.  Or the server closes it after the response.      *)
BreakOff(r) ==
    /\ pc[r] = "ride"
    /\ pc' = [pc EXCEPT ![r] = "count"]
    /\ UNCHANGED <<shared, newConn, want, again, own, dialVars, idle, counterVars, orphans>>

\* Fault: the request is counted and comes back.
CountAgain(r) ==
    /\ pc[r] = "count"
    /\ hits' = IF newConn[r] THEN hits ELSE hits + 1
    /\ misses' = IF newConn[r] THEN misses + 1 ELSE misses
    /\ UNCHANGED <<shared, requestVars, dialVars, idle, created, returns, orphans>>

Count(r) ==
    /\ pc[r] = "count"
    /\ pc' = [pc EXCEPT ![r] = IF newConn[r] THEN "miss" ELSE "hit"]
    /\ hits' = IF newConn[r] THEN hits ELSE hits + 1
    /\ misses' = IF newConn[r] THEN misses + 1 ELSE misses
    /\ UNCHANGED <<shared, newConn, want, again, own, dialVars, idle, created, returns, orphans>>

Rest == Done = Request /\ UNCHANGED vars

RoundTrip(r) == Begin(r) \/ Fail(r) \/ Retry(r) \/ Drain(r) \/ BreakOff(r) \/ Count(r)
Callback(d) == \/ ConnectStart(d) \/ ConnectFails(d) \/ ConnectSucceeds(d)
               \/ DialEnds(d) \/ DialFails(d)

TraceNext ==
    \/ \E r \in Request : RoundTrip(r)
    \/ \E d \in Dial : Callback(d)
    \/ DropIdle \/ Rest

TraceSpec == TraceInit /\ [][TraceNext]_vars

-----------------------------------------------------------------------------
(* Properties. *)

(* "if ConnectStart did NOT fire, it was a pool hit" (execute.go): a hit   *)
(* never rode a connection dialled for it.  The converse is only true up   *)
(* to races: a request whose dial lost against a pooled connection is a    *)
(* miss, and each of these has a dial of its own that it never rode.       *)
Strays == {d \in Dial : tried[d] > 0 /\ owner[d] \notin own}
HitsAreReuses ==
    LET pooled == Cardinality(Successes \ own)
    IN  hits <= pooled /\ pooled - hits <= Cardinality(Strays)

(* A tracing client (trace.go) counts as a hit what is put back, not what  *)
(* is reused.  On HTTP/1 the two differ by the connections in the pool and *)
(* those of late dials: what is served from it was returned to it or       *)
(* brought by one of them.  There are never more returns than answers, and *)
(* on HTTP/2 there are none, however many requests share a connection.     *)
ReturnsAreNotHits ==
    /\ ~ shared => hits + idle <= returns + Cardinality(orphans)
    /\ returns <= Cardinality(Answered)
    /\ shared => returns = 0

(* ConnectionsCreated is the number of connections made and of attempts    *)
(* still under way.  An address that failed or was called off is taken     *)
(* back; one that lost the race only after it had connected is not, so     *)
(* that the number is too high by one for each dial where that happened.   *)
InFlight == Cardinality({p \in Dial \X (1 .. 1 + MaxAgain) : p[2] <= inflight[p[1]]})
CreatedAddsUp ==
    /\ created = Cardinality(Established) + InFlight + Cardinality(losers)
    /\ losers \subseteq Established
=============================================================================
