-------------------------- MODULE TransportProofs --------------------------
(***************************************************************************)
(* Proofs about the two kinds of connection statistics, for any number of  *)
(* requests, workers, idle connections, recorders, calls and resets: what  *)
(* those of execute.go and trace.go mean (ConnTrace), and that those of a  *)
(* Transport stay together (TransportStats).                               *)
(***************************************************************************)
EXTENDS MCTransport, FiniteSetTheorems, TLAPS

LEMMA ConstantsType ==
    /\ NumRequests \in Nat /\ NumRequests > 0 /\ Concurrency \in Nat
    /\ PerWorker \in Nat /\ MinAutoIdle \in Nat /\ MaxAgain \in Nat
    /\ IdleLimit \in Nat
<1>1. /\ NumRequests \in Nat /\ NumRequests > 0 /\ Concurrency \in Nat
      /\ PerWorker \in Nat /\ MinAutoIdle \in Nat /\ MaxAgain \in Nat
  BY ConnTraceAssumption
<1>2. PerWorker * Concurrency \in Nat
  BY <1>1
<1> QED
  BY <1>1, <1>2 DEF IdleLimit, sizeConnectionPool

LEMMA ConstantsFinite == IsFiniteSet(Request) /\ IsFiniteSet(Dial) /\ 0 \notin Request
BY ConstantsType, FS_Interval DEF Request, Dial

-----------------------------------------------------------------------------
(* Requests and dials.                                                     *)

(* The order of a dial's callbacks, and what they have told its request.   *)
DialInv ==
    /\ pc \in [Request -> {"new", "wait", "ride", "count"} \cup Outcome]
    /\ newConn \in [Request -> BOOLEAN]
    /\ want \in [Request -> Dial \cup {0}]
    /\ dial \in [Dial -> {"free", "dialling", "connected", "open", "failed"}]
    /\ owner \in [Dial -> Request \cup {0}]
    /\ tried \in [Dial -> Nat] /\ inflight \in [Dial -> Nat]
    /\ again \in 0 .. MaxAgain
    /\ \A d \in Dial : /\ inflight[d] <= tried[d] /\ tried[d] <= 1 + again
                       /\ dial[d] = "free" => tried[d] = 0 /\ owner[d] = 0
                       /\ dial[d] # "free" => owner[d] \in Request
                       /\ dial[d] = "connected" => tried[d] > 0
                       /\ dial[d] = "failed" => inflight[d] = 0
    /\ shared \in BOOLEAN

LEMMA DialInit == TraceInit => DialInv
<1> SUFFICES ASSUME TraceInit PROVE DialInv
  OBVIOUS
<1> QED
  BY ConstantsType DEF TraceInit, DialInv

(* A step of the pool changes no more than who waits and who rides.        *)
LEMMA GetConnType ==
    ASSUME DialInv, NEW r \in Request, GetConn(r)
    PROVE  /\ pc' \in [Request -> {"new", "wait", "ride", "count"} \cup Outcome]
           /\ \/ UNCHANGED <<want, dial, owner>>
              \/ \E d \in Dial : /\ dial[d] = "free" /\ dial' = [dial EXCEPT ![d] = "dialling"]
                                 /\ owner' = [owner EXCEPT ![d] = r]
                                 /\ want' = [want EXCEPT ![r] = d]
BY DEF GetConn, DialInv

Advanced(q) == pc'[q] = pc[q] \/ (pc[q] = "wait" /\ pc'[q] = "ride")

(* A request that is answered gives its connection away at most. *)
LEMMA DrainMoves ==
    ASSUME DialInv, NEW r \in Request, Drain(r)
    PROVE  /\ pc' \in [Request -> {"new", "wait", "ride", "count"} \cup Outcome]
           /\ pc[r] = "ride" /\ pc'[r] = "count"
           /\ \A q \in Request \ {r} : Advanced(q)
<1> DEFINE p == [pc EXCEPT ![r] = "count"]
<1>1. pc[r] = "ride" /\ r \notin Waiting
  BY DEF Drain, Waiting
<1>2. /\ p \in [Request -> {"new", "wait", "ride", "count"} \cup Outcome]
      /\ p[r] = "count" /\ \A q \in Request \ {r} : p[q] = pc[q]
  BY DEF DialInv
<1>3. HandOver(p) \/ pc' = p
  BY DEF Drain
<1> HIDE DEF p
<1>4. CASE pc' = p
  BY <1>1, <1>2, <1>4 DEF Advanced
<1>5. ASSUME NEW w \in Waiting, pc' = [p EXCEPT ![w] = "ride"]
      PROVE  /\ pc' \in [Request -> {"new", "wait", "ride", "count"} \cup Outcome]
             /\ pc'[r] = "count"
             /\ \A q \in Request \ {r} : Advanced(q)
  BY <1>1, <1>2, <1>5 DEF Advanced, Waiting
<1> QED
  BY <1>1, <1>3, <1>4, <1>5 DEF HandOver

(* The end of a dial moves nobody but who waits. *)
LEMMA DialEndsMoves ==
    ASSUME DialInv, NEW d \in Dial, DialEnds(d)
    PROVE  /\ pc' \in [Request -> {"new", "wait", "ride", "count"} \cup Outcome]
           /\ \A q \in Request : Advanced(q)
           /\ Wanted(d) => pc'[owner[d]] = "ride"
           /\ owner[d] \in Request
<1>1. owner[d] \in Request
  BY DEF DialEnds, DialInv
<1>2. CASE Share
  BY <1>1, <1>2 DEF Share, DialInv, Advanced, Waiting, Wanted
<1>3. CASE Wanted(d) /\ pc' = [pc EXCEPT ![owner[d]] = "ride"]
  BY <1>1, <1>3 DEF DialInv, Advanced, Waiting, Wanted
<1>4. CASE ~ Wanted(d) /\ HandOver(pc)
  BY <1>1, <1>4 DEF HandOver, DialInv, Advanced, Waiting
<1> QED
  BY <1>1, <1>2, <1>3, <1>4 DEF DialEnds

LEMMA DialStep == DialInv /\ [TraceNext]_vars => DialInv'
<1> SUFFICES ASSUME DialInv, [TraceNext]_vars PROVE DialInv'
  OBVIOUS
<1> USE ConstantsType DEF requestVars, dialVars, counterVars
<1>1. ASSUME NEW r \in Request, Begin(r) \/ Retry(r) PROVE DialInv'
  <2>1. GetConn(r) /\ UNCHANGED <<shared, newConn, inflight, tried>>
        /\ again' \in 0 .. MaxAgain /\ again <= again'
    BY <1>1 DEF Begin, Retry, DialInv
  <2>2. pc' \in [Request -> {"new", "wait", "ride", "count"} \cup Outcome]
    BY <2>1, GetConnType
  <2>3. CASE UNCHANGED <<want, dial, owner>>
    BY <2>1, <2>2, <2>3 DEF DialInv
  <2>4. ASSUME NEW d \in Dial, dial[d] = "free", dial' = [dial EXCEPT ![d] = "dialling"],
               owner' = [owner EXCEPT ![d] = r], want' = [want EXCEPT ![r] = d]
        PROVE  DialInv'
    BY <2>1, <2>2, <2>4 DEF DialInv
  <2> QED
    BY <2>1, <2>3, <2>4, GetConnType
<1>2. ASSUME NEW r \in Request, Fail(r) \/ Drain(r) \/ BreakOff(r) \/ Count(r) PROVE DialInv'
  <2>1. pc' \in [Request -> {"new", "wait", "ride", "count"} \cup Outcome]
    <3>1. CASE Fail(r) \/ BreakOff(r) \/ Count(r)
      BY <3>1 DEF Fail, BreakOff, Count, DialInv, Outcome
    <3> QED
      BY <1>2, <3>1, DrainMoves
  <2>2. UNCHANGED <<shared, newConn, want, again, dialVars>>
    BY <1>2 DEF Fail, Drain, BreakOff, Count
  <2> QED
    BY <2>1, <2>2 DEF DialInv
<1>3. ASSUME NEW d \in Dial, ConnectStart(d) PROVE DialInv'
  <2>1. /\ dial[d] \notin {"free", "failed"} /\ owner[d] \in Request
        /\ tried' = [tried EXCEPT ![d] = @ + 1] /\ inflight' = [inflight EXCEPT ![d] = @ + 1]
        /\ newConn' = [newConn EXCEPT ![owner[d]] = TRUE]
        /\ UNCHANGED <<shared, pc, want, dial, owner>>
        /\ again' \in 0 .. MaxAgain /\ again <= again' /\ tried'[d] <= 1 + again'
    BY <1>3 DEF ConnectStart, Attempt, DialInv
  <2> QED
    BY <2>1 DEF DialInv
<1>4. ASSUME NEW d \in Dial, ConnectFails(d) \/ ConnectSucceeds(d) PROVE DialInv'
  BY <1>4 DEF ConnectFails, ConnectSucceeds, DialInv
<1>5. ASSUME NEW d \in Dial, DialEnds(d) \/ DialFails(d) PROVE DialInv'
  <2>1. pc' \in [Request -> {"new", "wait", "ride", "count"} \cup Outcome]
    BY <1>5, DialEndsMoves DEF DialFails, DialInv, Outcome
  <2>2. /\ dial[d] # "free"
        /\ \/ dial' = [dial EXCEPT ![d] = "open"]
           \/ dial' = [dial EXCEPT ![d] = "failed"] /\ inflight[d] = 0
        /\ UNCHANGED <<shared, newConn, want, again, owner, inflight, tried>>
    BY <1>5 DEF DialEnds, DialFails
  <2> QED
    BY <2>1, <2>2 DEF DialInv
<1>6. CASE DropIdle \/ Rest \/ UNCHANGED vars
  BY <1>6 DEF DropIdle, Rest, vars, DialInv
<1> QED
  BY <1>1, <1>2, <1>3, <1>4, <1>5, <1>6 DEF TraceNext, RoundTrip, Callback

-----------------------------------------------------------------------------
(* ConnectionsCreated.                                                     *)

Attempts == {p \in Dial \X (1 .. 1 + MaxAgain) : p[2] <= inflight[p[1]]}

LEMMA AttemptsFinite ==
    /\ IsFiniteSet(Attempts) /\ IsFiniteSet(Attempts')
    /\ IsFiniteSet(Established) /\ IsFiniteSet(Established')
<1>1. IsFiniteSet(Dial \X (1 .. 1 + MaxAgain))
  <2>1. IsFiniteSet(1 .. 1 + MaxAgain)
    BY ConstantsType, FS_Interval
  <2> QED
    BY <2>1, ConstantsFinite, FS_Product
<1>2. Attempts \in SUBSET (Dial \X (1 .. 1 + MaxAgain)) /\ Attempts' \in SUBSET (Dial \X (1 .. 1 + MaxAgain))
  BY DEF Attempts
<1>3. Established \in SUBSET Dial /\ Established' \in SUBSET Dial
  BY DEF Established
<1> QED
  BY <1>1, <1>2, <1>3, ConstantsFinite, FS_Subset

(* A dial has two racers: once one has connected, at most one more can.    *)
RaceInv == \A d \in Dial : inflight[d] + Made(d) <= Racers

LEMMA RaceInit == TraceInit => RaceInv
BY DEF TraceInit, RaceInv, Made, Established, Racers

LEMMA RaceStep == DialInv /\ CreatedAddsUp /\ RaceInv /\ [TraceNext]_vars => RaceInv'
<1> SUFFICES ASSUME DialInv, CreatedAddsUp, RaceInv, [TraceNext]_vars PROVE RaceInv'
  OBVIOUS
<1> USE DEF requestVars, dialVars, counterVars
<1>1. ASSUME UNCHANGED inflight, Established' = Established, losers' = losers PROVE RaceInv'
  BY <1>1 DEF RaceInv, Made
<1>2. ASSUME NEW r \in Request, Begin(r) \/ Retry(r) PROVE RaceInv'
  <2>1. GetConn(r) /\ UNCHANGED <<inflight, losers>>
    BY <1>2 DEF Begin, Retry
  <2>2. Established' = Established
    BY <2>1, GetConnType DEF Established, DialInv
  <2> QED
    BY <1>1, <2>1, <2>2
<1>3. ASSUME NEW d \in Dial, ConnectStart(d) PROVE RaceInv'
  <2>1. /\ inflight' = [inflight EXCEPT ![d] = @ + 1] /\ inflight[d] + Made(d) < Racers
        /\ UNCHANGED <<dial, losers>>
    BY <1>3 DEF ConnectStart, Attempt
  <2>2. \A c \in Dial : Made(c)' = Made(c) /\ Made(c) \in Nat
    BY <2>1 DEF Made, Established
  <2> QED
    BY <2>1, <2>2 DEF RaceInv, DialInv, Racers
<1>4. ASSUME NEW d \in Dial, ConnectFails(d) PROVE RaceInv'
  <2>1. /\ inflight' = [inflight EXCEPT ![d] = @ - 1] /\ inflight[d] > 0
        /\ UNCHANGED <<dial, losers>>
    BY <1>4 DEF ConnectFails
  <2>2. \A c \in Dial : Made(c)' = Made(c) /\ Made(c) \in Nat
    BY <2>1 DEF Made, Established
  <2> QED
    BY <2>1, <2>2 DEF RaceInv, DialInv, Racers
<1>5. ASSUME NEW d \in Dial, ConnectSucceeds(d) PROVE RaceInv'
  <2>1. inflight' = [inflight EXCEPT ![d] = @ - 1] /\ inflight[d] > 0
    BY <1>5 DEF ConnectSucceeds
  <2>2. \A c \in Dial : c # d => Made(c)' = Made(c)
    BY <1>5 DEF ConnectSucceeds, Made, Established, DialInv
  <2>3. Made(d)' <= Made(d) + 1
    BY <1>5 DEF ConnectSucceeds, Made, Established, DialInv
  <2>4. Made(d) \in Nat /\ Made(d)' \in Nat
    BY DEF Made
  <2> QED
    BY <2>1, <2>2, <2>3, <2>4 DEF RaceInv, DialInv, Racers
<1>6. ASSUME NEW d \in Dial, DialEnds(d) \/ DialFails(d) PROVE RaceInv'
  <2>1. UNCHANGED <<inflight, losers>>
    BY <1>6 DEF DialEnds, DialFails
  <2>2. Established' = Established
    BY <1>6 DEF DialEnds, DialFails, Established, DialInv
  <2> QED
    BY <1>1, <2>1, <2>2
<1>7. ASSUME NEW r \in Request, Fail(r) \/ Drain(r) \/ BreakOff(r) \/ Count(r) PROVE RaceInv'
  <2>1. UNCHANGED <<inflight, losers, dial>>
    BY <1>7 DEF Fail, Drain, BreakOff, Count
  <2> QED
    BY <1>1, <2>1 DEF Established
<1>8. CASE DropIdle \/ Rest \/ UNCHANGED vars
  <2>1. UNCHANGED <<inflight, losers, dial>>
    BY <1>8 DEF DropIdle, Rest, vars
  <2> QED
    BY <1>1, <2>1 DEF Established
<1> QED
  BY <1>2, <1>3, <1>4, <1>5, <1>6, <1>7, <1>8 DEF TraceNext, RoundTrip, Callback

(* Nothing is counted or made when neither set of attempts changes.        *)
LEMMA CreatedStep ==
    DialInv /\ DialInv' /\ RaceInv /\ CreatedAddsUp /\ [TraceNext]_vars => CreatedAddsUp'
<1> SUFFICES ASSUME DialInv, DialInv', RaceInv, CreatedAddsUp, [TraceNext]_vars
             PROVE  CreatedAddsUp'
  OBVIOUS
<1> USE DEF requestVars, dialVars, counterVars
<1>0. losers \subseteq Established
  BY DEF CreatedAddsUp
<1>1. /\ created = Cardinality(Established) + Cardinality(Attempts) + Cardinality(losers)
      /\ Cardinality(Established) \in Nat /\ Cardinality(Attempts) \in Nat
      /\ IsFiniteSet(losers) /\ Cardinality(losers) \in Nat
  <2>1. IsFiniteSet(losers)
    BY <1>0, AttemptsFinite, FS_Subset
  <2> QED
    BY <2>1, AttemptsFinite, FS_CardinalityType DEF CreatedAddsUp, InFlight, Attempts
<1>2. ASSUME created' = Cardinality(Established') + Cardinality(Attempts') + Cardinality(losers'),
             losers' \subseteq Established'
      PROVE  CreatedAddsUp'
  BY <1>2 DEF CreatedAddsUp, InFlight, Attempts
<1>3. ASSUME created' = created, Established' = Established, Attempts' = Attempts, losers' = losers
      PROVE  CreatedAddsUp'
  BY <1>0, <1>1, <1>2, <1>3
<1>4. ASSUME NEW r \in Request, Begin(r) \/ Retry(r) PROVE CreatedAddsUp'
  <2>1. GetConn(r) /\ UNCHANGED <<created, inflight, losers>>
    BY <1>4 DEF Begin, Retry
  <2>2. Established' = Established
    BY <2>1, GetConnType DEF Established, DialInv
  <2> QED
    BY <1>3, <2>1, <2>2 DEF Attempts
<1>5. ASSUME NEW r \in Request, Fail(r) \/ Drain(r) \/ BreakOff(r) \/ Count(r) PROVE CreatedAddsUp'
  <2>1. UNCHANGED <<created, inflight, dial, losers>>
    BY <1>5 DEF Fail, Drain, BreakOff, Count
  <2> QED
    BY <1>3, <2>1 DEF Attempts, Established
<1>6. ASSUME NEW d \in Dial, ConnectStart(d) PROVE CreatedAddsUp'
  <2> DEFINE x == <<d, inflight[d] + 1>>
  <2>1. /\ inflight' = [inflight EXCEPT ![d] = @ + 1] /\ created' = created + 1
        /\ dial' = dial /\ losers' = losers
    BY <1>6 DEF ConnectStart, Attempt
  <2>2. inflight'[d] \in 1 .. 1 + MaxAgain /\ inflight'[d] = inflight[d] + 1
    BY <2>1, ConstantsType DEF DialInv
  <2>3. Attempts' = Attempts \cup {x} /\ x \notin Attempts
    BY <2>1, <2>2 DEF Attempts, DialInv
  <2>4. Cardinality(Attempts') = Cardinality(Attempts) + 1
    BY <2>3, AttemptsFinite, FS_AddElement
  <2>5. Established' = Established
    BY <2>1 DEF Established
  <2> QED
    BY <1>0, <1>1, <1>2, <2>1, <2>4, <2>5
<1>7. ASSUME NEW d \in Dial, ConnectFails(d) \/ ConnectSucceeds(d) PROVE CreatedAddsUp'
  <2> DEFINE x == <<d, inflight[d]>>
  <2>1. inflight[d] > 0 /\ inflight' = [inflight EXCEPT ![d] = @ - 1]
    BY <1>7 DEF ConnectFails, ConnectSucceeds
  <2>2. inflight[d] \in 1 .. 1 + MaxAgain
    BY <2>1, ConstantsType DEF DialInv
  <2>3. Attempts' = Attempts \ {x} /\ x \in Attempts
    BY <2>1, <2>2 DEF Attempts, DialInv
  <2>4. Cardinality(Attempts') = Cardinality(Attempts) - 1
    BY <2>3, AttemptsFinite, FS_RemoveElement
  <2>5. CASE ConnectFails(d)
    <3>1. created' = created - 1 /\ Established' = Established /\ losers' = losers
      BY <2>5 DEF ConnectFails, Established
    <3> QED
      BY <1>0, <1>1, <1>2, <2>4, <3>1
  <2>6. CASE /\ created' = created /\ losers' = losers
             /\ dial[d] = "dialling" /\ dial' = [dial EXCEPT ![d] = "connected"]
    <3>1. Established' = Established \cup {d} /\ d \notin Established
      BY <2>6 DEF Established, DialInv
    <3>2. Cardinality(Established') = Cardinality(Established) + 1
      BY <3>1, AttemptsFinite, FS_AddElement
    <3> QED
      BY <1>0, <1>1, <1>2, <2>4, <2>6, <3>1, <3>2
  <2>7. CASE /\ created' = created /\ dial' = dial
             /\ dial[d] # "dialling" /\ losers' = losers \cup {d}
    <3>1. d \in Established
      BY <2>1, <2>7 DEF DialInv, RaceInv, Established
    <3>2. d \notin losers
      BY <2>1, <3>1 DEF RaceInv, Made, DialInv, Racers
    <3>3. Cardinality(losers') = Cardinality(losers) + 1
      BY <1>1, <2>7, <3>2, FS_AddElement
    <3>4. Established' = Established
      BY <2>7 DEF Established
    <3> QED
      BY <1>0, <1>1, <1>2, <2>4, <2>7, <3>1, <3>3, <3>4
  <2> QED
    BY <1>7, <2>5, <2>6, <2>7 DEF ConnectSucceeds
<1>8. ASSUME NEW d \in Dial, DialEnds(d) \/ DialFails(d) PROVE CreatedAddsUp'
  <2>1. UNCHANGED <<created, inflight, losers>>
    BY <1>8 DEF DialEnds, DialFails
  <2>2. Established' = Established
    BY <1>8 DEF DialEnds, DialFails, Established, DialInv
  <2> QED
    BY <1>3, <2>1, <2>2 DEF Attempts
<1>9. CASE DropIdle \/ Rest \/ UNCHANGED vars
  <2>1. UNCHANGED <<created, inflight, dial, losers>>
    BY <1>9 DEF DropIdle, Rest, vars
  <2> QED
    BY <1>3, <2>1 DEF Attempts, Established
<1> QED
  BY <1>4, <1>5, <1>6, <1>7, <1>8, <1>9 DEF TraceNext, RoundTrip, Callback

LEMMA CreatedInit == TraceInit => CreatedAddsUp
<1> SUFFICES ASSUME TraceInit PROVE CreatedAddsUp
  OBVIOUS
<1>1. Established = {}
  BY DEF TraceInit, Established
<1>2. Attempts = {}
  BY ConstantsType DEF TraceInit, Attempts
<1>3. created = 0 /\ losers = {}
  BY DEF TraceInit
<1> QED
  BY <1>1, <1>2, <1>3, FS_EmptySet DEF CreatedAddsUp, InFlight, Attempts

(* ConnectionsCreated adds up, whatever the order of the callbacks of any  *)
(* number of dials: connections made, attempts under way, and one too many *)
(* for each dial whose two racers both connected, since only a ConnectDone *)
(* with an error takes its ConnectStart back (execute.go, trace.go).       *)
THEOREM CreatedCounts == TraceSpec => []CreatedAddsUp
<1>1. TraceInit => DialInv /\ RaceInv /\ CreatedAddsUp
  BY DialInit, RaceInit, CreatedInit
<1>2. DialInv /\ RaceInv /\ CreatedAddsUp /\ [TraceNext]_vars
          => (DialInv /\ RaceInv /\ CreatedAddsUp)'
  BY DialStep, RaceStep, CreatedStep
<1> QED
  BY <1>1, <1>2, PTL DEF TraceSpec
-----------------------------------------------------------------------------
(* Hits and reuses.                                                        *)

(* A request that rode its own dial has been told of it, in time to count  *)
(* as a miss; a request that was told has a dial; a connection that went   *)
(* to the pool is open.                                                    *)
OwnInv ==
    /\ \A r \in own : r \in Request /\ newConn[r] /\ pc[r] \notin {"new", "wait", "hit"}
    /\ \A r \in Request : pc[r] = "miss" => newConn[r]
    /\ \A d \in Dial : tried[d] > 0 => newConn[owner[d]]
    /\ \A r \in Request : newConn[r] => \E d \in Dial : tried[d] > 0 /\ owner[d] = r
    /\ \A d \in orphans : d \in Dial /\ dial[d] = "open"

LEMMA OwnInit == TraceInit => OwnInv
BY DEF TraceInit, OwnInv

LEMMA OwnStep == DialInv /\ OwnInv /\ [TraceNext]_vars => OwnInv'
<1> SUFFICES ASSUME DialInv, OwnInv, [TraceNext]_vars PROVE OwnInv'
  OBVIOUS
<1> USE DEF requestVars, dialVars, counterVars
<1>1. ASSUME NEW r \in Request, Begin(r) \/ Retry(r) PROVE OwnInv'
  <2>1. /\ GetConn(r) /\ UNCHANGED <<newConn, tried, orphans>>
        /\ own' \subseteq own /\ r \notin own'
    BY <1>1 DEF Begin, Retry, OwnInv
  <2>2. \A q \in Request : q # r => pc'[q] = pc[q]
    BY <2>1 DEF GetConn, DialInv
  <2>3. pc'[r] \in {"ride", "wait"}
    BY <2>1 DEF GetConn, DialInv
  <2>4. \A d \in Dial : dial[d] # "free" => dial'[d] = dial[d] /\ owner'[d] = owner[d]
    BY <2>1, GetConnType DEF DialInv
  <2>5. \A d \in Dial : tried[d] > 0 => dial[d] # "free"
    BY DEF DialInv
  <2>6. /\ \A q \in own' : q \in Request /\ newConn'[q] /\ pc'[q] \notin {"new", "wait", "hit"}
        /\ \A q \in Request : pc'[q] = "miss" => newConn'[q]
    BY <2>1, <2>2, <2>3 DEF OwnInv
  <2>7. \A d \in Dial : tried[d] > 0 => newConn[owner'[d]]
    BY <2>4, <2>5 DEF OwnInv
  <2>8. \A q \in Request : newConn[q] => \E d \in Dial : tried[d] > 0 /\ owner'[d] = q
    BY <2>4, <2>5 DEF OwnInv
  <2>9. \A d \in orphans : d \in Dial /\ dial'[d] = "open"
    BY <2>4 DEF OwnInv
  <2> QED
    BY <2>1, <2>6, <2>7, <2>8, <2>9 DEF OwnInv
<1>2. ASSUME NEW r \in Request, Fail(r) \/ BreakOff(r) \/ Count(r) PROVE OwnInv'
  <2>1. /\ UNCHANGED <<newConn, own, owner, dial, tried, orphans>>
        /\ \A q \in Request : q # r => pc'[q] = pc[q]
        /\ \/ pc'[r] \in {"error", "count"}
           \/ pc'[r] = "miss" /\ newConn[r]
           \/ pc'[r] = "hit" /\ ~ newConn[r]
    BY <1>2 DEF Fail, BreakOff, Count, DialInv
  <2> QED
    BY <2>1 DEF OwnInv
<1>3. ASSUME NEW r \in Request, Drain(r) PROVE OwnInv'
  <2>1. UNCHANGED <<newConn, own, owner, dial, tried, orphans>>
    BY <1>3 DEF Drain
  <2>2. \A q \in Request : pc'[q] = pc[q] \/ pc'[q] \in {"ride", "count"}
    BY <1>3, DrainMoves DEF Advanced
  <2> QED
    BY <2>1, <2>2 DEF OwnInv
<1>4. ASSUME NEW d \in Dial, ConnectStart(d) PROVE OwnInv'
  <2>1. /\ owner[d] \in Request
        /\ tried' = [tried EXCEPT ![d] = @ + 1]
        /\ newConn' = [newConn EXCEPT ![owner[d]] = TRUE]
        /\ UNCHANGED <<pc, own, dial, owner, orphans>>
    BY <1>4 DEF ConnectStart, Attempt, DialInv
  <2>2. tried'[d] > 0 /\ \A c \in Dial \ {d} : tried'[c] = tried[c]
    BY <2>1 DEF DialInv
  <2>3. newConn'[owner[d]] /\ \A q \in Request \ {owner[d]} : newConn'[q] = newConn[q]
    BY <2>1 DEF DialInv
  <2>4. \A c \in Dial : tried'[c] > 0 => newConn'[owner[c]]
    <3> SUFFICES ASSUME NEW c \in Dial, tried'[c] > 0, c # d PROVE newConn'[owner[c]]
      BY <2>3
    <3>1. newConn[owner[c]] /\ owner[c] \in Request
      BY <2>2 DEF OwnInv, DialInv
    <3> QED
      BY <2>3, <3>1
  <2>5. \A q \in Request : newConn'[q] => \E c \in Dial : tried'[c] > 0 /\ owner[c] = q
    BY <2>2, <2>3 DEF OwnInv
  <2>6. /\ \A q \in own : q \in Request /\ newConn'[q] /\ pc[q] \notin {"new", "wait", "hit"}
        /\ \A q \in Request : pc[q] = "miss" => newConn'[q]
    BY <2>3 DEF OwnInv
  <2>7. \A c \in orphans : c \in Dial /\ dial'[c] = "open"
    BY <2>1 DEF OwnInv
  <2> QED
    BY <2>1, <2>4, <2>5, <2>6, <2>7 DEF OwnInv
<1>5. ASSUME NEW d \in Dial, ConnectFails(d) \/ ConnectSucceeds(d) PROVE OwnInv'
  <2>1. /\ UNCHANGED <<pc, newConn, own, owner, tried, orphans>>
        /\ dial' = dial \/ (dial[d] = "dialling" /\ dial' = [dial EXCEPT ![d] = "connected"])
    BY <1>5 DEF ConnectFails, ConnectSucceeds
  <2> QED
    BY <2>1 DEF OwnInv, DialInv
<1>6. ASSUME NEW d \in Dial, DialEnds(d) PROVE OwnInv'
  <2>1. /\ dial[d] = "connected" /\ dial' = [dial EXCEPT ![d] = "open"]
        /\ UNCHANGED <<newConn, owner, tried>>
    BY <1>6 DEF DialEnds
  <2>2. newConn[owner[d]] /\ owner[d] \in Request
    BY <2>1 DEF DialInv, OwnInv
  <2>3. /\ \A q \in Request : pc'[q] = pc[q] \/ pc'[q] = "ride"
        /\ own' = own \/ (own' = own \cup {owner[d]} /\ pc'[owner[d]] = "ride")
        /\ orphans' \subseteq orphans \cup {d}
    BY <1>6, <2>2, DialEndsMoves DEF DialEnds, Advanced
  <2> QED
    BY <2>1, <2>2, <2>3 DEF OwnInv, DialInv
<1>7. ASSUME NEW d \in Dial, DialFails(d) PROVE OwnInv'
  <2>1. /\ dial[d] = "dialling" /\ dial' = [dial EXCEPT ![d] = "failed"]
        /\ UNCHANGED <<newConn, own, owner, tried, orphans>>
        /\ \A q \in Request : pc'[q] = pc[q] \/ pc'[q] = "error"
    BY <1>7 DEF DialFails
  <2> QED
    BY <2>1 DEF OwnInv, DialInv
<1>8. CASE DropIdle \/ Rest \/ UNCHANGED vars
  <2>1. UNCHANGED <<requestVars, dialVars, orphans>>
    BY <1>8 DEF DropIdle, Rest, vars
  <2> QED
    BY <2>1 DEF OwnInv
<1> QED
  BY <1>1, <1>2, <1>3, <1>4, <1>5, <1>6, <1>7, <1>8 DEF TraceNext, RoundTrip, Callback
(* Whom the counters count.                                                *)
HitSet(p) == {r \in Request : p[r] = "hit"}
HitInv == hits = Cardinality(HitSet(pc))

LEMMA SomeRequestsFinite ==
    ASSUME NEW A, A \subseteq Request
    PROVE  IsFiniteSet(A) /\ Cardinality(A) \in Nat
BY ConstantsFinite, FS_Subset, FS_CardinalityType

LEMMA SomeDialsFinite ==
    ASSUME NEW A, A \subseteq Dial
    PROVE  IsFiniteSet(A) /\ Cardinality(A) \in Nat
BY ConstantsFinite, FS_Subset, FS_CardinalityType

LEMMA HitStep == DialInv /\ HitInv /\ [TraceNext]_vars => HitInv'
<1> SUFFICES ASSUME DialInv, HitInv, [TraceNext]_vars PROVE HitInv'
  OBVIOUS
<1> USE DEF requestVars, dialVars, counterVars
<1>1. ASSUME hits' = hits, \A q \in Request : pc'[q] = "hit" <=> pc[q] = "hit" PROVE HitInv'
  <2>1. HitSet(pc') = HitSet(pc)
    BY <1>1 DEF HitSet
  <2> QED
    BY <1>1, <2>1 DEF HitInv
<1>2. ASSUME NEW r \in Request, Begin(r) \/ Retry(r) PROVE HitInv'
  <2>1. GetConn(r) /\ hits' = hits /\ pc[r] # "hit"
    BY <1>2 DEF Begin, Retry
  <2>2. \A q \in Request : pc'[q] = "hit" <=> pc[q] = "hit"
    BY <2>1 DEF GetConn, DialInv
  <2> QED
    BY <1>1, <2>1, <2>2
<1>3. ASSUME NEW r \in Request, Fail(r) \/ Drain(r) \/ BreakOff(r) PROVE HitInv'
  <2>1. hits' = hits
    BY <1>3 DEF Fail, Drain, BreakOff
  <2>2. CASE Drain(r)
    <3>1. \A q \in Request : pc'[q] = "hit" <=> pc[q] = "hit"
      BY <2>2, DrainMoves DEF Advanced
    <3> QED
      BY <1>1, <2>1, <3>1
  <2>3. CASE Fail(r) \/ BreakOff(r)
    <3>1. \A q \in Request : pc'[q] = "hit" <=> pc[q] = "hit"
      BY <2>3 DEF Fail, BreakOff, DialInv
    <3> QED
      BY <1>1, <2>1, <3>1
  <2> QED
    BY <1>3, <2>2, <2>3
<1>4. ASSUME NEW r \in Request, Count(r) PROVE HitInv'
  <2>1. pc[r] = "count"
    BY <1>4 DEF Count
  <2>2. CASE newConn[r]
    <3>1. hits' = hits /\ \A q \in Request : pc'[q] = "hit" <=> pc[q] = "hit"
      BY <1>4, <2>1, <2>2 DEF Count, DialInv
    <3> QED
      BY <1>1, <3>1
  <2>3. CASE ~ newConn[r]
    <3>1. hits' = hits + 1 /\ HitSet(pc') = HitSet(pc) \cup {r} /\ r \notin HitSet(pc)
      BY <1>4, <2>1, <2>3 DEF Count, DialInv, HitSet
    <3>2. IsFiniteSet(HitSet(pc))
      BY SomeRequestsFinite DEF HitSet
    <3>3. Cardinality(HitSet(pc')) = Cardinality(HitSet(pc)) + 1
      BY <3>1, <3>2, FS_AddElement
    <3> QED
      BY <3>1, <3>3 DEF HitInv
  <2> QED
    BY <2>2, <2>3
<1>5. ASSUME NEW d \in Dial, Callback(d) PROVE HitInv'
  <2>1. hits' = hits /\ \A q \in Request : pc'[q] = "hit" <=> pc[q] = "hit"
    <3>1. CASE ConnectStart(d) \/ ConnectFails(d) \/ ConnectSucceeds(d)
      BY <3>1 DEF ConnectStart, ConnectFails, ConnectSucceeds
    <3>2. CASE DialEnds(d)
      BY <3>2, DialEndsMoves DEF DialEnds, Advanced
    <3>3. CASE DialFails(d)
      BY <3>3 DEF DialFails, Waiting
    <3> QED
      BY <1>5, <3>1, <3>2, <3>3 DEF Callback
  <2> QED
    BY <1>1, <2>1
<1>6. CASE DropIdle \/ Rest \/ UNCHANGED vars
  <2>1. hits' = hits /\ pc' = pc
    BY <1>6 DEF DropIdle, Rest, vars
  <2> QED
    BY <1>1, <2>1
<1> QED
  BY <1>2, <1>3, <1>4, <1>5, <1>6 DEF TraceNext, RoundTrip

(* Of HTTP/1, what is taken out of the pool was put into it: the hits, the *)
(* idle connections and the requests that ride a pooled one are no more    *)
(* than what requests have returned and late dials have brought.           *)
Riders(p, o) == {r \in Request : p[r] \in {"ride", "count"} /\ r \notin o}
SupplyInv ==
    /\ idle \in Nat /\ hits \in Nat /\ returns \in Nat
    /\ ~ shared => hits + idle + Cardinality(Riders(pc, own)) <= returns + Cardinality(orphans)

LEMMA RidersType == \A p, o : IsFiniteSet(Riders(p, o)) /\ Cardinality(Riders(p, o)) \in Nat
BY SomeRequestsFinite DEF Riders

(* A connection that becomes free gives one ride, or one place in the pool *)
(* that was free; or it is closed.                                         *)
LEMMA HandOverMoves ==
    ASSUME DialInv, idle \in Nat, NEW p, HandOver(p),
           \E S : p \in [Request -> S],
           \A w \in Waiting : p[w] = "wait" /\ w \notin own
    PROVE  /\ idle' \in Nat
           /\ Kept => idle' + Cardinality(Riders(pc', own)) <= idle + Cardinality(Riders(p, own)) + 1
           /\ ~ Kept => idle' + Cardinality(Riders(pc', own)) <= idle + Cardinality(Riders(p, own))
<1>1. CASE Waiting = {} /\ pc' = p /\ idle' = IF Kept THEN idle + 1 ELSE idle
  BY <1>1, RidersType
<1>2. ASSUME NEW w \in Waiting, pc' = [p EXCEPT ![w] = "ride"], idle' = idle
      PROVE  /\ idle' \in Nat
             /\ Kept /\ idle' + Cardinality(Riders(pc', own)) <= idle + Cardinality(Riders(p, own)) + 1
  <2>1. Kept
    BY <1>2 DEF Kept
  <2>2. Riders(pc', own) = Riders(p, own) \cup {w} /\ w \notin Riders(p, own)
    BY <1>2 DEF Riders, Waiting
  <2>3. Cardinality(Riders(pc', own)) = Cardinality(Riders(p, own)) + 1
    BY <2>2, RidersType, FS_AddElement
  <2> QED
    BY <1>2, <2>1, <2>3, RidersType
<1> QED
  BY <1>1, <1>2 DEF HandOver

LEMMA SupplyStep ==
    DialInv /\ OwnInv /\ HitInv /\ HitInv' /\ SupplyInv /\ [TraceNext]_vars => SupplyInv'
<1> USE DEF requestVars, dialVars, counterVars
<1>b. ASSUME HitInv', SupplyInv, [TraceNext]_vars
      PROVE  /\ shared' = shared
             /\ hits' \in Nat /\ idle' \in Nat /\ returns' \in Nat
  <2>1. shared' = shared /\ idle' \in Nat /\ returns' \in Nat
    BY <1>b DEF TraceNext, RoundTrip, Callback, Begin, Retry, Fail, Drain, BreakOff, Count,
       GetConn, ConnectStart, Attempt, ConnectFails, ConnectSucceeds, DialEnds, DialFails,
       HandOver, Share, DropIdle, Rest, vars, SupplyInv
  <2>2. hits' \in Nat
    BY <1>b, SomeRequestsFinite DEF HitInv, HitSet
  <2> QED
    BY <2>1, <2>2
<1> SUFFICES ASSUME DialInv, OwnInv, HitInv', SupplyInv, [TraceNext]_vars, ~ shared
             PROVE  SupplyInv'
  BY <1>b DEF SupplyInv
<1>a. /\ idle \in Nat /\ hits \in Nat /\ returns \in Nat
      /\ hits + idle + Cardinality(Riders(pc, own)) <= returns + Cardinality(orphans)
      /\ Cardinality(Riders(pc, own)) \in Nat /\ Cardinality(Riders(pc', own')) \in Nat
      /\ IsFiniteSet(orphans) /\ Cardinality(orphans) \in Nat
  BY RidersType, SomeDialsFinite DEF SupplyInv, OwnInv
<1>1. ASSUME NEW r \in Request, Begin(r) \/ Retry(r) PROVE SupplyInv'
  <2>1. GetConn(r) /\ UNCHANGED <<own, hits, returns, orphans>>
    <3>1. own' = own
      BY <1>1 DEF Begin, Retry
    <3> QED
      BY <1>1, <3>1 DEF Begin, Retry
  <2>2. CASE idle > 0 /\ idle' = idle - 1 /\ pc' = [pc EXCEPT ![r] = "ride"]
    <3>1. Riders(pc', own) \subseteq Riders(pc, own) \cup {r}
      BY <2>2 DEF Riders, DialInv
    <3>2. IsFiniteSet(Riders(pc, own) \cup {r})
          /\ Cardinality(Riders(pc, own) \cup {r}) <= Cardinality(Riders(pc, own)) + 1
      <4> DEFINE A == Riders(pc, own)
      <4>1. IsFiniteSet(A) /\ Cardinality(A) \in Nat
        BY RidersType
      <4> HIDE DEF A
      <4>2. IsFiniteSet(A \cup {r})
            /\ Cardinality(A \cup {r}) = IF r \in A THEN Cardinality(A) ELSE Cardinality(A) + 1
        BY <4>1, FS_AddElement
      <4>3. IsFiniteSet(A \cup {r}) /\ Cardinality(A \cup {r}) <= Cardinality(A) + 1
        BY <4>1, <4>2
      <4> QED
        BY <4>3 DEF A
    <3>3. Cardinality(Riders(pc', own)) <= Cardinality(Riders(pc, own) \cup {r})
      BY <3>1, <3>2, FS_Subset
    <3>4. Cardinality(Riders(pc', own)) <= Cardinality(Riders(pc, own)) + 1
      BY <1>a, <2>1, <3>2, <3>3, FS_CardinalityType
    <3> QED
      BY <1>a, <2>1, <2>2, <3>4 DEF SupplyInv
  <2>3. CASE idle' = idle /\ pc' = [pc EXCEPT ![r] = "wait"]
    <3>1. Riders(pc', own) \subseteq Riders(pc, own)
      BY <2>3 DEF Riders, DialInv
    <3>2. Cardinality(Riders(pc', own)) <= Cardinality(Riders(pc, own))
      BY <3>1, RidersType, FS_Subset
    <3> QED
      BY <1>a, <2>1, <2>3, <3>2 DEF SupplyInv
  <2> QED
    BY <2>1, <2>2, <2>3 DEF GetConn
<1>2. ASSUME NEW r \in Request, Fail(r) \/ BreakOff(r) PROVE SupplyInv'
  <2>1. /\ UNCHANGED <<own, hits, returns, orphans, idle>>
        /\ Riders(pc', own) \subseteq Riders(pc, own)
    BY <1>2 DEF Fail, BreakOff, Riders, DialInv
  <2>2. Cardinality(Riders(pc', own)) <= Cardinality(Riders(pc, own))
    BY <2>1, RidersType, FS_Subset
  <2> QED
    BY <1>a, <2>1, <2>2 DEF SupplyInv
<1>3. ASSUME NEW r \in Request, Drain(r) PROVE SupplyInv'
  <2> DEFINE p == [pc EXCEPT ![r] = "count"]
  <2>1. /\ HandOver(p) /\ pc[r] = "ride" /\ UNCHANGED <<own, hits, orphans>>
        /\ returns' = IF Kept THEN returns + 1 ELSE returns
    BY <1>3 DEF Drain
  <2>2. /\ p \in [Request -> {"new", "wait", "ride", "count"} \cup Outcome]
        /\ \A w \in Waiting : p[w] = "wait" /\ w \notin own
        /\ Riders(p, own) = Riders(pc, own)
    BY <2>1 DEF Waiting, Riders, DialInv, OwnInv
  <2> HIDE DEF p
  <2>3. /\ idle' \in Nat
        /\ Kept => idle' + Cardinality(Riders(pc', own)) <= idle + Cardinality(Riders(pc, own)) + 1
        /\ ~ Kept => idle' + Cardinality(Riders(pc', own)) <= idle + Cardinality(Riders(pc, own))
    BY <1>a, <2>1, <2>2, HandOverMoves
  <2>4. CASE Kept
    BY <1>a, <2>1, <2>3, <2>4 DEF SupplyInv
  <2>5. CASE ~ Kept
    BY <1>a, <2>1, <2>3, <2>5 DEF SupplyInv
  <2> QED
    BY <2>4, <2>5
<1>4. ASSUME NEW r \in Request, Count(r) PROVE SupplyInv'
  <2>1. /\ pc[r] = "count" /\ UNCHANGED <<own, orphans, idle, returns>>
        /\ hits' = IF newConn[r] THEN hits ELSE hits + 1
        /\ \A q \in Request \ {r} : pc'[q] = pc[q]
        /\ pc'[r] \in {"hit", "miss"}
    BY <1>4 DEF Count, DialInv
  <2>2. Riders(pc', own) = Riders(pc, own) \ {r}
    BY <2>1 DEF Riders
  <2>3. Cardinality(Riders(pc', own)) =
            IF r \in Riders(pc, own) THEN Cardinality(Riders(pc, own)) - 1
            ELSE Cardinality(Riders(pc, own))
    BY <2>2, RidersType, FS_RemoveElement
  <2>4. ~ newConn[r] => r \in Riders(pc, own)
    BY <2>1 DEF Riders, OwnInv
  <2> QED
    BY <1>a, <2>1, <2>3, <2>4 DEF SupplyInv
<1>5. ASSUME NEW d \in Dial, ConnectStart(d) \/ ConnectFails(d) \/ ConnectSucceeds(d) PROVE SupplyInv'
  BY <1>5 DEF ConnectStart, ConnectFails, ConnectSucceeds, SupplyInv
<1>6. ASSUME NEW d \in Dial, DialEnds(d) PROVE SupplyInv'
  <2>1. dial[d] = "connected" /\ UNCHANGED <<hits, returns>>
    BY <1>6 DEF DialEnds
  <2>2. CASE /\ owner[d] \in Waiting /\ pc' = [pc EXCEPT ![owner[d]] = "ride"]
             /\ own' = own \cup {owner[d]} /\ UNCHANGED <<idle, orphans>>
    <3>1. Riders(pc', own') \subseteq Riders(pc, own)
      BY <2>2 DEF Riders, DialInv
    <3>2. Cardinality(Riders(pc', own')) <= Cardinality(Riders(pc, own))
      BY <3>1, RidersType, FS_Subset
    <3> QED
      BY <1>a, <2>1, <2>2, <3>2 DEF SupplyInv
  <2>3. CASE HandOver(pc) /\ orphans' = orphans \cup {d} /\ own' = own
    <3>1. d \notin orphans
      BY <2>1 DEF OwnInv
    <3>2. Cardinality(orphans') = Cardinality(orphans) + 1
      BY <1>a, <2>3, <3>1, FS_AddElement
    <3>3. /\ \E S : pc \in [Request -> S]
          /\ \A w \in Waiting : pc[w] = "wait" /\ w \notin own
      BY DEF Waiting, DialInv, OwnInv
    <3>4. /\ idle' \in Nat
          /\ Kept => idle' + Cardinality(Riders(pc', own)) <= idle + Cardinality(Riders(pc, own)) + 1
          /\ ~ Kept => idle' + Cardinality(Riders(pc', own)) <= idle + Cardinality(Riders(pc, own))
      BY <1>a, <2>3, <3>3, HandOverMoves
    <3>5. idle' + Cardinality(Riders(pc', own)) <= idle + Cardinality(Riders(pc, own)) + 1
      BY <1>a, <2>3, <3>4
    <3> QED
      BY <1>a, <2>1, <2>3, <3>2, <3>4, <3>5 DEF SupplyInv
  <2> QED
    BY <1>6, <2>2, <2>3 DEF DialEnds, Wanted
<1>7. ASSUME NEW d \in Dial, DialFails(d) PROVE SupplyInv'
  <2>1. /\ UNCHANGED <<own, hits, returns, orphans, idle>>
        /\ Riders(pc', own) \subseteq Riders(pc, own)
    BY <1>7 DEF DialFails, Riders
  <2>2. Cardinality(Riders(pc', own)) <= Cardinality(Riders(pc, own))
    BY <2>1, RidersType, FS_Subset
  <2> QED
    BY <1>a, <2>1, <2>2 DEF SupplyInv
<1>8. CASE DropIdle
  BY <1>8, <1>a DEF DropIdle, SupplyInv
<1>9. CASE Rest \/ UNCHANGED vars
  BY <1>9 DEF Rest, vars, SupplyInv
<1> QED
  BY <1>1, <1>2, <1>3, <1>4, <1>5, <1>6, <1>7, <1>8, <1>9 DEF TraceNext, RoundTrip, Callback

LEMMA HitInit == TraceInit => HitInv /\ SupplyInv
<1> SUFFICES ASSUME TraceInit PROVE HitInv /\ SupplyInv
  OBVIOUS
<1>1. HitSet(pc) = {} /\ Riders(pc, own) = {} /\ orphans = {}
  BY DEF TraceInit, HitSet, Riders
<1>2. hits = 0 /\ idle = 0 /\ returns = 0
  BY DEF TraceInit
<1> QED
  BY <1>1, <1>2, FS_EmptySet DEF HitInv, SupplyInv

(* A hit never rode its own dial; each miss that did not has a stray dial, *)
(* and no two have the same.                                               *)
LEMMA HitsMean == DialInv /\ OwnInv /\ HitInv => HitsAreReuses
<1> SUFFICES ASSUME DialInv, OwnInv, HitInv PROVE HitsAreReuses
  OBVIOUS
<1> DEFINE H == HitSet(pc)
           M == {r \in Request : pc[r] = "miss" /\ r \notin own}
           f == [r \in M |-> CHOOSE d \in Dial : tried[d] > 0 /\ owner[d] = r]
<1>1. Successes \ own = H \cup M /\ H \cap M = {}
  BY DEF Successes, HitSet, OwnInv
<1>2. /\ IsFiniteSet(H) /\ IsFiniteSet(M) /\ IsFiniteSet(Strays)
      /\ Cardinality(H) \in Nat /\ Cardinality(M) \in Nat /\ Cardinality(Strays) \in Nat
  BY SomeRequestsFinite, SomeDialsFinite DEF HitSet, Strays
<1>3. \A r \in M : f[r] \in Strays /\ owner[f[r]] = r
  <2> SUFFICES ASSUME NEW r \in M PROVE f[r] \in Strays /\ owner[f[r]] = r
    OBVIOUS
  <2>1. \E d \in Dial : tried[d] > 0 /\ owner[d] = r
    BY DEF OwnInv
  <2>2. f[r] \in Dial /\ tried[f[r]] > 0 /\ owner[f[r]] = r
    BY <2>1
  <2> QED
    BY <2>2 DEF Strays
<1> HIDE DEF H
<1>4. f \in Injection(M, Strays)
  <2>1. \A a, b \in M : f[a] = f[b] => a = b
    BY <1>3
  <2>2. f \in [M -> Strays]
    BY <1>3
  <2> HIDE DEF f
  <2> QED
    BY <2>1, <2>2 DEF Injection, IsInjective
<1>5. Cardinality(M) <= Cardinality(Strays)
  BY <1>2, <1>4, FS_Injection
<1> HIDE DEF M
<1>6. Cardinality(Successes \ own) = Cardinality(H) + Cardinality(M)
  <2>1. Cardinality(H \cap M) = 0
    BY <1>1, FS_EmptySet
  <2>2. Cardinality(H \cup M) = Cardinality(H) + Cardinality(M) - Cardinality(H \cap M)
    BY <1>2, FS_Union
  <2>3. Cardinality(H \cup M) = Cardinality(H) + Cardinality(M)
    BY <1>2, <2>1, <2>2
  <2> QED
    BY <1>1, <2>3
<1>7. hits = Cardinality(H)
  BY DEF HitInv, H
<1> QED
  BY <1>2, <1>5, <1>6, <1>7 DEF HitsAreReuses

(* "if ConnectStart did NOT fire, it was a pool hit" (execute.go): true of *)
(* every hit, although callbacks come from the goroutine of the dial, at   *)
(* any time before and after the request has got its connection, and       *)
(* although a connection of HTTP/2 is shared; a request that rode a        *)
(* pooled connection and is not a hit has begun a dial.                    *)
THEOREM HitsReuse == TraceSpec => []HitsAreReuses
<1>1. TraceInit => DialInv /\ OwnInv /\ HitInv
  BY DialInit, OwnInit, HitInit
<1>2. DialInv /\ OwnInv /\ HitInv /\ [TraceNext]_vars => (DialInv /\ OwnInv /\ HitInv)'
  BY DialStep, OwnStep, HitStep
<1> QED
  BY <1>1, <1>2, HitsMean, PTL DEF TraceSpec

(* A return is of a request that is answered, each of them once. *)
AnsweredBy(p) == {r \in Request : p[r] \in {"count", "hit", "miss"}}
ReturnInv ==
    /\ returns \in Nat /\ returns <= Cardinality(AnsweredBy(pc))
    /\ shared => returns = 0

LEMMA ReturnInit == TraceInit => ReturnInv
<1> SUFFICES ASSUME TraceInit PROVE ReturnInv
  OBVIOUS
<1>1. AnsweredBy(pc) = {}
  BY DEF TraceInit, AnsweredBy
<1> QED
  BY <1>1, FS_EmptySet DEF TraceInit, ReturnInv

LEMMA AnsweredGrows ==
    ASSUME NEW p, NEW q, AnsweredBy(p) \subseteq AnsweredBy(q)
    PROVE  /\ Cardinality(AnsweredBy(p)) \in Nat /\ Cardinality(AnsweredBy(q)) \in Nat
           /\ Cardinality(AnsweredBy(p)) <= Cardinality(AnsweredBy(q))
<1>1. IsFiniteSet(AnsweredBy(q))
  BY SomeRequestsFinite DEF AnsweredBy
<1> QED
  BY <1>1, FS_Subset, FS_CardinalityType

LEMMA ReturnStep == DialInv /\ ReturnInv /\ [TraceNext]_vars => ReturnInv'
<1> SUFFICES ASSUME DialInv, ReturnInv, [TraceNext]_vars PROVE ReturnInv'
  OBVIOUS
<1> USE DEF requestVars, dialVars, counterVars
<1>1. ASSUME UNCHANGED <<shared, returns>>, AnsweredBy(pc) \subseteq AnsweredBy(pc') PROVE ReturnInv'
  BY <1>1, AnsweredGrows DEF ReturnInv
<1>2. ASSUME NEW r \in Request, Begin(r) \/ Retry(r) PROVE ReturnInv'
  <2>1. GetConn(r) /\ pc[r] \in {"new", "ride"} /\ UNCHANGED <<shared, returns>>
    BY <1>2 DEF Begin, Retry
  <2>2. AnsweredBy(pc) \subseteq AnsweredBy(pc')
    BY <2>1 DEF GetConn, AnsweredBy, DialInv
  <2> QED
    BY <1>1, <2>1, <2>2
<1>3. ASSUME NEW r \in Request, Fail(r) \/ BreakOff(r) \/ Count(r) PROVE ReturnInv'
  <2>1. UNCHANGED <<shared, returns>> /\ AnsweredBy(pc) \subseteq AnsweredBy(pc')
    BY <1>3 DEF Fail, BreakOff, Count, AnsweredBy, DialInv
  <2> QED
    BY <1>1, <2>1
<1>4. ASSUME NEW r \in Request, Drain(r) PROVE ReturnInv'
  <2>1. /\ shared' = shared /\ returns' \in {returns, returns + 1}
        /\ shared => returns' = returns
    BY <1>4 DEF Drain
  <2>2. AnsweredBy(pc) \cup {r} \subseteq AnsweredBy(pc') /\ r \notin AnsweredBy(pc)
    BY <1>4, DrainMoves DEF AnsweredBy, Advanced
  <2>3. /\ IsFiniteSet(AnsweredBy(pc)) /\ IsFiniteSet(AnsweredBy(pc'))
        /\ Cardinality(AnsweredBy(pc)) \in Nat /\ Cardinality(AnsweredBy(pc')) \in Nat
    BY SomeRequestsFinite DEF AnsweredBy
  <2>4. Cardinality(AnsweredBy(pc) \cup {r}) = Cardinality(AnsweredBy(pc)) + 1
    BY <2>2, <2>3, FS_AddElement
  <2>5. Cardinality(AnsweredBy(pc) \cup {r}) <= Cardinality(AnsweredBy(pc'))
    BY <2>2, <2>3, FS_Subset
  <2> QED
    BY <2>1, <2>3, <2>4, <2>5 DEF ReturnInv
<1>5. ASSUME NEW d \in Dial, Callback(d) PROVE ReturnInv'
  <2>1. UNCHANGED <<shared, returns>>
    BY <1>5 DEF Callback, ConnectStart, ConnectFails, ConnectSucceeds, DialEnds, DialFails
  <2>2. AnsweredBy(pc) \subseteq AnsweredBy(pc')
    <3>1. CASE DialEnds(d)
      BY <3>1, DialEndsMoves DEF AnsweredBy, Advanced
    <3>2. CASE DialFails(d)
      BY <3>2 DEF DialFails, AnsweredBy, Waiting
    <3>3. CASE ConnectStart(d) \/ ConnectFails(d) \/ ConnectSucceeds(d)
      BY <3>3 DEF ConnectStart, ConnectFails, ConnectSucceeds
    <3> QED
      BY <1>5, <3>1, <3>2, <3>3 DEF Callback
  <2> QED
    BY <1>1, <2>1, <2>2
<1>6. CASE DropIdle \/ Rest \/ UNCHANGED vars
  <2>1. UNCHANGED <<shared, returns, pc>>
    BY <1>6 DEF DropIdle, Rest, vars
  <2> QED
    BY <1>1, <2>1
<1> QED
  BY <1>2, <1>3, <1>4, <1>5, <1>6 DEF TraceNext, RoundTrip

LEMMA ReturnsMean == OwnInv /\ SupplyInv /\ ReturnInv => ReturnsAreNotHits
<1> SUFFICES ASSUME OwnInv, SupplyInv, ReturnInv PROVE ReturnsAreNotHits
  OBVIOUS
<1>1. Cardinality(orphans) \in Nat
  BY SomeDialsFinite DEF OwnInv
<1>2. ~ shared => hits + idle <= returns + Cardinality(orphans)
  BY <1>1, RidersType DEF SupplyInv
<1>3. AnsweredBy(pc) = Answered
  BY DEF AnsweredBy, Answered
<1> QED
  BY <1>2, <1>3 DEF ReturnInv, ReturnsAreNotHits

(* What a tracing client calls a hit is a connection that PutIdleConn gave *)
(* back (trace.go): on HTTP/1 these cover the requests served from the     *)
(* pool but for late dials, are never more than the requests answered, and *)
(* on HTTP/2 there are none.                                               *)
THEOREM ReturnsCover == TraceSpec => []ReturnsAreNotHits
<1>1. TraceInit => DialInv /\ OwnInv /\ HitInv /\ SupplyInv /\ ReturnInv
  BY DialInit, OwnInit, HitInit, ReturnInit
<1>2. DialInv /\ OwnInv /\ HitInv /\ SupplyInv /\ ReturnInv /\ [TraceNext]_vars
          => (DialInv /\ OwnInv /\ HitInv /\ SupplyInv /\ ReturnInv)'
  BY DialStep, OwnStep, HitStep, SupplyStep, ReturnStep
<1> QED
  BY <1>1, <1>2, ReturnsMean, PTL DEF TraceSpec

-----------------------------------------------------------------------------
(* TransportStats. *)

(* The calls, and what is left of one after its first addition. *)
Created == RecordConnectionCreated
Reused == RecordConnectionReused
Closed == RecordConnectionClosed
Miss == RecordPoolMiss
CreatedRest == <<Up("active")>>
ReusedRest == <<Up("hits")>>
ClosedRest == <<[counter |-> "active", by |-> -1]>>
Partial == {CreatedRest, ReusedRest, ClosedRest}
Todo == {<<>>} \cup Record \cup Partial

LEMMA CallsDiffer ==
    /\ Created # Reused /\ Created # Closed /\ Created # Miss
    /\ Reused # Closed /\ Reused # Miss /\ Closed # Miss
    /\ CreatedRest # ReusedRest /\ CreatedRest # ClosedRest /\ ReusedRest # ClosedRest
    /\ <<>> \notin Record \cup Partial
    /\ Record \cap Partial = {}
<1>1. /\ Created[1].counter = "created" /\ Reused[1].counter = "reused"
      /\ Closed[1].counter = "closed" /\ Miss[1].counter = "misses"
  BY DEF Created, Reused, Closed, Miss, RecordConnectionCreated, RecordConnectionReused,
     RecordConnectionClosed, RecordPoolMiss, Up
<1>2. /\ CreatedRest[1].counter = "active" /\ CreatedRest[1].by = 1
      /\ ReusedRest[1].counter = "hits"
      /\ ClosedRest[1].counter = "active" /\ ClosedRest[1].by = -1
  BY DEF CreatedRest, ReusedRest, ClosedRest, Up
<1>3. /\ Len(Created) = 2 /\ Len(Reused) = 2 /\ Len(Closed) = 2 /\ Len(Miss) = 1
      /\ Len(CreatedRest) = 1 /\ Len(ReusedRest) = 1 /\ Len(ClosedRest) = 1 /\ Len(<<>>) = 0
  BY DEF Created, Reused, Closed, Miss, RecordConnectionCreated, RecordConnectionReused,
     RecordConnectionClosed, RecordPoolMiss, CreatedRest, ReusedRest, ClosedRest
<1>4. Record = {Created, Reused, Closed, Miss}
  BY DEF Record, Created, Reused, Closed, Miss
<1>5. /\ Created # Reused /\ Created # Closed /\ Created # Miss
      /\ Reused # Closed /\ Reused # Miss /\ Closed # Miss
  BY <1>1
<1>6. CreatedRest # ReusedRest /\ CreatedRest # ClosedRest /\ ReusedRest # ClosedRest
  BY <1>2
<1>7. <<>> \notin {Created, Reused, Closed, Miss} \cup Partial
  BY <1>3 DEF Partial
<1>8. {Created, Reused, Closed, Miss} \cap Partial = {}
  BY <1>1, <1>2 DEF Partial
<1> QED
  BY <1>4, <1>5, <1>6, <1>7, <1>8

LEMMA TailsOfCalls ==
    /\ Record = {Created, Reused, Closed, Miss}
    /\ Tail(Created) = CreatedRest /\ Tail(Reused) = ReusedRest
    /\ Tail(Closed) = ClosedRest /\ Tail(Miss) = <<>>
    /\ \A t \in Partial : Tail(t) = <<>>
<1>1. /\ Tail(Created) = CreatedRest /\ Tail(Reused) = ReusedRest /\ Tail(Closed) = ClosedRest
  BY DEF Created, Reused, Closed, RecordConnectionCreated, RecordConnectionReused,
     RecordConnectionClosed, CreatedRest, ReusedRest, ClosedRest
<1>2. Tail(Miss) = <<>> /\ \A t \in Partial : Tail(t) = <<>>
  BY DEF Miss, RecordPoolMiss, Partial, CreatedRest, ReusedRest, ClosedRest
<1> QED
  BY <1>1, <1>2 DEF Record, Created, Reused, Closed, Miss

(* Recorders whose additions to come are in T. *)
In(T) == {g \in Recorder : todo[g] \in T}
Num(T) == Cardinality(In(T))

LEMMA NumType == ASSUME NEW T PROVE IsFiniteSet(In(T)) /\ Num(T) \in Nat
BY TransportStatsAssumption, FS_Subset, FS_CardinalityType DEF In, Num

(* A step of one recorder takes it from one group to another. *)
LEMMA OneMoves ==
    ASSUME NEW T, NEW g \in Recorder, NEW t, todo \in [Recorder -> Todo],
           todo' = [todo EXCEPT ![g] = t]
    PROVE  Num(T)' = (Num(T) - (IF todo[g] \in T THEN 1 ELSE 0)) + (IF t \in T THEN 1 ELSE 0)
<1> DEFINE A == In(T) \ {g}
<1>1. In(T)' = IF t \in T THEN A \cup {g} ELSE A
  BY DEF In
<1>2. IsFiniteSet(A) /\ Cardinality(A) = IF todo[g] \in T THEN Num(T) - 1 ELSE Num(T)
  BY NumType, FS_RemoveElement DEF In, Num
<1>3. Cardinality(A \cup {g}) = Cardinality(A) + 1
  BY <1>2, FS_AddElement
<1>4. Num(T) \in Nat /\ Num(T)' = Cardinality(In(T)')
  BY NumType DEF Num
<1> QED
  BY <1>1, <1>2, <1>3, <1>4

-----------------------------------------------------------------------------
(* How many recorders stand where. *)
nBusy == Num(Record \cup Partial)
nCreated == Num({Created})
nCreatedRest == Num({CreatedRest})
nCreatedAny == Num({Created, CreatedRest})
nReused == Num({Reused})
nReusedRest == Num({ReusedRest})
nClosed == Num({Closed})
nClosedRest == Num({ClosedRest})
nClosedAny == Num({Closed, ClosedRest})

TodoOK == todo \in [Recorder -> Todo]

LEMMA CountsType ==
    /\ nBusy \in Nat /\ nCreated \in Nat /\ nCreatedRest \in Nat /\ nCreatedAny \in Nat
    /\ nReused \in Nat /\ nReusedRest \in Nat
    /\ nClosed \in Nat /\ nClosedRest \in Nat /\ nClosedAny \in Nat
BY NumType DEF nBusy, nCreated, nCreatedRest, nCreatedAny, nReused, nReusedRest,
   nClosed, nClosedRest, nClosedAny

LEMMA NumMonotone ==
    ASSUME NEW S, NEW T, S \subseteq T
    PROVE  Num(S) <= Num(T)
BY NumType, FS_Subset DEF In, Num

LEMMA NumDisjoint ==
    ASSUME NEW S, NEW T, S \cap T = {}
    PROVE  Num(S \cup T) = Num(S) + Num(T)
<1>1. In(S \cup T) = In(S) \cup In(T) /\ In(S) \cap In(T) = {}
  BY DEF In
<1>2. Cardinality({}) = 0
  BY FS_EmptySet
<1>3. Cardinality(In(S) \cup In(T))
          = Cardinality(In(S)) + Cardinality(In(T)) - Cardinality(In(S) \cap In(T))
  BY NumType, FS_Union
<1>4. /\ Num(S \cup T) = Cardinality(In(S) \cup In(T)) /\ Cardinality(In(S) \cap In(T)) = 0
      /\ Num(S) = Cardinality(In(S)) /\ Num(T) = Cardinality(In(T))
  BY <1>1, <1>2 DEF Num
<1>5. Num(S) \in Nat /\ Num(T) \in Nat
  BY NumType
<1> QED
  BY <1>3, <1>4, <1>5

(* Groups that lie in one another. *)
LEMMA CountsNested ==
    /\ nReused <= nBusy /\ nReusedRest <= nBusy
    /\ nCreatedRest <= nCreatedAny /\ nClosedRest <= nClosedAny
    /\ nCreated + nClosedAny <= nBusy /\ nClosed + nCreatedAny <= nBusy
    /\ nCreatedRest + nClosedRest <= nBusy
    /\ nBusy <= Cardinality(Recorder)
<1>1. /\ nReused <= nBusy /\ nReusedRest <= nBusy
      /\ nCreatedRest <= nCreatedAny /\ nClosedRest <= nClosedAny
  BY NumMonotone, TailsOfCalls DEF Partial, nBusy, nCreatedRest, nCreatedAny, nReused, nReusedRest,
     nClosedRest, nClosedAny
<1>2. nCreated + nClosedAny <= nBusy
  <2>1. Num({Created} \cup {Closed, ClosedRest}) = nCreated + nClosedAny
    <3>1. {Created} \cap {Closed, ClosedRest} = {}
      BY CallsDiffer, TailsOfCalls DEF Partial
    <3> QED
      BY <3>1, NumDisjoint DEF nCreated, nClosedAny
  <2> QED
    BY <2>1, NumMonotone, TailsOfCalls DEF Partial, nBusy
<1>3. nClosed + nCreatedAny <= nBusy
  <2>1. Num({Closed} \cup {Created, CreatedRest}) = nClosed + nCreatedAny
    <3>1. {Closed} \cap {Created, CreatedRest} = {}
      BY CallsDiffer, TailsOfCalls DEF Partial
    <3> QED
      BY <3>1, NumDisjoint DEF nClosed, nCreatedAny
  <2> QED
    BY <2>1, NumMonotone, TailsOfCalls DEF Partial, nBusy
<1>4. nCreatedRest + nClosedRest <= nBusy
  <2>1. Num({CreatedRest} \cup {ClosedRest}) = nCreatedRest + nClosedRest
    <3>1. {CreatedRest} \cap {ClosedRest} = {}
      BY CallsDiffer
    <3> QED
      BY <3>1, NumDisjoint DEF nCreatedRest, nClosedRest
  <2> QED
    BY <2>1, NumMonotone DEF Partial, nBusy
<1>5. nBusy <= Cardinality(Recorder)
  BY TransportStatsAssumption, FS_Subset DEF nBusy, Num, In
<1> QED
  BY <1>1, <1>2, <1>3, <1>4, <1>5

LEMMA BusyCounts == ASSUME TodoOK PROVE Cardinality(Busy) = nBusy
<1>1. Busy = In(Record \cup Partial)
  BY CallsDiffer DEF TodoOK, Todo, Busy, In
<1> QED
  BY <1>1 DEF nBusy, Num

(* A recorder goes from x to t. *)
Moves(g, x, t) == todo[g] = x /\ todo' = [todo EXCEPT ![g] = t]
Is(b) == IF b THEN 1 ELSE 0

LEMMA CountsMove ==
    ASSUME TodoOK, NEW g \in Recorder, NEW x \in Todo, NEW t \in Todo, Moves(g, x, t)
    PROVE  /\ nBusy' = (nBusy - Is(x # <<>>)) + Is(t # <<>>)
           /\ nCreated' = (nCreated - Is(x = Created)) + Is(t = Created)
           /\ nCreatedRest' = (nCreatedRest - Is(x = CreatedRest)) + Is(t = CreatedRest)
           /\ nCreatedAny' = (nCreatedAny - Is(x \in {Created, CreatedRest}))
                                 + Is(t \in {Created, CreatedRest})
           /\ nReused' = (nReused - Is(x = Reused)) + Is(t = Reused)
           /\ nReusedRest' = (nReusedRest - Is(x = ReusedRest)) + Is(t = ReusedRest)
           /\ nClosed' = (nClosed - Is(x = Closed)) + Is(t = Closed)
           /\ nClosedRest' = (nClosedRest - Is(x = ClosedRest)) + Is(t = ClosedRest)
           /\ nClosedAny' = (nClosedAny - Is(x \in {Closed, ClosedRest}))
                                + Is(t \in {Closed, ClosedRest})
<1> USE DEF Moves, TodoOK, Is
<1>1. nBusy' = (nBusy - Is(x \in Record \cup Partial)) + Is(t \in Record \cup Partial)
  BY OneMoves DEF nBusy
<1>2. (x \in Record \cup Partial <=> x # <<>>) /\ (t \in Record \cup Partial <=> t # <<>>)
  BY CallsDiffer DEF Todo
<1>3. /\ nCreated' = (nCreated - Is(x \in {Created})) + Is(t \in {Created})
      /\ nCreatedRest' = (nCreatedRest - Is(x \in {CreatedRest})) + Is(t \in {CreatedRest})
  BY OneMoves DEF nCreated, nCreatedRest
<1>4. nCreatedAny' = (nCreatedAny - Is(x \in {Created, CreatedRest}))
                          + Is(t \in {Created, CreatedRest})
  BY OneMoves DEF nCreatedAny
<1>5. /\ nReused' = (nReused - Is(x \in {Reused})) + Is(t \in {Reused})
      /\ nReusedRest' = (nReusedRest - Is(x \in {ReusedRest})) + Is(t \in {ReusedRest})
  BY OneMoves DEF nReused, nReusedRest
<1>6. /\ nClosed' = (nClosed - Is(x \in {Closed})) + Is(t \in {Closed})
      /\ nClosedRest' = (nClosedRest - Is(x \in {ClosedRest})) + Is(t \in {ClosedRest})
  BY OneMoves DEF nClosed, nClosedRest
<1>7. nClosedAny' = (nClosedAny - Is(x \in {Closed, ClosedRest}))
                         + Is(t \in {Closed, ClosedRest})
  BY OneMoves DEF nClosedAny
<1> QED
  BY <1>1, <1>2, <1>3, <1>4, <1>5, <1>6, <1>7

-----------------------------------------------------------------------------
(* Steps. *)
StatsTypeInv ==
    /\ TodoOK
    /\ stats \in [Counter -> Int] /\ snapshot \in [Counter -> Int]
    /\ resetAt \in 0 .. 6 /\ readAt \in 0 .. 6
    /\ calls \in Nat /\ resets \in Nat /\ torn \in Nat

Raises(c, n) == stats' = [stats EXCEPT ![c] = @ + n]

LEMMA CounterNames ==
    /\ Counter = {"created", "reused", "closed", "hits", "misses", "active"}
    /\ Order[1] = "created" /\ Order[2] = "reused" /\ Order[3] = "closed"
    /\ Order[4] = "hits" /\ Order[5] = "misses" /\ Order[6] = "active"
<1>1. /\ Order[1] = "created" /\ Order[2] = "reused" /\ Order[3] = "closed"
      /\ Order[4] = "hits" /\ Order[5] = "misses" /\ Order[6] = "active"
  BY DEF Order
<1>2. 1 .. 6 = {1, 2, 3, 4, 5, 6}
  OBVIOUS
<1>3. Counter = {Order[1], Order[2], Order[3], Order[4], Order[5], Order[6]}
  BY <1>2 DEF Counter
<1> QED
  BY <1>1, <1>3

(* What a recorder does next depends on what it has left. *)
LEMMA AddMoves ==
    ASSUME TodoOK, NEW g \in Recorder, Add(g)
    PROVE  \/ Moves(g, Created, CreatedRest) /\ Raises("created", 1)
           \/ Moves(g, CreatedRest, <<>>) /\ Raises("active", 1)
           \/ Moves(g, Reused, ReusedRest) /\ Raises("reused", 1)
           \/ Moves(g, ReusedRest, <<>>) /\ Raises("hits", 1)
           \/ Moves(g, Closed, ClosedRest) /\ Raises("closed", 1)
           \/ Moves(g, ClosedRest, <<>>) /\ Raises("active", -1)
           \/ Moves(g, Miss, <<>>) /\ Raises("misses", 1)
<1>1. /\ Created[1] = Up("created") /\ Reused[1] = Up("reused")
      /\ Closed[1] = Up("closed") /\ Miss[1] = Up("misses")
      /\ CreatedRest[1] = Up("active") /\ ReusedRest[1] = Up("hits")
  BY DEF Created, Reused, Closed, Miss, RecordConnectionCreated, RecordConnectionReused,
     RecordConnectionClosed, RecordPoolMiss, CreatedRest, ReusedRest
<1>2. todo[g] \in {Created, Reused, Closed, Miss} \cup Partial
  BY TailsOfCalls DEF TodoOK, Todo, Add
<1>3. /\ Moves(g, todo[g], Tail(todo[g]))
      /\ Raises(todo[g][1].counter, todo[g][1].by)
  BY DEF Add, Moves, Raises
<1>4. \A c : Up(c).counter = c /\ Up(c).by = 1
  BY DEF Up
<1>5. CASE todo[g] = Created
  BY <1>1, <1>3, <1>4, <1>5, TailsOfCalls
<1>6. CASE todo[g] = Reused
  BY <1>1, <1>3, <1>4, <1>6, TailsOfCalls
<1>7. CASE todo[g] = Closed
  BY <1>1, <1>3, <1>4, <1>7, TailsOfCalls
<1>8. CASE todo[g] = Miss
  BY <1>1, <1>3, <1>4, <1>8, TailsOfCalls
<1>9. CASE todo[g] = CreatedRest
  BY <1>1, <1>3, <1>4, <1>9, TailsOfCalls DEF Partial
<1>10. CASE todo[g] = ReusedRest
  BY <1>1, <1>3, <1>4, <1>10, TailsOfCalls DEF Partial
<1>11. CASE todo[g] = ClosedRest
  <2>1. ClosedRest[1].counter = "active" /\ ClosedRest[1].by = -1 /\ Tail(ClosedRest) = <<>>
    BY TailsOfCalls DEF ClosedRest, Partial
  <2>2. Moves(g, ClosedRest, <<>>) /\ Raises("active", -1)
    BY <1>3, <1>11, <2>1
  <2> QED
    BY <2>2
<1> QED
  BY <1>2, <1>5, <1>6, <1>7, <1>8, <1>9, <1>10, <1>11 DEF Partial

LEMMA StatsTypeInit == StatsInit => StatsTypeInv
BY CounterNames DEF StatsInit, StatsTypeInv, TodoOK, Todo, Zero

LEMMA StatsTypeStep == StatsTypeInv /\ [StatsNext]_statsVars => StatsTypeInv'
<1> SUFFICES ASSUME StatsTypeInv, [StatsNext]_statsVars PROVE StatsTypeInv'
  OBVIOUS
<1>1. ASSUME NEW g \in Recorder, Add(g) PROVE StatsTypeInv'
  <2>1. \A t \in {Created, Reused, Closed, Miss} \cup Partial : Tail(t) \in Todo
    BY TailsOfCalls DEF Todo, Partial
  <2>2. todo[g] \in {Created, Reused, Closed, Miss} \cup Partial
    BY <1>1, TailsOfCalls DEF StatsTypeInv, TodoOK, Todo, Add
  <2>3. TodoOK'
    BY <1>1, <2>1, <2>2 DEF StatsTypeInv, TodoOK, Add
  <2>4. stats' \in [Counter -> Int]
    BY <1>1, AddMoves DEF StatsTypeInv, Raises
  <2> QED
    BY <1>1, <2>3, <2>4 DEF StatsTypeInv, Add
<1>2. ASSUME NEW g \in Recorder, NEW c \in Record, Call(g, c) PROVE StatsTypeInv'
  BY <1>2 DEF StatsTypeInv, TodoOK, Todo, Call
<1>3. CASE BeginReset
  <2>1. Cardinality(Busy) \in Nat
    BY BusyCounts, CountsType DEF StatsTypeInv
  <2> QED
    BY <1>3, <2>1 DEF StatsTypeInv, TodoOK, BeginReset
<1>4. CASE Reset
  BY <1>4, CounterNames DEF StatsTypeInv, TodoOK, Reset, After
<1>5. CASE BeginSnapshot \/ Snapshot \/ UNCHANGED statsVars
  BY <1>5, CounterNames DEF StatsTypeInv, TodoOK, BeginSnapshot, Snapshot, Zero, After, statsVars
<1> QED
  BY <1>1, <1>2, <1>3, <1>4, <1>5 DEF StatsNext

-----------------------------------------------------------------------------
(* What one addition changes, in numbers. *)
sCreated == stats["created"]
sReused == stats["reused"]
sClosed == stats["closed"]
sHits == stats["hits"]
sActive == stats["active"]

LEMMA NumbersType ==
    ASSUME StatsTypeInv
    PROVE  /\ sCreated \in Int /\ sReused \in Int /\ sClosed \in Int /\ sHits \in Int
           /\ sActive \in Int /\ torn \in Nat
BY CounterNames DEF StatsTypeInv, sCreated, sReused, sClosed, sHits, sActive

LEMMA NumbersRaise ==
    ASSUME StatsTypeInv, NEW c \in Counter, NEW n \in Int, Raises(c, n)
    PROVE  /\ sCreated' = IF c = "created" THEN sCreated + n ELSE sCreated
           /\ sReused' = IF c = "reused" THEN sReused + n ELSE sReused
           /\ sClosed' = IF c = "closed" THEN sClosed + n ELSE sClosed
           /\ sHits' = IF c = "hits" THEN sHits + n ELSE sHits
           /\ sActive' = IF c = "active" THEN sActive + n ELSE sActive
BY CounterNames DEF StatsTypeInv, Raises, sCreated, sReused, sClosed, sHits, sActive

LEMMA CallsInTodo ==
    /\ Created \in Todo /\ Reused \in Todo /\ Closed \in Todo /\ Miss \in Todo /\ <<>> \in Todo
    /\ CreatedRest \in Todo /\ ReusedRest \in Todo /\ ClosedRest \in Todo
BY TailsOfCalls DEF Todo, Partial

(* The change of every number, for a recorder that goes from x to t. *)
Shifts(x, t, c, n) ==
    /\ nBusy' = (nBusy - Is(x # <<>>)) + Is(t # <<>>)
    /\ nCreated' = (nCreated - Is(x = Created)) + Is(t = Created)
    /\ nCreatedRest' = (nCreatedRest - Is(x = CreatedRest)) + Is(t = CreatedRest)
    /\ nCreatedAny' = (nCreatedAny - Is(x \in {Created, CreatedRest}))
                          + Is(t \in {Created, CreatedRest})
    /\ nReused' = (nReused - Is(x = Reused)) + Is(t = Reused)
    /\ nReusedRest' = (nReusedRest - Is(x = ReusedRest)) + Is(t = ReusedRest)
    /\ nClosed' = (nClosed - Is(x = Closed)) + Is(t = Closed)
    /\ nClosedRest' = (nClosedRest - Is(x = ClosedRest)) + Is(t = ClosedRest)
    /\ nClosedAny' = (nClosedAny - Is(x \in {Closed, ClosedRest}))
                         + Is(t \in {Closed, ClosedRest})
    /\ sCreated' = IF c = "created" THEN sCreated + n ELSE sCreated
    /\ sReused' = IF c = "reused" THEN sReused + n ELSE sReused
    /\ sClosed' = IF c = "closed" THEN sClosed + n ELSE sClosed
    /\ sHits' = IF c = "hits" THEN sHits + n ELSE sHits
    /\ sActive' = IF c = "active" THEN sActive + n ELSE sActive

LEMMA MoveShifts ==
    ASSUME StatsTypeInv, NEW g \in Recorder, NEW x \in Todo, NEW t \in Todo,
           NEW c \in Counter, NEW n \in Int, Moves(g, x, t), Raises(c, n)
    PROVE  Shifts(x, t, c, n)
BY CountsMove, NumbersRaise DEF Shifts, StatsTypeInv

(* The pair of the pool, and the three counters of connections. *)
poolNumbers == <<nReused, nReusedRest, sReused, sHits>>
createdNumbers == <<nCreated, nCreatedRest, nCreatedAny, sCreated>>
closedNumbers == <<nClosed, nClosedRest, nClosedAny, sClosed>>

AddReused ==
    /\ sReused' = sReused + 1 /\ nReused' = nReused - 1 /\ nReusedRest' = nReusedRest + 1
    /\ UNCHANGED <<sHits, sActive, nBusy>> /\ UNCHANGED createdNumbers /\ UNCHANGED closedNumbers
AddHits ==
    /\ sHits' = sHits + 1 /\ nReusedRest' = nReusedRest - 1 /\ nBusy' = nBusy - 1
    /\ UNCHANGED <<sReused, nReused, sActive>>
    /\ UNCHANGED createdNumbers /\ UNCHANGED closedNumbers
AddCreated ==
    /\ sCreated' = sCreated + 1 /\ nCreated' = nCreated - 1 /\ nCreatedRest' = nCreatedRest + 1
    /\ UNCHANGED <<nCreatedAny, sActive, nBusy>> /\ UNCHANGED poolNumbers /\ UNCHANGED closedNumbers
AddOpened ==
    /\ sActive' = sActive + 1 /\ nCreatedRest' = nCreatedRest - 1
    /\ nCreatedAny' = nCreatedAny - 1 /\ nBusy' = nBusy - 1
    /\ UNCHANGED <<nCreated, sCreated>> /\ UNCHANGED poolNumbers /\ UNCHANGED closedNumbers
AddClosed ==
    /\ sClosed' = sClosed + 1 /\ nClosed' = nClosed - 1 /\ nClosedRest' = nClosedRest + 1
    /\ UNCHANGED <<nClosedAny, sActive, nBusy>> /\ UNCHANGED poolNumbers /\ UNCHANGED createdNumbers
AddGone ==
    /\ sActive' = sActive - 1 /\ nClosedRest' = nClosedRest - 1
    /\ nClosedAny' = nClosedAny - 1 /\ nBusy' = nBusy - 1
    /\ UNCHANGED <<nClosed, sClosed>> /\ UNCHANGED poolNumbers /\ UNCHANGED createdNumbers
AddMiss ==
    /\ nBusy' = nBusy - 1 /\ UNCHANGED sActive
    /\ UNCHANGED poolNumbers /\ UNCHANGED createdNumbers /\ UNCHANGED closedNumbers

LEMMA AddNumbers ==
    ASSUME StatsTypeInv, NEW g \in Recorder, Add(g)
    PROVE  AddReused \/ AddHits \/ AddCreated \/ AddOpened \/ AddClosed \/ AddGone \/ AddMiss
<1>a. /\ Created # <<>> /\ Reused # <<>> /\ Closed # <<>> /\ Miss # <<>>
      /\ CreatedRest # <<>> /\ ReusedRest # <<>> /\ ClosedRest # <<>>
  BY CallsDiffer, TailsOfCalls DEF Partial
<1>b. /\ Created # Reused /\ Created # Closed /\ Created # Miss
      /\ Reused # Closed /\ Reused # Miss /\ Closed # Miss
      /\ CreatedRest # ReusedRest /\ CreatedRest # ClosedRest /\ ReusedRest # ClosedRest
  BY CallsDiffer
<1>c. \A x \in {Created, Reused, Closed, Miss} :
          x # CreatedRest /\ x # ReusedRest /\ x # ClosedRest
  BY CallsDiffer, TailsOfCalls DEF Partial
<1>d. 1 \in Int /\ -1 \in Int
  OBVIOUS
<1>1. CASE Moves(g, Created, CreatedRest) /\ Raises("created", 1)
  <2>1. Shifts(Created, CreatedRest, "created", 1)
    BY <1>1, <1>d, MoveShifts, CallsInTodo, CounterNames
  <2> QED
    BY <2>1, <1>a, <1>b, <1>c, CountsType
    DEF Shifts, Is, AddCreated, poolNumbers, closedNumbers
<1>2. CASE Moves(g, CreatedRest, <<>>) /\ Raises("active", 1)
  <2>1. Shifts(CreatedRest, <<>>, "active", 1)
    BY <1>2, <1>d, MoveShifts, CallsInTodo, CounterNames
  <2> QED
    BY <2>1, <1>a, <1>b, <1>c, CountsType
    DEF Shifts, Is, AddOpened, poolNumbers, closedNumbers
<1>3. CASE Moves(g, Reused, ReusedRest) /\ Raises("reused", 1)
  <2>1. Shifts(Reused, ReusedRest, "reused", 1)
    BY <1>3, <1>d, MoveShifts, CallsInTodo, CounterNames
  <2> QED
    BY <2>1, <1>a, <1>b, <1>c, CountsType
    DEF Shifts, Is, AddReused, createdNumbers, closedNumbers
<1>4. CASE Moves(g, ReusedRest, <<>>) /\ Raises("hits", 1)
  <2>1. Shifts(ReusedRest, <<>>, "hits", 1)
    BY <1>4, <1>d, MoveShifts, CallsInTodo, CounterNames
  <2> QED
    BY <2>1, <1>a, <1>b, <1>c, CountsType
    DEF Shifts, Is, AddHits, createdNumbers, closedNumbers
<1>5. CASE Moves(g, Closed, ClosedRest) /\ Raises("closed", 1)
  <2>1. Shifts(Closed, ClosedRest, "closed", 1)
    BY <1>5, <1>d, MoveShifts, CallsInTodo, CounterNames
  <2> QED
    BY <2>1, <1>a, <1>b, <1>c, CountsType
    DEF Shifts, Is, AddClosed, poolNumbers, createdNumbers
<1>6. CASE Moves(g, ClosedRest, <<>>) /\ Raises("active", -1)
  <2>1. Shifts(ClosedRest, <<>>, "active", -1)
    BY <1>6, <1>d, MoveShifts, CallsInTodo, CounterNames
  <2> QED
    BY <2>1, <1>a, <1>b, <1>c, CountsType, NumbersType
    DEF Shifts, Is, AddGone, poolNumbers, createdNumbers
<1>7. CASE Moves(g, Miss, <<>>) /\ Raises("misses", 1)
  <2>1. Shifts(Miss, <<>>, "misses", 1)
    BY <1>7, <1>d, MoveShifts, CallsInTodo, CounterNames
  <2> QED
    BY <2>1, <1>a, <1>b, <1>c, CountsType
    DEF Shifts, Is, AddMiss, poolNumbers, createdNumbers, closedNumbers
<1> QED
  BY <1>1, <1>2, <1>3, <1>4, <1>5, <1>6, <1>7, AddMoves DEF StatsTypeInv

sNumbers == <<sCreated, sReused, sClosed, sHits, sActive>>

LEMMA CallNumbers ==
    ASSUME StatsTypeInv, NEW g \in Recorder, NEW c \in Record, Call(g, c)
    PROVE  /\ nBusy' = nBusy + 1 /\ nReused' <= nReused + 1
           /\ nCreated' + nClosedAny' <= nCreated + nClosedAny + 1
           /\ nClosed' + nCreatedAny' <= nClosed + nCreatedAny + 1
           /\ UNCHANGED <<nCreatedRest, nReusedRest, nClosedRest>>
           /\ nReused' \in Nat /\ nCreated' \in Nat /\ nClosedAny' \in Nat
           /\ nClosed' \in Nat /\ nCreatedAny' \in Nat
           /\ UNCHANGED sNumbers
<1>a. /\ c # <<>> /\ c # CreatedRest /\ c # ReusedRest /\ c # ClosedRest
  BY CallsDiffer, TailsOfCalls DEF Partial
<1>b. /\ Created # <<>> /\ Reused # <<>> /\ Closed # <<>>
      /\ CreatedRest # <<>> /\ ReusedRest # <<>> /\ ClosedRest # <<>>
      /\ Created # Closed
  BY CallsDiffer, TailsOfCalls DEF Partial
<1>1. TodoOK /\ <<>> \in Todo /\ c \in Todo /\ Moves(g, <<>>, c)
  BY DEF Call, Moves, StatsTypeInv, Todo
<1>2. /\ nBusy' = (nBusy - Is(<<>> # <<>>)) + Is(c # <<>>)
      /\ nCreated' = (nCreated - Is(<<>> = Created)) + Is(c = Created)
      /\ nCreatedRest' = (nCreatedRest - Is(<<>> = CreatedRest)) + Is(c = CreatedRest)
      /\ nCreatedAny' = (nCreatedAny - Is(<<>> \in {Created, CreatedRest}))
                            + Is(c \in {Created, CreatedRest})
      /\ nReused' = (nReused - Is(<<>> = Reused)) + Is(c = Reused)
      /\ nReusedRest' = (nReusedRest - Is(<<>> = ReusedRest)) + Is(c = ReusedRest)
      /\ nClosed' = (nClosed - Is(<<>> = Closed)) + Is(c = Closed)
      /\ nClosedRest' = (nClosedRest - Is(<<>> = ClosedRest)) + Is(c = ClosedRest)
      /\ nClosedAny' = (nClosedAny - Is(<<>> \in {Closed, ClosedRest}))
                           + Is(c \in {Closed, ClosedRest})
  BY <1>1, CountsMove
<1>3. UNCHANGED sNumbers
  BY DEF Call, sNumbers, sCreated, sReused, sClosed, sHits, sActive
<1>4. /\ nBusy' = nBusy + 1 /\ nReused' <= nReused + 1 /\ nReused' \in Nat
      /\ UNCHANGED <<nCreatedRest, nReusedRest, nClosedRest>>
  BY <1>2, <1>a, <1>b, CountsType DEF Is
<1>5. /\ nCreated' = nCreated + Is(c = Created) /\ nClosed' = nClosed + Is(c = Closed)
      /\ nCreatedAny' = nCreatedAny + Is(c = Created)
      /\ nClosedAny' = nClosedAny + Is(c = Closed)
  BY <1>2, <1>a, <1>b, CountsType DEF Is
<1>6. /\ nCreated' + nClosedAny' <= nCreated + nClosedAny + 1
      /\ nClosed' + nCreatedAny' <= nClosed + nCreatedAny + 1
      /\ nCreated' \in Nat /\ nClosedAny' \in Nat /\ nClosed' \in Nat /\ nCreatedAny' \in Nat
  BY <1>5, <1>b, CountsType DEF Is
<1> QED
  BY <1>3, <1>4, <1>6

-----------------------------------------------------------------------------
(* The invariant. *)

(* Every call that is under way during a Reset is among those it overlaps. *)
BusyInv == resetAt > 0 => nBusy <= torn

(* Once a counter is cleared, the calls that raise it before the Reset is  *)
(* over are among the overlapped.                                          *)
ReuseInv ==
    /\ resetAt \in {3, 4} => 0 <= sReused /\ sReused + nReused <= torn
    /\ resetAt \notin {3, 4} => /\ sReused <= sHits + nReusedRest + torn
                                /\ sHits + nReusedRest <= sReused + torn
OpenInv ==
    /\ resetAt \in 2 .. 6 => 0 <= sCreated /\ sCreated + nCreated + nClosedAny <= torn
    /\ resetAt \in 4 .. 6 => 0 <= sClosed /\ sClosed + nClosed + nCreatedAny <= torn
    /\ resetAt = 0 => /\ sCreated + nClosedRest <= sClosed + sActive + nCreatedRest + torn
                      /\ sClosed + sActive + nCreatedRest <= sCreated + nClosedRest + torn

(* With no Reset so far, hits never falls behind a Snapshot. *)
SnapshotInv == resets = 0 =>
    /\ resetAt = 0 /\ torn = 0
    /\ readAt \in {3, 4} => snapshot["reused"] <= sHits + Cardinality(Recorder)
    /\ readAt \in {0, 5, 6} => snapshot["reused"] - snapshot["hits"] <= Cardinality(Recorder)

SkewInv == BusyInv /\ ReuseInv /\ OpenInv /\ SnapshotInv

LEMMA SkewAdd ==
    ASSUME StatsTypeInv, StatsTypeInv', SkewInv, NEW g \in Recorder, Add(g)
    PROVE  SkewInv'
<1>a. /\ UNCHANGED <<resetAt, resets, readAt, snapshot, torn>>
      /\ resetAt \in 0 .. 6 /\ snapshot["reused"] \in Int
  BY CounterNames DEF Add, StatsTypeInv
<1>b. Cardinality(Recorder) \in Nat
  BY TransportStatsAssumption, FS_CardinalityType
<1>1. nBusy' \in {nBusy, nBusy - 1}
  BY AddNumbers, CountsType DEF AddReused, AddHits, AddCreated, AddOpened, AddClosed, AddGone, AddMiss
<1>2. BusyInv'
  BY <1>a, <1>1, CountsType, NumbersType DEF SkewInv, BusyInv
<1>3. ReuseInv'
  BY <1>a, AddNumbers, CountsType, NumbersType
  DEF SkewInv, ReuseInv, AddReused, AddHits, AddCreated, AddOpened, AddClosed, AddGone, AddMiss,
      poolNumbers
<1>4. OpenInv'
  <2> USE <1>a, CountsType, NumbersType DEF SkewInv, OpenInv, createdNumbers, closedNumbers
  <2>1. CASE AddReused \/ AddHits \/ AddMiss
    BY <2>1 DEF AddReused, AddHits, AddMiss
  <2>2. CASE AddCreated
    BY <2>2 DEF AddCreated
  <2>3. CASE AddOpened
    BY <2>3 DEF AddOpened
  <2>4. CASE AddClosed
    BY <2>4 DEF AddClosed
  <2>5. CASE AddGone
    BY <2>5 DEF AddGone
  <2> QED
    BY <2>1, <2>2, <2>3, <2>4, <2>5, AddNumbers
<1>5. SnapshotInv'
  <2>1. sHits <= sHits'
    BY AddNumbers, NumbersType
    DEF AddReused, AddHits, AddCreated, AddOpened, AddClosed, AddGone, AddMiss, poolNumbers
  <2>2. sHits \in Int /\ sHits' \in Int
    BY CounterNames DEF StatsTypeInv, sHits
  <2> QED
    BY <1>a, <1>b, <2>1, <2>2 DEF SkewInv, SnapshotInv
<1> QED
  BY <1>2, <1>3, <1>4, <1>5 DEF SkewInv

LEMMA SkewCall ==
    ASSUME StatsTypeInv, StatsTypeInv', SkewInv, NEW g \in Recorder, NEW c \in Record, Call(g, c)
    PROVE  SkewInv'
<1>a. /\ UNCHANGED <<resetAt, resets, readAt, snapshot>>
      /\ torn' = (IF resetAt = 0 THEN torn ELSE torn + 1)
      /\ resetAt \in 0 .. 6
  BY DEF Call, StatsTypeInv
<1>b. /\ nBusy' = nBusy + 1 /\ nReused' <= nReused + 1
      /\ nCreated' + nClosedAny' <= nCreated + nClosedAny + 1
      /\ nClosed' + nCreatedAny' <= nClosed + nCreatedAny + 1
      /\ nCreatedRest' = nCreatedRest /\ nReusedRest' = nReusedRest /\ nClosedRest' = nClosedRest
      /\ sCreated' = sCreated /\ sReused' = sReused /\ sClosed' = sClosed
      /\ sHits' = sHits /\ sActive' = sActive
  BY CallNumbers DEF sNumbers
<1>c. /\ nReused' \in Nat /\ nCreated' \in Nat /\ nClosedAny' \in Nat
      /\ nClosed' \in Nat /\ nCreatedAny' \in Nat
  BY CallNumbers
<1>d. \A s, a, b, x, y, k \in Int :
          s + a + b <= k /\ x + y <= a + b + 1 => s + x + y <= k + 1
  OBVIOUS
<1>e. /\ sCreated \in Int /\ sClosed \in Int /\ torn \in Int
      /\ nCreated \in Int /\ nClosedAny \in Int /\ nClosed \in Int /\ nCreatedAny \in Int
      /\ nCreated' \in Int /\ nClosedAny' \in Int /\ nClosed' \in Int /\ nCreatedAny' \in Int
  BY <1>c, CountsType, NumbersType
<1> USE <1>a, <1>b, <1>c, CountsType, NumbersType DEF SkewInv
<1>1. BusyInv'
  BY DEF BusyInv
<1>2. ReuseInv'
  BY DEF ReuseInv
<1>3. OpenInv'
  <2>1. CASE resetAt = 0
    BY <2>1 DEF OpenInv
  <2>2. CASE resetAt # 0
    <3>1. torn' = torn + 1 /\ resetAt' = resetAt
      BY <2>2
    <3>2. ASSUME resetAt \in 2 .. 6
          PROVE  0 <= sCreated' /\ sCreated' + nCreated' + nClosedAny' <= torn'
      <4>1. sCreated + nCreated + nClosedAny <= torn /\ 0 <= sCreated
        BY <3>2 DEF OpenInv
      <4> QED
        BY ONLY <3>1, <4>1, <1>b, <1>d, <1>e
    <3>3. ASSUME resetAt \in 4 .. 6
          PROVE  0 <= sClosed' /\ sClosed' + nClosed' + nCreatedAny' <= torn'
      <4>1. sClosed + nClosed + nCreatedAny <= torn /\ 0 <= sClosed
        BY <3>3 DEF OpenInv
      <4> QED
        BY ONLY <3>1, <4>1, <1>b, <1>d, <1>e
    <3> QED
      BY <2>2, <3>1, <3>2, <3>3 DEF OpenInv
  <2> QED
    BY <2>1, <2>2
<1>4. SnapshotInv'
  BY DEF SnapshotInv
<1> QED
  BY <1>1, <1>2, <1>3, <1>4

(* The counts of recorders stay when no recorder moves. *)
Stay == UNCHANGED <<nBusy, nCreated, nCreatedRest, nCreatedAny, nReused, nReusedRest,
                    nClosed, nClosedRest, nClosedAny>>

LEMMA NobodyMoves == UNCHANGED todo => Stay
BY DEF Stay, nBusy, nCreated, nCreatedRest, nCreatedAny, nReused, nReusedRest, nClosed,
   nClosedRest, nClosedAny, Num, In

LEMMA SkewBeginReset == StatsTypeInv /\ SkewInv /\ BeginReset => SkewInv'
<1> SUFFICES ASSUME StatsTypeInv, SkewInv, BeginReset PROVE SkewInv'
  OBVIOUS
<1>1. /\ resetAt = 0 /\ resetAt' = 1 /\ resets' = resets + 1 /\ resets \in Nat
      /\ torn' = torn + nBusy
  BY BusyCounts DEF BeginReset, StatsTypeInv
<1>2. UNCHANGED <<sCreated, sReused, sClosed, sHits, sActive>> /\ Stay
  BY NobodyMoves DEF BeginReset, sCreated, sReused, sClosed, sHits, sActive
<1>3. BusyInv' /\ ReuseInv'
  BY <1>1, <1>2, CountsType, NumbersType DEF SkewInv, BusyInv, ReuseInv, Stay
<1>4. OpenInv' /\ SnapshotInv'
  BY <1>1 DEF OpenInv, SnapshotInv
<1> QED
  BY <1>3, <1>4 DEF SkewInv

LEMMA SkewReset == StatsTypeInv /\ SkewInv /\ Reset => SkewInv'
<1> SUFFICES ASSUME StatsTypeInv, SkewInv, Reset PROVE SkewInv'
  OBVIOUS
<1>1. /\ resetAt \in {1, 2, 3, 4, 5, 6} /\ resetAt' = (IF resetAt = 6 THEN 0 ELSE resetAt + 1)
      /\ UNCHANGED <<torn, resets>> /\ Stay
  BY NobodyMoves DEF Reset, After, StatsTypeInv
<1>2. /\ sCreated' = IF resetAt = 1 THEN 0 ELSE sCreated
      /\ sReused' = IF resetAt = 2 THEN 0 ELSE sReused
      /\ sClosed' = IF resetAt = 3 THEN 0 ELSE sClosed
      /\ sHits' = IF resetAt = 4 THEN 0 ELSE sHits
      /\ sActive' = IF resetAt = 6 THEN 0 ELSE sActive
  BY <1>1, CounterNames DEF Reset, StatsTypeInv, sCreated, sReused, sClosed, sHits, sActive
<1>3. nBusy <= torn
  BY <1>1 DEF SkewInv, BusyInv
<1> USE <1>1, <1>2, <1>3, CountsType, NumbersType, CountsNested DEF Stay
<1>4. BusyInv'
  BY DEF BusyInv
<1>5. ReuseInv'
  <2>1. CASE resetAt \in {1, 5, 6}
    BY <2>1 DEF SkewInv, ReuseInv
  <2>2. CASE resetAt = 2
    BY <2>2 DEF ReuseInv
  <2>3. CASE resetAt = 3
    BY <2>3 DEF SkewInv, ReuseInv
  <2>4. CASE resetAt = 4
    BY <2>4 DEF SkewInv, ReuseInv
  <2> QED
    BY <2>1, <2>2, <2>3, <2>4
<1>6. OpenInv'
  <2>1. CASE resetAt = 1
    BY <2>1 DEF OpenInv
  <2>2. CASE resetAt = 2
    BY <2>2 DEF SkewInv, OpenInv
  <2>3. CASE resetAt = 3
    BY <2>3 DEF SkewInv, OpenInv
  <2>4. CASE resetAt \in {4, 5}
    BY <2>4 DEF SkewInv, OpenInv
  <2>5. CASE resetAt = 6
    BY <2>5 DEF SkewInv, OpenInv
  <2> QED
    BY <2>1, <2>2, <2>3, <2>4, <2>5
<1>7. SnapshotInv'
  BY DEF SkewInv, SnapshotInv
<1> QED
  BY <1>4, <1>5, <1>6, <1>7 DEF SkewInv

LEMMA SkewSnapshot ==
    StatsTypeInv /\ SkewInv /\ (BeginSnapshot \/ Snapshot \/ UNCHANGED statsVars) => SkewInv'
<1> SUFFICES ASSUME StatsTypeInv, SkewInv, BeginSnapshot \/ Snapshot \/ UNCHANGED statsVars
             PROVE  SkewInv'
  OBVIOUS
<1>1. UNCHANGED <<sCreated, sReused, sClosed, sHits, sActive, resetAt, resets, torn>> /\ Stay
  BY NobodyMoves DEF BeginSnapshot, Snapshot, statsVars, sCreated, sReused, sClosed, sHits, sActive
<1>2. BusyInv' /\ ReuseInv' /\ OpenInv'
  BY <1>1 DEF SkewInv, BusyInv, ReuseInv, OpenInv, Stay
<1>3. SnapshotInv'
  <2>a. Cardinality(Recorder) \in Nat
    BY TransportStatsAssumption, FS_CardinalityType
  <2> USE <1>1, <2>a, NumbersType
  <2>1. CASE BeginSnapshot
    BY <2>1 DEF BeginSnapshot, SkewInv, SnapshotInv
  <2>2. CASE UNCHANGED statsVars
    BY <2>2 DEF statsVars, SkewInv, SnapshotInv
  <2>3. CASE Snapshot
    <3>1. /\ readAt \in {1, 2, 3, 4, 5, 6}
          /\ readAt' = (IF readAt = 6 THEN 0 ELSE readAt + 1)
      BY <2>3 DEF Snapshot, After, StatsTypeInv
    <3>2. /\ snapshot'["reused"] = IF readAt = 2 THEN sReused ELSE snapshot["reused"]
          /\ snapshot'["hits"] = IF readAt = 4 THEN sHits ELSE snapshot["hits"]
          /\ snapshot["reused"] \in Int /\ snapshot["hits"] \in Int
      BY <2>3, <3>1, CounterNames DEF Snapshot, StatsTypeInv, sReused, sHits
    <3>3. resets = 0 => sReused <= sHits + Cardinality(Recorder)
      <4>1. nReusedRest <= Cardinality(Recorder)
        BY CountsNested, CountsType
      <4> QED
        BY <4>1, CountsType DEF SkewInv, SnapshotInv, ReuseInv
    <3> QED
      BY <3>1, <3>2, <3>3 DEF SkewInv, SnapshotInv
  <2> QED
    BY <2>1, <2>2, <2>3
<1> QED
  BY <1>2, <1>3 DEF SkewInv

LEMMA SkewInit == StatsInit => SkewInv
<1> SUFFICES ASSUME StatsInit PROVE SkewInv
  OBVIOUS
<1>1. /\ sCreated = 0 /\ sReused = 0 /\ sClosed = 0 /\ sHits = 0 /\ sActive = 0
      /\ snapshot["reused"] = 0 /\ snapshot["hits"] = 0
  BY CounterNames DEF StatsInit, Zero, sCreated, sReused, sClosed, sHits, sActive
<1>2. nBusy = 0
  <2>1. Busy = {} /\ TodoOK
    BY DEF StatsInit, Busy, TodoOK, Todo
  <2> QED
    BY <2>1, BusyCounts, FS_EmptySet
<1>3. nReusedRest = 0 /\ nCreatedRest = 0 /\ nClosedRest = 0
  BY <1>2, CountsNested, CountsType
<1>4. Cardinality(Recorder) \in Nat
  BY TransportStatsAssumption, FS_CardinalityType
<1> QED
  BY <1>1, <1>3, <1>4 DEF StatsInit, SkewInv, BusyInv, ReuseInv, OpenInv, SnapshotInv

(* Outside of Reset the counters that are raised in pairs differ by no     *)
(* more than the calls under way and those a Reset overlapped, and with no *)
(* Reset a Snapshot shows at most one reuse per recorder without its hit   *)
(* (pool.go, the Record functions, Reset and Snapshot).                    *)
THEOREM SkewIsBounded == StatsSpec => []SkewBounded
<1>1. StatsTypeInv /\ StatsTypeInv' /\ SkewInv /\ [StatsNext]_statsVars => SkewInv'
  BY SkewAdd, SkewCall, SkewBeginReset, SkewReset, SkewSnapshot DEF StatsNext
<1>2. StatsTypeInv /\ SkewInv => SkewBounded
  <2> SUFFICES ASSUME StatsTypeInv, SkewInv, resetAt = 0 PROVE SkewBounded
    BY DEF SkewBounded
  <2>1. Cardinality(Busy) = nBusy
    BY BusyCounts DEF StatsTypeInv
  <2>2. Distance(sReused, sHits) <= nBusy + torn
    BY CountsNested, CountsType, NumbersType DEF SkewInv, ReuseInv, Distance
  <2>3. Distance(sCreated - sClosed, sActive) <= nBusy + torn
    BY CountsNested, CountsType, NumbersType DEF SkewInv, OpenInv, Distance
  <2>4. readAt = 0 /\ resets = 0 => snapshot["reused"] - snapshot["hits"] <= Cardinality(Recorder)
    BY DEF SkewInv, SnapshotInv
  <2> QED
    BY <2>1, <2>2, <2>3, <2>4 DEF SkewBounded, sCreated, sReused, sClosed, sHits, sActive
<1> QED
  BY <1>1, <1>2, StatsTypeInit, StatsTypeStep, SkewInit, PTL DEF StatsSpec

-----------------------------------------------------------------------------
(* Both together: the types. *)

(* Counted requests, the room of the pool and the created connections stay *)
(* in their ranges.                                                        *)
TraceRangeInv ==
    /\ idle \in Nat /\ (shared \/ idle <= IdleLimit)
    /\ misses = Cardinality({r \in Request : pc[r] = "miss"})
    /\ created \in Int /\ returns \in Nat
    /\ own \subseteq Request /\ orphans \subseteq Dial

LEMMA TraceRangeInit == TraceInit => TraceRangeInv
<1> SUFFICES ASSUME TraceInit PROVE TraceRangeInv
  OBVIOUS
<1>1. {r \in Request : pc[r] = "miss"} = {}
  BY DEF TraceInit
<1> QED
  BY <1>1, ConstantsType, FS_EmptySet DEF TraceInit, TraceRangeInv

(* Nobody becomes a miss or stops being one but by Count. *)
LEMMA MissesKept ==
    ASSUME TraceRangeInv, UNCHANGED misses,
           \A r \in Request : pc'[r] = "miss" <=> pc[r] = "miss"
    PROVE  misses' = Cardinality({r \in Request : pc'[r] = "miss"})
<1>1. {r \in Request : pc'[r] = "miss"} = {r \in Request : pc[r] = "miss"}
  OBVIOUS
<1> QED
  BY <1>1 DEF TraceRangeInv

LEMMA TraceRangeStep == DialInv /\ OwnInv /\ TraceRangeInv /\ [TraceNext]_vars => TraceRangeInv'
<1> SUFFICES ASSUME DialInv, OwnInv, TraceRangeInv, [TraceNext]_vars PROVE TraceRangeInv'
  OBVIOUS
<1> USE ConstantsType DEF requestVars, dialVars, counterVars
<1>1. ASSUME NEW r \in Request, Begin(r) \/ Retry(r) PROVE TraceRangeInv'
  <2>1. /\ GetConn(r) /\ pc[r] \in {"new", "ride"}
        /\ UNCHANGED <<shared, misses, created, returns, orphans>>
        /\ own' \subseteq own
    BY <1>1 DEF Begin, Retry
  <2>2. \A q \in Request : pc'[q] = "miss" <=> pc[q] = "miss"
    BY <2>1 DEF GetConn, DialInv
  <2>3. idle' \in Nat /\ (shared' \/ idle' <= IdleLimit)
    BY <2>1 DEF GetConn, TraceRangeInv
  <2> QED
    BY <2>1, <2>2, <2>3, MissesKept DEF TraceRangeInv
<1>2. ASSUME NEW r \in Request, Fail(r) \/ BreakOff(r) PROVE TraceRangeInv'
  <2>1. /\ UNCHANGED <<shared, idle, own, misses, created, returns, orphans>>
        /\ \A q \in Request : pc'[q] = "miss" <=> pc[q] = "miss"
    BY <1>2 DEF Fail, BreakOff, DialInv
  <2> QED
    BY <2>1, MissesKept DEF TraceRangeInv
<1>3. \A p : HandOver(p) /\ ~ shared => idle' \in Nat /\ idle' <= IdleLimit
  BY DEF HandOver, Kept, TraceRangeInv
<1>4. ASSUME NEW r \in Request, Drain(r) PROVE TraceRangeInv'
  <2>1. /\ UNCHANGED <<shared, own, misses, created, orphans>> /\ returns' \in Nat
        /\ (~ shared /\ HandOver([pc EXCEPT ![r] = "count"])) \/ (shared /\ idle' = idle)
    BY <1>4 DEF Drain, TraceRangeInv
  <2>2. \A q \in Request : pc'[q] = "miss" <=> pc[q] = "miss"
    BY <1>4, DrainMoves DEF Advanced
  <2> QED
    BY <1>3, <2>1, <2>2, MissesKept DEF TraceRangeInv
<1>5. ASSUME NEW r \in Request, Count(r) PROVE TraceRangeInv'
  <2>1. UNCHANGED <<shared, idle, own, created, returns, orphans>> /\ pc[r] = "count"
    BY <1>5 DEF Count
  <2>2. CASE newConn[r]
    <3>1. /\ {q \in Request : pc'[q] = "miss"} = {q \in Request : pc[q] = "miss"} \cup {r}
          /\ r \notin {q \in Request : pc[q] = "miss"} /\ misses' = misses + 1
      BY <1>5, <2>2 DEF Count, DialInv
    <3>2. Cardinality({q \in Request : pc'[q] = "miss"}) = misses + 1
      BY <3>1, SomeRequestsFinite, FS_AddElement DEF TraceRangeInv
    <3> QED
      BY <2>1, <3>1, <3>2 DEF TraceRangeInv
  <2>3. CASE ~ newConn[r]
    <3>1. misses' = misses /\ \A q \in Request : pc'[q] = "miss" <=> pc[q] = "miss"
      BY <1>5, <2>3 DEF Count, DialInv
    <3> QED
      BY <2>1, <3>1, MissesKept DEF TraceRangeInv
  <2> QED
    BY <2>2, <2>3
<1>6. ASSUME NEW d \in Dial, ConnectStart(d) \/ ConnectFails(d) \/ ConnectSucceeds(d)
      PROVE  TraceRangeInv'
  <2>1. UNCHANGED <<shared, pc, idle, own, misses, returns, orphans>> /\ created' \in Int
    BY <1>6 DEF ConnectStart, Attempt, ConnectFails, ConnectSucceeds, TraceRangeInv
  <2> QED
    BY <2>1, MissesKept DEF TraceRangeInv
<1>7. ASSUME NEW d \in Dial, DialEnds(d) PROVE TraceRangeInv'
  <2>1. \/ idle' = idle
        \/ ~ shared /\ HandOver(pc)
        \/ shared /\ idle' = idle + 1
    BY <1>7 DEF DialEnds, Share
  <2>2. \A q \in Request : pc'[q] = "miss" <=> pc[q] = "miss"
    BY <1>7, DialEndsMoves DEF Advanced
  <2>3. /\ own' \subseteq Request /\ orphans' \subseteq Dial
        /\ UNCHANGED <<shared, misses, created, returns>>
    BY <1>7 DEF DialEnds, Wanted, Waiting, TraceRangeInv
  <2> QED
    BY <1>3, <2>1, <2>2, <2>3, MissesKept DEF TraceRangeInv
<1>8. ASSUME NEW d \in Dial, DialFails(d) PROVE TraceRangeInv'
  <2>1. /\ UNCHANGED <<shared, idle, own, misses, created, returns, orphans>>
        /\ \A q \in Request : pc'[q] = "miss" <=> pc[q] = "miss"
    BY <1>8 DEF DialFails, Waiting
  <2> QED
    BY <2>1, MissesKept DEF TraceRangeInv
<1>9. CASE DropIdle \/ Rest \/ UNCHANGED vars
  <2>1. /\ UNCHANGED <<shared, pc, own, misses, created, returns, orphans>>
        /\ idle' = idle \/ (idle > 0 /\ idle' = idle - 1)
    BY <1>9 DEF DropIdle, Rest, vars
  <2>2. idle' \in Nat /\ (shared' \/ idle' <= IdleLimit)
    BY <2>1 DEF TraceRangeInv
  <2> QED
    BY <2>1, <2>2, MissesKept DEF TraceRangeInv
<1> QED
  BY <1>1, <1>2, <1>4, <1>5, <1>6, <1>7, <1>8, <1>9 DEF TraceNext, RoundTrip, Callback

LEMMA TraceTypes ==
    DialInv /\ CreatedAddsUp /\ HitInv /\ SupplyInv /\ TraceRangeInv => TraceTypeOK
<1> SUFFICES ASSUME DialInv, CreatedAddsUp, HitInv, SupplyInv, TraceRangeInv PROVE TraceTypeOK
  OBVIOUS
<1>1. \A S \in SUBSET Request : Cardinality(S) \in 0 .. NumRequests
  <2>1. IsFiniteSet(Request) /\ Cardinality(Request) = NumRequests
    BY ConstantsType, FS_Interval DEF Request
  <2> QED
    BY <2>1, ConstantsType, FS_Subset, FS_CardinalityType
<1>2. hits \in 0 .. NumRequests /\ misses \in 0 .. NumRequests
  BY <1>1 DEF HitInv, HitSet, TraceRangeInv
<1>3. created \in Nat
  <2>1. Cardinality(Established) \in Nat
    BY SomeDialsFinite DEF Established
  <2>2. InFlight \in Nat
    BY AttemptsFinite, FS_CardinalityType DEF InFlight, Attempts
  <2>3. Cardinality(losers) \in Nat
    BY SomeDialsFinite DEF CreatedAddsUp, Established
  <2> QED
    BY <2>1, <2>2, <2>3 DEF CreatedAddsUp
<1>4. \A d \in Dial : tried[d] \in 0 .. 1 + MaxAgain /\ inflight[d] \in 0 .. 1 + MaxAgain
  BY ConstantsType DEF DialInv
<1>5. losers \subseteq Dial
  BY DEF CreatedAddsUp, Established
<1> QED
  BY <1>2, <1>3, <1>4, <1>5 DEF DialInv, TraceRangeInv, TraceTypeOK

(* The bounds of the calls, which the inductive invariant leaves out. *)
CallsInv == calls \in 0 .. MaxCalls /\ resets \in 0 .. MaxResets

LEMMA CallsStep == CallsInv /\ [StatsNext]_statsVars => CallsInv'
BY TransportStatsAssumption
   DEF CallsInv, StatsNext, Add, Call, BeginReset, Reset, BeginSnapshot, Snapshot, statsVars

LEMMA StatsTypes == StatsTypeInv /\ CallsInv => StatsTypeOK
<1> SUFFICES ASSUME StatsTypeInv, CallsInv PROVE StatsTypeOK
  OBVIOUS
<1>1. Partial \subseteq {Tail(c) : c \in Record}
  BY TailsOfCalls DEF Partial
<1> QED
  BY <1>1 DEF StatsTypeInv, TodoOK, Todo, CallsInv, StatsTypeOK

(* A behaviour of the two is a behaviour of each. *)
LEMMA Parts == Spec => TraceSpec /\ StatsSpec
<1>1. Init => TraceInit /\ StatsInit
  BY DEF Init
<1>2. [Next]_<<vars, statsVars, moving>> => [TraceNext]_vars /\ [StatsNext]_statsVars
  BY DEF Next
<1> QED
  BY <1>1, <1>2, PTL DEF Spec, TraceSpec, StatsSpec

(* The statistics hold what their fields can hold: a pool of HTTP/1 no     *)
(* more idle connections than sizeConnectionPool made room for, the        *)
(* counters of the run no more hits and misses than requests, and          *)
(* ConnectionsCreated, which attempts raise and failures lower, is never   *)
(* negative (execute.go, pool.go).                                         *)
THEOREM TransportTypes == Spec => []TypeOK
<1>1. TraceInit => DialInv /\ OwnInv /\ HitInv /\ SupplyInv /\ TraceRangeInv
  BY DialInit, OwnInit, HitInit, TraceRangeInit
<1>2. DialInv /\ OwnInv /\ HitInv /\ SupplyInv /\ TraceRangeInv /\ [TraceNext]_vars
          => (DialInv /\ OwnInv /\ HitInv /\ SupplyInv /\ TraceRangeInv)'
  BY DialStep, OwnStep, HitStep, SupplyStep, TraceRangeStep
<1>3. TraceSpec => []TraceTypeOK
  BY <1>1, <1>2, CreatedCounts, TraceTypes, PTL DEF TraceSpec
<1>4. StatsInit => CallsInv
  BY TransportStatsAssumption DEF StatsInit, CallsInv
<1>5. StatsSpec => []StatsTypeOK
  BY <1>4, StatsTypeInit, StatsTypeStep, CallsStep, StatsTypes, PTL DEF StatsSpec
<1> QED
  BY <1>3, <1>5, Parts, PTL DEF TypeOK
=============================================================================
