------------------------------ MODULE Registry ------------------------------
(***************************************************************************)
(* The agent registry (internal/dist/registry.go, agent.go): each agent    *)
(* holds a key in Redis that expires unless its heartbeats renew it, and a *)
(* coordinator waits for a number of agents before it starts.  Time passes *)
(* in half seconds: the pace of the coordinator's looks at the registry.   *)
(***************************************************************************)
EXTENDS Integers, FiniteSets

CONSTANTS
    Agent,          \* agent processes
    Name,           \* the names --name can give them
    TTL,            \* HeartbeatTTL in half seconds
    Beat,           \* the heartbeat's ticker, in half seconds
    Wait,           \* AgentsWait in half seconds
    WaitFor,        \* --agents
    MaxMissed,      \* BOUND: heartbeats in a row that do not reach Redis
    MaxTime         \* BOUND: the clock stops here

ASSUME RegistryAssumption ==
    /\ {TTL, Beat, Wait, WaitFor} \subseteq Nat \ {0}
    /\ {MaxTime, MaxMissed} \subseteq Nat
    /\ IsFiniteSet(Agent)

(* An entry outlives the heartbeats that may be lost in a row, and a late  *)
(* one (HeartbeatTTL is a multiple of the ticker's period).                *)
ASSUME BeatAssumption == (MaxMissed + 1) * Beat + 1 < TTL

VARIABLES
    now,
    name,           \* name[a]: the id the agent registers under
    ttl,            \* ttl[n]: what is left of the life of n's key; 0: no key
    apc,            \* apc[a]: "off", "up", "cleanup", "gone", "dead"
    nextBeat,       \* nextBeat[a]: when the heartbeat ticker fires
    missed,         \* missed[a]: heartbeats lost since the last one that arrived
    cancelled,      \* agents whose context is cancelled
    died,           \* died[a]: history: when a crashed; NotDead
    cpc,            \* coordinator: "look", "scan", "sleep", "started", "gaveUp", "failed"
    wakeAt,         \* when it looks again
    seen,           \* keys SCAN has returned, still to GET
    found           \* names GET has returned

NotDead == -1
vars == <<now, name, ttl, apc, nextBeat, missed, cancelled, died, cpc, wakeAt, seen, found>>
agentVars == <<name, apc, nextBeat, missed, cancelled, died>>
coordinatorVars == <<cpc, wakeAt, seen, found>>

(* Types. *)
TypeOK ==
    /\ now \in 0 .. MaxTime
    /\ name \in [Agent -> Name]
    /\ ttl \in [Name -> 0 .. TTL]
    /\ apc \in [Agent -> {"off", "up", "cleanup", "gone", "dead"}]
    /\ nextBeat \in [Agent -> Nat]
    /\ missed \in [Agent -> 0 .. MaxMissed]
    /\ cancelled \subseteq Agent
    /\ died \in [Agent -> {NotDead} \cup 0 .. MaxTime]
    /\ cpc \in {"look", "scan", "sleep", "started", "gaveUp", "failed"}
    /\ wakeAt \in Nat
    /\ seen \subseteq Name /\ found \subseteq Name

(* Without --name the names are distinct; nothing keeps two agents from    *)
(* being given the same one.                                               *)
Init ==
    /\ now = 0
    /\ name \in [Agent -> Name]
    /\ ttl = [n \in Name |-> 0]
    /\ apc = [a \in Agent |-> "off"]
    /\ nextBeat = [a \in Agent |-> 0]
    /\ missed = [a \in Agent |-> 0]
    /\ cancelled = {}
    /\ died = [a \in Agent |-> NotDead]
    /\ cpc = "look" /\ wakeAt = 0 /\ seen = {} /\ found = {}

-----------------------------------------------------------------------------
(* Faults of a programmer; nothing below uses them. *)

\* The heartbeat ticker runs at the pace of the TTL.
RegisterAgentSlow(a) ==
    /\ apc[a] = "off"
    /\ apc' = [apc EXCEPT ![a] = "up"]
    /\ ttl' = [ttl EXCEPT ![name[a]] = TTL]
    /\ nextBeat' = [nextBeat EXCEPT ![a] = now + TTL]
    /\ UNCHANGED <<now, name, missed, cancelled, died, coordinatorVars>>

\* The heartbeat grants the time to the next one on top of the TTL.
HeartbeatAdds(a) ==
    /\ apc[a] = "up" /\ a \notin cancelled /\ now >= nextBeat[a]
    /\ nextBeat' = [nextBeat EXCEPT ![a] = @ + Beat]
    /\ missed' = [missed EXCEPT ![a] = 0]
    /\ ttl' = [ttl EXCEPT ![name[a]] = IF @ > 0 THEN TTL + Beat ELSE 0]
    /\ UNCHANGED <<now, name, apc, cancelled, died, coordinatorVars>>

\* One agent too few is enough.
JudgeEarly ==
    /\ cpc = "scan" /\ seen = {}
    /\ \/ Cardinality(found) + 1 >= WaitFor /\ cpc' = "started" /\ wakeAt' = 0
       \/ /\ Cardinality(found) + 1 < WaitFor
          /\ cpc' = IF now > Wait THEN "gaveUp" ELSE "sleep"
          /\ wakeAt' = now + 1
    /\ found' = {} /\ seen' = {}
    /\ UNCHANGED <<now, ttl, agentVars>>

\* A loop that looks at the deadline only before the first look.
JudgeForever ==
    /\ cpc = "scan" /\ seen = {}
    /\ cpc' = IF Cardinality(found) >= WaitFor THEN "started" ELSE "sleep"
    /\ wakeAt' = now + 1
    /\ UNCHANGED <<now, ttl, agentVars, seen, found>>

-----------------------------------------------------------------------------
(* An agent. *)

RegisterAgent(a) ==
    /\ apc[a] = "off"
    /\ apc' = [apc EXCEPT ![a] = "up"]
    /\ ttl' = [ttl EXCEPT ![name[a]] = TTL]
    /\ nextBeat' = [nextBeat EXCEPT ![a] = now + Beat]
    /\ UNCHANGED <<now, name, missed, cancelled, died, coordinatorVars>>

(* EXPIRE renews a key that exists; an expired one it does not bring back. *)
Heartbeat(a) ==
    /\ apc[a] = "up" /\ a \notin cancelled /\ now >= nextBeat[a]
    /\ nextBeat' = [nextBeat EXCEPT ![a] = @ + Beat]
    /\ missed' = [missed EXCEPT ![a] = 0]
    /\ ttl' = [ttl EXCEPT ![name[a]] = IF @ > 0 THEN TTL ELSE 0]
    /\ UNCHANGED <<now, name, apc, cancelled, died, coordinatorVars>>

(* The call fails; the error is ignored. *)
MissHeartbeat(a) ==
    /\ apc[a] = "up" /\ a \notin cancelled /\ now >= nextBeat[a]
    /\ missed[a] < MaxMissed
    /\ nextBeat' = [nextBeat EXCEPT ![a] = @ + Beat]
    /\ missed' = [missed EXCEPT ![a] = @ + 1]
    /\ UNCHANGED <<now, name, ttl, apc, cancelled, died, coordinatorVars>>

(* Ctrl-C: the context of every call the agent makes is cancelled. *)
Interrupt(a) ==
    /\ apc[a] \in {"up", "cleanup"} /\ a \notin cancelled
    /\ cancelled' = cancelled \cup {a}
    /\ UNCHANGED <<now, name, ttl, apc, nextBeat, missed, died, coordinatorVars>>

(* The workers have left, idle or interrupted; the heartbeat is stopped.   *)
EndWork(a) ==
    /\ apc[a] = "up"
    /\ apc' = [apc EXCEPT ![a] = "cleanup"]
    /\ UNCHANGED <<now, name, ttl, nextBeat, missed, cancelled, died, coordinatorVars>>

(* The deferred DEL uses the agent's context: cancelled, it does nothing.  *)
UnregisterAgent(a) ==
    /\ apc[a] = "cleanup"
    /\ apc' = [apc EXCEPT ![a] = "gone"]
    /\ ttl' = IF a \in cancelled THEN ttl ELSE [ttl EXCEPT ![name[a]] = 0]
    /\ UNCHANGED <<now, name, nextBeat, missed, cancelled, died, coordinatorVars>>

Crash(a) ==
    /\ apc[a] \in {"up", "cleanup"}
    /\ apc' = [apc EXCEPT ![a] = "dead"]
    /\ died' = [died EXCEPT ![a] = now]
    /\ UNCHANGED <<now, name, ttl, nextBeat, missed, cancelled, coordinatorVars>>

-----------------------------------------------------------------------------
(* The coordinator: Agents() is a SCAN and a GET for every key it returns. *)

Scan ==
    /\ cpc = "look"
    /\ cpc' = "scan"
    /\ seen' = {n \in Name : ttl[n] > 0}
    /\ found' = {}
    /\ wakeAt' = now + 1
    /\ UNCHANGED <<now, ttl, agentVars>>

Get(n) ==
    /\ cpc = "scan" /\ n \in seen
    /\ seen' = seen \ {n}
    /\ found' = IF ttl[n] > 0 THEN found \cup {n} ELSE found
    /\ UNCHANGED <<now, ttl, agentVars, cpc, wakeAt>>

Judge ==
    /\ cpc = "scan" /\ seen = {}
    /\ \/ Cardinality(found) >= WaitFor /\ cpc' = "started" /\ wakeAt' = 0
       \/ /\ Cardinality(found) < WaitFor
          /\ cpc' = IF now > Wait THEN "gaveUp" ELSE "sleep"
          /\ wakeAt' = now + 1
    /\ found' = {} /\ seen' = {}
    /\ UNCHANGED <<now, ttl, agentVars>>

LookAgain ==
    /\ cpc = "sleep" /\ now >= wakeAt
    /\ cpc' = "look"
    /\ UNCHANGED <<now, ttl, agentVars, wakeAt, seen, found>>

(* SCAN or GET fails, or run-dist is interrupted: it returns the error. *)
AbandonWait ==
    /\ cpc \in {"look", "scan", "sleep"}
    /\ cpc' = "failed"
    /\ seen' = {} /\ found' = {} /\ wakeAt' = 0
    /\ UNCHANGED <<now, ttl, agentVars>>

Coordinator == Scan \/ (\E n \in Name : Get(n)) \/ Judge \/ LookAgain \/ AbandonWait

(* Half a second passes.  Each agent tries the heartbeat that is due, the  *)
(* coordinator looks when it wants to, and a look does not take longer;    *)
(* but entries may expire while it is under way.                           *)
Tick ==
    /\ now < MaxTime
    /\ \A a \in Agent : apc[a] = "up" /\ a \notin cancelled => now <= nextBeat[a]
    /\ cpc # "look" /\ (cpc \in {"scan", "sleep"} => now < wakeAt)
    /\ now' = now + 1
    /\ ttl' = [n \in Name |-> IF ttl[n] > 0 THEN ttl[n] - 1 ELSE 0]
    /\ UNCHANGED <<agentVars, coordinatorVars>>

Rest == now = MaxTime /\ UNCHANGED vars

Next ==
    \/ \E a \in Agent : \/ RegisterAgent(a) \/ Heartbeat(a) \/ MissHeartbeat(a)
                        \/ Interrupt(a) \/ EndWork(a) \/ UnregisterAgent(a) \/ Crash(a)
    \/ Coordinator \/ Tick \/ Rest

Spec == Init /\ [][Next]_vars

-----------------------------------------------------------------------------
(* Properties. *)

(* "An expired entry means a dead agent" (registry.go:15), both ways: an   *)
(* agent at work has its entry although a few heartbeats in a row are lost *)
(* ("a missed heartbeat only shortens the registry entry's life", agent.go:*)
(* 35-36), and a dead one loses it within the TTL.  Agents that share a    *)
(* name share the entry: the first to leave takes it from the others, whose*)
(* heartbeats do not bring it back, and each keeps it for a dead one.      *)
Namesakes(a) == {b \in Agent \ {a} : name[b] = name[a] /\ apc[b] # "off"}
LongDead(a) == apc[a] = "dead" /\ now >= died[a] + TTL
EntryMeansAlive ==
    \A a \in Agent :
        /\ apc[a] = "up" /\ a \notin cancelled =>
              ttl[name[a]] > 0 \/ \E b \in Namesakes(a) : apc[b] = "gone"
        /\ LongDead(a) /\ (\A b \in Namesakes(a) : LongDead(b)) => ttl[name[a]] = 0

(* A coordinator starts with WaitFor agents, and one that had been dead    *)
(* for a TTL when the look began is not among them, although it looks at   *)
(* the keys one by one while they expire and come.                         *)
Living == {a \in Agent : /\ apc[a] # "off"
                         /\ died[a] = NotDead \/ now <= died[a] + TTL}
StartsWithAgents ==
    [][(cpc # "started" /\ cpc' = "started") => Cardinality(Living) >= WaitFor]_vars

(* "up to AgentsWait so run-dist can't hang forever" (registry.go:78-79):  *)
(* the wait is over one pause and one look after AgentsWait.               *)
WaitIsBounded == cpc \in {"look", "scan", "sleep"} => now <= Wait + 2

-----------------------------------------------------------------------------
(* A statement of the documentation that the code does not keep. *)

(* "UnregisterAgent removes the agent entry on clean shutdown" (registry.go*)
(* 48): an agent that has ended by itself has no entry, unless there is    *)
(* another of its name.                                                    *)
CleanShutdownUnregisters ==
    \A a \in Agent : apc[a] = "gone" /\ Namesakes(a) = {} => ttl[name[a]] = 0
=============================================================================
