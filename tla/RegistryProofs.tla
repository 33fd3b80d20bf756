--------------------------- MODULE RegistryProofs ---------------------------
(***************************************************************************)
(* Proofs about Registry, for any number of agents and names, any pace of  *)
(* heartbeats that the TTL tolerates and any limit on the wait.            *)
(***************************************************************************)
EXTENDS Registry, FiniteSetTheorems, TLAPS

LEMMA ConstantsType ==
    /\ TTL \in Nat /\ TTL > 0 /\ Beat \in Nat /\ Beat > 0
    /\ Wait \in Nat /\ WaitFor \in Nat /\ WaitFor > 0
    /\ MaxTime \in Nat /\ MaxMissed \in Nat /\ IsFiniteSet(Agent)
BY RegistryAssumption

-----------------------------------------------------------------------------
(* Every variable keeps its type; in particular no entry ever lives longer *)
(* than the TTL.                                                           *)

LEMMA TypeInit == Init => TypeOK
BY ConstantsType DEF Init, TypeOK

LEMMA TypeStep == TypeOK /\ [Next]_vars => TypeOK'
<1> SUFFICES ASSUME TypeOK, [Next]_vars PROVE TypeOK'
  OBVIOUS
<1> USE ConstantsType DEF TypeOK
<1>1. ASSUME NEW a \in Agent, RegisterAgent(a) PROVE TypeOK'
  BY <1>1 DEF RegisterAgent, coordinatorVars
<1>2. ASSUME NEW a \in Agent, Heartbeat(a) PROVE TypeOK'
  BY <1>2 DEF Heartbeat, coordinatorVars
<1>3. ASSUME NEW a \in Agent, MissHeartbeat(a) PROVE TypeOK'
  BY <1>3 DEF MissHeartbeat, coordinatorVars
<1>4. ASSUME NEW a \in Agent, Interrupt(a) PROVE TypeOK'
  BY <1>4 DEF Interrupt, coordinatorVars
<1>5. ASSUME NEW a \in Agent, EndWork(a) PROVE TypeOK'
  BY <1>5 DEF EndWork, coordinatorVars
<1>6. ASSUME NEW a \in Agent, UnregisterAgent(a) PROVE TypeOK'
  BY <1>6 DEF UnregisterAgent, coordinatorVars
<1>7. ASSUME NEW a \in Agent, Crash(a) PROVE TypeOK'
  BY <1>7 DEF Crash, coordinatorVars
<1>8. CASE Scan
  BY <1>8 DEF Scan, agentVars
<1>9. ASSUME NEW n \in Name, Get(n) PROVE TypeOK'
  BY <1>9 DEF Get, agentVars
<1>10. CASE Judge
  BY <1>10 DEF Judge, agentVars
<1>11. CASE LookAgain
  BY <1>11 DEF LookAgain, agentVars
<1>12. CASE AbandonWait
  BY <1>12 DEF AbandonWait, agentVars
<1>13. CASE Tick
  BY <1>13 DEF Tick, agentVars, coordinatorVars
<1>14. CASE UNCHANGED vars
  BY <1>14 DEF vars
<1> QED
  BY <1>1, <1>2, <1>3, <1>4, <1>5, <1>6, <1>7, <1>8, <1>9, <1>10, <1>11, <1>12, <1>13, <1>14
     DEF Next, Coordinator, Rest

(* The types of the registry, its agents and its coordinator: an entry     *)
(* never lives longer than the TTL, for it is renewed and not prolonged.   *)
THEOREM TypeCorrect == Spec => []TypeOK
BY TypeInit, TypeStep, PTL DEF Spec

-----------------------------------------------------------------------------
(* The wait of run-dist.                                                   *)

(* What bounds it: a look begins at most one pause after AgentsWait and    *)
(* takes no longer than a pause.                                           *)
WaitInv ==
    /\ cpc = "look" => now <= Wait + 1
    /\ cpc = "sleep" => now <= wakeAt /\ wakeAt <= Wait + 1
    /\ cpc = "scan" => now <= wakeAt /\ wakeAt <= Wait + 2

LEMMA WaitStep == TypeOK /\ WaitInv /\ [Next]_vars => WaitInv'
<1> SUFFICES ASSUME TypeOK, WaitInv, [Next]_vars PROVE WaitInv'
  OBVIOUS
<1> USE ConstantsType DEF TypeOK, WaitInv
<1>1. ASSUME NEW a \in Agent,
             \/ RegisterAgent(a) \/ Heartbeat(a) \/ MissHeartbeat(a) \/ Interrupt(a)
             \/ EndWork(a) \/ UnregisterAgent(a) \/ Crash(a)
      PROVE  WaitInv'
  <2>1. UNCHANGED <<now, cpc, wakeAt>>
    BY <1>1 DEF RegisterAgent, Heartbeat, MissHeartbeat, Interrupt, EndWork,
                UnregisterAgent, Crash, coordinatorVars
  <2> QED
    BY <2>1
<1>2. CASE Scan
  BY <1>2 DEF Scan
<1>3. ASSUME NEW n \in Name, Get(n) PROVE WaitInv'
  BY <1>3 DEF Get
<1>4. CASE Judge
  BY <1>4 DEF Judge
<1>5. CASE LookAgain
  BY <1>5 DEF LookAgain
<1>6. CASE AbandonWait
  BY <1>6 DEF AbandonWait
<1>7. CASE Tick
  BY <1>7 DEF Tick, coordinatorVars
<1>8. CASE UNCHANGED vars
  BY <1>8 DEF vars
<1> QED
  BY <1>1, <1>2, <1>3, <1>4, <1>5, <1>6, <1>7, <1>8 DEF Next, Coordinator, Rest

(* A coordinator that is still waiting has waited for at most AgentsWait,  *)
(* one pause and one look, whatever the agents do and whatever the look    *)
(* finds (registry.go:80).                                                 *)
THEOREM WaitsNotForever == Spec => []WaitIsBounded
<1>1. Init => WaitInv
  BY ConstantsType DEF Init, WaitInv
<1>2. TypeOK /\ WaitInv => WaitIsBounded
  BY ConstantsType DEF TypeOK, WaitInv, WaitIsBounded
<1> QED
  BY <1>1, <1>2, WaitStep, TypeCorrect, PTL DEF Spec

-----------------------------------------------------------------------------
(* An expired entry means a dead agent.                                    *)

(* An agent at work, m heartbeats of which were lost since the last one    *)
(* that arrived, has an entry that lives until the next m + 1 before it    *)
(* are a TTL old, unless a namesake has taken it away.                     *)
Kept(a) == /\ ttl[name[a]] > 0
           /\ ttl[name[a]] + now + (missed[a] + 1) * Beat >= nextBeat[a] + TTL
AliveInv == \A a \in Agent : apc[a] = "up" /\ a \notin cancelled =>
    /\ nextBeat[a] <= now + Beat /\ now <= nextBeat[a] + 1
    /\ Kept(a) \/ \E b \in Namesakes(a) : apc[b] = "gone"

LEMMA Periods ==
    /\ \A m \in Nat : (m + 1) * Beat \in Nat /\ (m + 1) * Beat >= Beat
                      /\ (m + 1 + 1) * Beat = (m + 1) * Beat + Beat
    /\ \A m \in 0 .. MaxMissed : (m + 1) * Beat + 1 < TTL
<1> USE ConstantsType
<1>1. ASSUME NEW m \in Nat
      PROVE  (m + 1) * Beat \in Nat /\ (m + 1) * Beat >= Beat
             /\ (m + 1 + 1) * Beat = (m + 1) * Beat + Beat
  <2>1. (m + 1) * Beat = m * Beat + Beat /\ m * Beat \in Nat
    OBVIOUS
  <2> QED
    BY <2>1
<1>2. ASSUME NEW m \in 0 .. MaxMissed PROVE (m + 1) * Beat + 1 < TTL
  <2>1. (m + 1) * Beat <= (MaxMissed + 1) * Beat
    OBVIOUS
  <2> QED
    BY <2>1, BeatAssumption
<1> QED
  BY <1>1, <1>2

LEMMA AliveStep == TypeOK /\ AliveInv /\ [Next]_vars => AliveInv'
<1> SUFFICES ASSUME TypeOK, AliveInv, [Next]_vars,
                    NEW a \in Agent, apc'[a] = "up", a \notin cancelled'
             PROVE  /\ nextBeat'[a] <= now' + Beat /\ now' <= nextBeat'[a] + 1
                    /\ Kept(a)' \/ \E b \in Namesakes(a)' : apc'[b] = "gone"
  BY DEF AliveInv
<1> USE ConstantsType, Periods
<1>0. /\ missed[a] \in Nat /\ missed[a] <= MaxMissed /\ nextBeat[a] \in Nat /\ now \in Nat
      /\ name[a] \in Name /\ ttl[name[a]] \in Nat /\ ttl[name[a]] <= TTL
  BY DEF TypeOK
<1>1. ASSUME NEW c \in Agent, RegisterAgent(c)
      PROVE  /\ nextBeat'[a] <= now' + Beat /\ now' <= nextBeat'[a] + 1
             /\ Kept(a)' \/ \E b \in Namesakes(a)' : apc'[b] = "gone"
  <2>1. CASE c = a
    <3>1. nextBeat'[a] = now + Beat /\ ttl'[name[a]] = TTL /\ now' = now /\ name' = name
          /\ missed' = missed
      BY <1>1, <2>1 DEF RegisterAgent, TypeOK
    <3> QED
      BY <3>1, <1>0 DEF Kept
  <2>2. CASE c # a
    <3>1. /\ nextBeat'[a] = nextBeat[a] /\ apc[a] = "up" /\ a \notin cancelled
          /\ now' = now /\ name' = name /\ missed' = missed
          /\ ttl'[name[a]] = ttl[name[a]] \/ ttl'[name[a]] = TTL
      BY <1>1, <2>2 DEF RegisterAgent, TypeOK
    <3>2. \A b \in Agent : apc[b] = "gone" => apc'[b] = "gone"
      BY <1>1 DEF RegisterAgent, TypeOK
    <3> QED
      BY <3>1, <3>2, <1>0 DEF Kept, AliveInv, Namesakes
  <2> QED
    BY <2>1, <2>2
<1>2. ASSUME NEW c \in Agent, Heartbeat(c)
      PROVE  /\ nextBeat'[a] <= now' + Beat /\ now' <= nextBeat'[a] + 1
             /\ Kept(a)' \/ \E b \in Namesakes(a)' : apc'[b] = "gone"
  <2>1. /\ apc[a] = "up" /\ a \notin cancelled /\ apc' = apc /\ name' = name /\ now' = now
        /\ ttl[name[a]] > 0 => ttl'[name[a]] \in {ttl[name[a]], TTL}
    BY <1>2 DEF Heartbeat, TypeOK
  <2>2. CASE c = a
    <3>1. /\ now >= nextBeat[a] /\ nextBeat'[a] = nextBeat[a] + Beat /\ missed'[a] = 0
          /\ ttl[name[a]] > 0 => ttl'[name[a]] = TTL
      BY <1>2, <2>2 DEF Heartbeat, TypeOK
    <3>2. (missed'[a] + 1) * Beat = Beat
      BY <3>1
    <3> QED
      BY <2>1, <3>1, <3>2, <1>0 DEF Kept, AliveInv, Namesakes
  <2>3. CASE c # a
    <3>1. nextBeat'[a] = nextBeat[a] /\ missed'[a] = missed[a]
      BY <1>2, <2>3 DEF Heartbeat, TypeOK
    <3> QED
      BY <2>1, <3>1, <1>0 DEF Kept, AliveInv, Namesakes
  <2> QED
    BY <2>2, <2>3
<1>3. ASSUME NEW c \in Agent, MissHeartbeat(c)
      PROVE  /\ nextBeat'[a] <= now' + Beat /\ now' <= nextBeat'[a] + 1
             /\ Kept(a)' \/ \E b \in Namesakes(a)' : apc'[b] = "gone"
  <2>1. apc[a] = "up" /\ a \notin cancelled /\ apc' = apc /\ name' = name /\ now' = now /\ ttl' = ttl
    BY <1>3 DEF MissHeartbeat
  <2>2. CASE c = a
    <3>1. /\ now >= nextBeat[a] /\ nextBeat'[a] = nextBeat[a] + Beat
          /\ missed'[a] = missed[a] + 1
      BY <1>3, <2>2 DEF MissHeartbeat, TypeOK
    <3>2. (missed'[a] + 1) * Beat = (missed[a] + 1) * Beat + Beat
      BY <3>1, <1>0
    <3> QED
      BY <2>1, <3>1, <3>2, <1>0 DEF Kept, AliveInv, Namesakes
  <2>3. CASE c # a
    <3>1. nextBeat'[a] = nextBeat[a] /\ missed'[a] = missed[a]
      BY <1>3, <2>3 DEF MissHeartbeat, TypeOK
    <3> QED
      BY <2>1, <3>1, <1>0 DEF Kept, AliveInv, Namesakes
  <2> QED
    BY <2>2, <2>3
<1>4. ASSUME NEW c \in Agent, Interrupt(c) \/ EndWork(c) \/ Crash(c)
      PROVE  /\ nextBeat'[a] <= now' + Beat /\ now' <= nextBeat'[a] + 1
             /\ Kept(a)' \/ \E b \in Namesakes(a)' : apc'[b] = "gone"
  <2>1. /\ apc[a] = "up" /\ a \notin cancelled /\ UNCHANGED <<name, now, ttl, nextBeat, missed>>
        /\ \A b \in Agent : apc[b] = "gone" => apc'[b] = "gone"
    BY <1>4 DEF Interrupt, EndWork, Crash, TypeOK
  <2> QED
    BY <2>1 DEF Kept, AliveInv, Namesakes
<1>5. ASSUME NEW c \in Agent, UnregisterAgent(c)
      PROVE  /\ nextBeat'[a] <= now' + Beat /\ now' <= nextBeat'[a] + 1
             /\ Kept(a)' \/ \E b \in Namesakes(a)' : apc'[b] = "gone"
  <2>1. /\ c # a /\ apc[a] = "up" /\ a \notin cancelled
        /\ UNCHANGED <<name, now, nextBeat, missed>> /\ apc'[c] = "gone"
        /\ \A b \in Agent : apc[b] = "gone" => apc'[b] = "gone"
        /\ ttl'[name[a]] = ttl[name[a]] \/ name[c] = name[a]
    BY <1>5 DEF UnregisterAgent, TypeOK
  <2> QED
    BY <2>1 DEF Kept, AliveInv, Namesakes
<1>6. CASE Tick
  <2>1. /\ apc[a] = "up" /\ a \notin cancelled /\ now' = now + 1 /\ now <= nextBeat[a]
        /\ UNCHANGED <<name, nextBeat, missed, apc>>
        /\ ttl'[name[a]] = IF ttl[name[a]] > 0 THEN ttl[name[a]] - 1 ELSE 0
    BY <1>6 DEF Tick, agentVars, TypeOK
  <2>2. (missed[a] + 1) * Beat \in Nat /\ (missed[a] + 1) * Beat + 1 < TTL
    BY <1>0
  <2> QED
    BY <2>1, <2>2, <1>0 DEF Kept, AliveInv, Namesakes
<1>7. CASE Coordinator \/ UNCHANGED vars
  <2>1. UNCHANGED <<name, now, nextBeat, missed, apc, ttl, cancelled>>
    BY <1>7 DEF Coordinator, Scan, Get, Judge, LookAgain, AbandonWait, agentVars, vars
  <2> QED
    BY <2>1 DEF Kept, AliveInv, Namesakes
<1> QED
  BY <1>1, <1>2, <1>3, <1>4, <1>5, <1>6, <1>7 DEF Next, Rest

(* An entry is somebody's, and if it is a dead agent's its life ends a TTL *)
(* after the death.                                                        *)
DeathInv == \A a \in Agent : (died[a] = NotDead) <=> (apc[a] # "dead")
Owner(n, until) == \E a \in Agent :
    /\ name[a] = n /\ apc[a] # "off"
    /\ apc[a] = "dead" => until <= died[a] + TTL
OwnerInv == DeathInv /\ \A n \in Name : ttl[n] > 0 => Owner(n, now + ttl[n])

LEMMA OwnerStep == TypeOK /\ OwnerInv /\ [Next]_vars => OwnerInv'
<1> SUFFICES ASSUME TypeOK, OwnerInv, [Next]_vars PROVE OwnerInv'
  OBVIOUS
<1> USE ConstantsType DEF TypeOK, Owner, OwnerInv
<1>1. ASSUME NEW c \in Agent, RegisterAgent(c) PROVE OwnerInv'
  <2>1. DeathInv'
    BY <1>1 DEF RegisterAgent, DeathInv
  <2>2. ASSUME NEW n \in Name, ttl'[n] > 0 PROVE Owner(n, now + ttl[n])'
    <3>1. CASE name[c] = n
      BY <1>1, <3>1 DEF RegisterAgent
    <3>2. CASE name[c] # n
      BY <1>1, <2>2, <3>2 DEF RegisterAgent
    <3> QED
      BY <3>1, <3>2
  <2> QED
    BY <2>1, <2>2
<1>2. ASSUME NEW c \in Agent, Heartbeat(c) PROVE OwnerInv'
  <2>1. DeathInv'
    BY <1>2 DEF Heartbeat, DeathInv
  <2>2. ASSUME NEW n \in Name, ttl'[n] > 0 PROVE Owner(n, now + ttl[n])'
    <3>1. CASE name[c] = n
      BY <1>2, <3>1 DEF Heartbeat
    <3>2. CASE name[c] # n
      BY <1>2, <2>2, <3>2 DEF Heartbeat
    <3> QED
      BY <3>1, <3>2
  <2> QED
    BY <2>1, <2>2
<1>3. ASSUME NEW c \in Agent, MissHeartbeat(c) \/ Interrupt(c) PROVE OwnerInv'
  BY <1>3 DEF MissHeartbeat, Interrupt, DeathInv
<1>4. ASSUME NEW c \in Agent, EndWork(c) PROVE OwnerInv'
  BY <1>4 DEF EndWork, DeathInv
<1>5. ASSUME NEW c \in Agent, UnregisterAgent(c) PROVE OwnerInv'
  <2>1. DeathInv'
    BY <1>5 DEF UnregisterAgent, DeathInv
  <2>2. ASSUME NEW n \in Name, ttl'[n] > 0 PROVE ttl'[n] = ttl[n]
    BY <1>5, <2>2 DEF UnregisterAgent
  <2> QED
    BY <1>5, <2>1, <2>2 DEF UnregisterAgent
<1>6. ASSUME NEW c \in Agent, Crash(c) PROVE OwnerInv'
  <2>1. DeathInv'
    BY <1>6 DEF Crash, DeathInv, NotDead
  <2>2. ASSUME NEW n \in Name, ttl'[n] > 0 PROVE Owner(n, now + ttl[n])'
    BY <1>6, <2>2 DEF Crash
  <2> QED
    BY <2>1, <2>2
<1>7. CASE Tick
  <2>1. DeathInv'
    BY <1>7 DEF Tick, agentVars, DeathInv
  <2>2. ASSUME NEW n \in Name, ttl'[n] > 0 PROVE now' + ttl'[n] = now + ttl[n] /\ ttl[n] > 0
    BY <1>7, <2>2 DEF Tick
  <2> QED
    BY <1>7, <2>1, <2>2 DEF Tick, agentVars
<1>8. CASE Coordinator \/ UNCHANGED vars
  <2>1. UNCHANGED <<name, now, apc, ttl, died>>
    BY <1>8 DEF Coordinator, Scan, Get, Judge, LookAgain, AbandonWait, agentVars, vars
  <2> QED
    BY <2>1 DEF DeathInv
<1> QED
  BY <1>1, <1>2, <1>3, <1>4, <1>5, <1>6, <1>7, <1>8 DEF Next, Rest

LEMMA OwnerInit == Init => OwnerInv
BY DEF Init, OwnerInv, DeathInv

LEMMA EntryMeansAliveHolds == TypeOK /\ AliveInv /\ OwnerInv => EntryMeansAlive
<1> SUFFICES ASSUME TypeOK, AliveInv, OwnerInv, NEW a \in Agent
             PROVE  /\ apc[a] = "up" /\ a \notin cancelled =>
                          ttl[name[a]] > 0 \/ \E b \in Namesakes(a) : apc[b] = "gone"
                    /\ LongDead(a) /\ (\A b \in Namesakes(a) : LongDead(b)) => ttl[name[a]] = 0
  BY DEF EntryMeansAlive
<1>1. apc[a] = "up" /\ a \notin cancelled =>
          ttl[name[a]] > 0 \/ \E b \in Namesakes(a) : apc[b] = "gone"
  BY DEF AliveInv, Kept
<1>2. ASSUME LongDead(a), \A b \in Namesakes(a) : LongDead(b), ttl[name[a]] # 0 PROVE FALSE
  <2>1. ttl[name[a]] > 0 /\ now \in Nat /\ name[a] \in Name
    BY <1>2, ConstantsType DEF TypeOK
  <2>2. PICK b \in Agent : /\ name[b] = name[a] /\ apc[b] # "off"
                           /\ apc[b] = "dead" => now + ttl[name[a]] <= died[b] + TTL
    BY <2>1 DEF OwnerInv, Owner
  <2>3. LongDead(b)
    BY <1>2, <2>2 DEF Namesakes
  <2>4. died[b] \in Nat
    BY <2>3, ConstantsType DEF LongDead, OwnerInv, DeathInv, TypeOK
  <2> QED
    BY <2>1, <2>2, <2>3, <2>4, ConstantsType DEF LongDead, TypeOK
<1> QED
  BY <1>1, <1>2

(* "An expired entry means a dead agent" (registry.go:15): as long as the  *)
(* TTL outlasts the heartbeats that are lost in a row, an agent at work    *)
(* has its entry, unless it shares its name with one that has left; and    *)
(* once all who share a name have been dead for a TTL the entry is gone.   *)
THEOREM EntriesAreOfTheLiving == Spec => []EntryMeansAlive
<1>1. Init => AliveInv
  BY DEF Init, AliveInv
<1> QED
  BY <1>1, OwnerInit, AliveStep, OwnerStep, EntryMeansAliveHolds, TypeCorrect, PTL DEF Spec

-----------------------------------------------------------------------------
(* A coordinator starts with agents.                                       *)

(* What a look has found is an agent that had not been dead for a TTL when *)
(* the look began.                                                         *)
Candidate(n, t) == \E a \in Agent :
    name[a] = n /\ apc[a] # "off" /\ (died[a] = NotDead \/ t <= died[a] + TTL)
LookInv == cpc = "scan" =>
    now <= wakeAt /\ wakeAt <= now + 1 /\ \A n \in seen \cup found : Candidate(n, wakeAt)

LEMMA LookStep == TypeOK /\ OwnerInv /\ LookInv /\ [Next]_vars => LookInv'
<1> SUFFICES ASSUME TypeOK, OwnerInv, LookInv, [Next]_vars, cpc' = "scan" PROVE LookInv'
  BY DEF LookInv
<1> USE ConstantsType DEF TypeOK, LookInv, Candidate
<1>1. ASSUME NEW c \in Agent, \/ RegisterAgent(c) \/ Heartbeat(c) \/ MissHeartbeat(c)
                              \/ Interrupt(c) \/ EndWork(c) \/ UnregisterAgent(c)
      PROVE  LookInv'
  <2>1. /\ UNCHANGED <<name, now, died, cpc, wakeAt, seen, found>>
        /\ \A a \in Agent : apc[a] # "off" => apc'[a] # "off"
    BY <1>1 DEF RegisterAgent, Heartbeat, MissHeartbeat, Interrupt, EndWork, UnregisterAgent,
                coordinatorVars
  <2> QED
    BY <2>1
<1>2. ASSUME NEW c \in Agent, Crash(c) PROVE LookInv'
  <2>1. /\ UNCHANGED <<name, now, cpc, wakeAt, seen, found>>
        /\ died' = [died EXCEPT ![c] = now] /\ \A a \in Agent : apc[a] # "off" => apc'[a] # "off"
    BY <1>2 DEF Crash, coordinatorVars
  <2> QED
    BY <2>1
<1>3. CASE Scan
  <2>1. /\ UNCHANGED <<name, now, died, apc>> /\ wakeAt' = now + 1 /\ found' = {}
        /\ \A n \in seen' : n \in Name /\ ttl[n] > 0
    BY <1>3 DEF Scan, agentVars
  <2>2. ASSUME NEW n \in Name, ttl[n] > 0 PROVE Candidate(n, now + 1)
    <3>1. PICK a \in Agent : /\ name[a] = n /\ apc[a] # "off"
                             /\ apc[a] = "dead" => now + ttl[n] <= died[a] + TTL
      BY <2>2 DEF OwnerInv, Owner
    <3> QED
      BY <2>2, <3>1 DEF OwnerInv, DeathInv, NotDead
  <2> QED
    BY <2>1, <2>2
<1>4. ASSUME NEW n \in Name, Get(n) PROVE LookInv'
  BY <1>4 DEF Get, agentVars
<1>5. CASE Judge \/ LookAgain \/ AbandonWait
  BY <1>5 DEF Judge, LookAgain, AbandonWait
<1>6. CASE Tick
  BY <1>6 DEF Tick, agentVars, coordinatorVars
<1>7. CASE UNCHANGED vars
  BY <1>7 DEF vars
<1> QED
  BY <1>1, <1>2, <1>3, <1>4, <1>5, <1>6, <1>7 DEF Next, Coordinator, Rest

(* Distinct names are of distinct agents. *)
LEMMA NamesOfAgents ==
    ASSUME NEW names, NEW f \in [Agent -> Name], NEW S \in SUBSET Agent,
           \A n \in names : \E a \in S : f[a] = n
    PROVE  IsFiniteSet(names) /\ Cardinality(names) <= Cardinality(S)
<1>1. IsFiniteSet(S)
  BY ConstantsType, FS_Subset
<1> DEFINE owner == [n \in names |-> CHOOSE a \in S : f[a] = n]
<1>2. \A n \in names : owner[n] \in S /\ f[owner[n]] = n
  OBVIOUS
<1>3. owner \in Injection(names, S)
  BY <1>2 DEF Injection, IsInjective
<1> QED
  BY <1>1, <1>3, FS_Injection

LEMMA StartStep ==
    TypeOK /\ LookInv /\ [Next]_vars =>
    [(cpc # "started" /\ cpc' = "started") => Cardinality(Living) >= WaitFor]_vars
<1> SUFFICES ASSUME TypeOK, LookInv, [Next]_vars, cpc # "started", cpc' = "started"
             PROVE  Cardinality(Living) >= WaitFor
  OBVIOUS
<1>1. Judge
  BY DEF Next, Coordinator, Rest, RegisterAgent, Heartbeat, MissHeartbeat, Interrupt, EndWork,
         UnregisterAgent, Crash, Scan, Get, LookAgain, AbandonWait, Tick, coordinatorVars, vars
<1>2. cpc = "scan" /\ Cardinality(found) >= WaitFor
  BY <1>1 DEF Judge
<1>3. \A n \in found : \E a \in Living : name[a] = n
  BY <1>2, ConstantsType DEF LookInv, Candidate, TypeOK, Living
<1>4. Living \subseteq Agent /\ name \in [Agent -> Name]
  BY DEF Living, TypeOK
<1>5. IsFiniteSet(found) /\ Cardinality(found) <= Cardinality(Living)
  BY <1>3, <1>4, NamesOfAgents
<1>6. Cardinality(found) \in Nat /\ Cardinality(Living) \in Nat
  BY <1>4, <1>5, ConstantsType, FS_CardinalityType, FS_Subset
<1> QED
  BY <1>2, <1>5, <1>6, ConstantsType

(* A coordinator never starts on the entries of dead agents: --agents of   *)
(* them are there, none dead for longer than a TTL.                        *)
THEOREM StartsWithTheLiving == Spec => StartsWithAgents
<1>1. Init => LookInv
  BY DEF Init, LookInv
<1> QED
  BY <1>1, OwnerInit, OwnerStep, LookStep, StartStep, TypeCorrect, PTL DEF Spec, StartsWithAgents
=============================================================================
