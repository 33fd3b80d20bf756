----------------------------- MODULE DistProofs -----------------------------
(***************************************************************************)
(* Proofs about Dist, for any number of runs, jobs, agents and workers and *)
(* any chunk size: where a job can be, what can be lost, and what a report *)
(* holds.                                                                  *)
(***************************************************************************)
EXTENDS Dist, FiniteSetTheorems, SequenceTheorems, TLAPS

LEMMA ConstantsType ==
    /\ NumJobs \in Nat /\ NumJobs > 0 /\ ChunkSize \in Nat /\ ChunkSize > 0
    /\ PerAgent \in Nat /\ PerAgent > 0 /\ MaxMishaps \in Nat /\ StayAlive \in BOOLEAN
    /\ IsFiniteSet(Agent) /\ IsFiniteSet(RunId)
BY DistAssumption

LEMMA WorkersFinite == IsFiniteSet(Worker)
<1>1. IsFiniteSet(1 .. PerAgent)
  BY ConstantsType, FS_Interval
<1> QED
  BY <1>1, ConstantsType, FS_Product DEF Worker

LEMMA JobType ==
    /\ \A b \in Job : b.run \in RunId /\ b.id \in 1 .. NumJobs
    /\ \A r \in RunId, i \in 1 .. NumJobs : [run |-> r, id |-> i] \in Job
    /\ \A b \in Job : b = [run |-> b.run, id |-> b.id]
    /\ NoJob \notin Job
<1>1. \A b \in Job : \E r \in RunId, i \in 1 .. NumJobs : b = [run |-> r, id |-> i]
  BY DEF Job, JobOf
<1>2. \A r \in RunId, i \in 1 .. NumJobs : [run |-> r, id |-> i] \in Job
  BY DEF Job, JobOf
<1>3. \A b \in Job : b.run \in RunId /\ b.id \in 1 .. NumJobs /\ b = [run |-> b.run, id |-> b.id]
  BY <1>1
<1>4. NoJob \notin Job
  <2>1. NoJob.id = 0
    BY DEF NoJob
  <2> QED
    BY <1>3, <2>1, ConstantsType
<1> QED
  BY <1>2, <1>3, <1>4

-----------------------------------------------------------------------------
(* How often a job is in a list.                                           *)

Places(s, b) == {k \in DOMAIN s : s[k] = b}
Occurs(s, b) == Cardinality(Places(s, b))

LEMMA OccursType ==
    ASSUME NEW S, NEW s \in Seq(S), NEW b
    PROVE  IsFiniteSet(Places(s, b)) /\ Occurs(s, b) \in Nat
<1>1. DOMAIN s = 1 .. Len(s) /\ Len(s) \in Nat
  OBVIOUS
<1>2. IsFiniteSet(DOMAIN s)
  BY <1>1, FS_Interval
<1>3. Places(s, b) \in SUBSET DOMAIN s
  BY DEF Places
<1>4. IsFiniteSet(Places(s, b))
  BY <1>2, <1>3, FS_Subset
<1> QED
  BY <1>4, FS_CardinalityType DEF Occurs

(* LPUSH adds what is in the chunk, and BLPOP takes what is at the head.   *)
LEMMA OccursPushed ==
    ASSUME NEW S, NEW s \in Seq(S), NEW t \in Seq(S), NEW b
    PROVE  Occurs(s \o t, b) <= Occurs(s, b) + Occurs(t, b)
<1> DEFINE u == s \o t
           A == Places(s, b)
           B == Places(t, b)
           C == {k \in Places(u, b) : k > Len(s)}
<1>1. /\ u \in Seq(S) /\ Len(u) = Len(s) + Len(t) /\ Len(s) \in Nat /\ Len(t) \in Nat
      /\ \A k \in 1 .. Len(s) : u[k] = s[k]
      /\ \A k \in 1 .. Len(t) : u[Len(s) + k] = t[k]
  BY ConcatProperties
<1>2. IsFiniteSet(A) /\ IsFiniteSet(B) /\ IsFiniteSet(Places(u, b))
  BY <1>1, OccursType
<1>3. IsFiniteSet(C) /\ Cardinality(C) <= Cardinality(B)
  <2> DEFINE f == [k \in C |-> k - Len(s)]
  <2>1. ASSUME NEW k \in C PROVE f[k] \in B /\ k \in Int
    <3>1. k \in 1 .. Len(u) /\ u[k] = b /\ k > Len(s)
      BY <1>1 DEF Places
    <3>2. k - Len(s) \in 1 .. Len(t) /\ Len(s) + (k - Len(s)) = k
      BY <1>1, <3>1
    <3>3. t[k - Len(s)] = b
      BY <1>1, <3>1, <3>2
    <3> QED
      BY <3>1, <3>2, <3>3 DEF Places
  <2>2. \A k, l \in C : f[k] = f[l] => k = l
    BY <1>1, <2>1
  <2>3. f \in Injection(C, B)
    BY <2>1, <2>2 DEF Injection, IsInjective
  <2> QED
    BY <1>2, <2>3, FS_Injection
<1>4. Places(u, b) \in SUBSET (A \cup C)
  BY <1>1 DEF Places
<1>5. IsFiniteSet(A \cup C) /\ Cardinality(A \cup C) = Cardinality(A) + Cardinality(C) - Cardinality(A \cap C)
  BY <1>2, <1>3, FS_Union
<1>6. /\ Cardinality(A \cap C) \in Nat /\ Cardinality(A) \in Nat /\ Cardinality(B) \in Nat
      /\ Cardinality(C) \in Nat /\ Cardinality(Places(u, b)) \in Nat
  <2>1. IsFiniteSet(A \cap C)
    BY <1>2, FS_Subset
  <2> QED
    BY <1>2, <1>3, <2>1, FS_CardinalityType
<1>7. Cardinality(Places(u, b)) <= Cardinality(A \cup C)
  BY <1>4, <1>5, FS_Subset
<1> QED
  BY <1>3, <1>5, <1>6, <1>7 DEF Occurs

LEMMA OccursPopped ==
    ASSUME NEW S, NEW s \in Seq(S), s # <<>>, NEW b
    PROVE  Occurs(Tail(s), b) + (IF Head(s) = b THEN 1 ELSE 0) <= Occurs(s, b)
<1> DEFINE t == Tail(s)
           A == Places(s, b) \ {1}
           B == Places(t, b)
<1>1. /\ t \in Seq(S) /\ Len(t) = Len(s) - 1 /\ Len(s) \in Nat /\ Len(s) > 0
      /\ \A k \in 1 .. Len(t) : t[k] = s[k + 1]
      /\ Head(s) = s[1]
  BY HeadTailProperties
<1>2. IsFiniteSet(Places(s, b)) /\ Occurs(s, b) \in Nat /\ Occurs(t, b) \in Nat
  BY <1>1, OccursType
<1>3. IsFiniteSet(A) /\ Cardinality(A) = IF Head(s) = b THEN Occurs(s, b) - 1 ELSE Occurs(s, b)
  <2>1. 1 \in Places(s, b) <=> Head(s) = b
    BY <1>1 DEF Places
  <2> QED
    BY <1>2, <2>1, FS_RemoveElement DEF Occurs
<1>4. Cardinality(B) <= Cardinality(A)
  <2> DEFINE f == [k \in B |-> k + 1]
  <2>1. ASSUME NEW k \in B PROVE f[k] \in A /\ k \in Int
    <3>1. k \in 1 .. Len(t) /\ t[k] = b
      BY <1>1 DEF Places
    <3>2. k + 1 \in 1 .. Len(s) /\ k + 1 # 1 /\ s[k + 1] = b
      BY <1>1, <3>1
    <3> QED
      BY <3>1, <3>2 DEF Places
  <2>2. \A k, l \in B : f[k] = f[l] => k = l
    BY <2>1
  <2>3. f \in Injection(B, A)
    BY <2>1, <2>2 DEF Injection, IsInjective
  <2> QED
    BY <1>3, <2>3, FS_Injection
<1> QED
  BY <1>2, <1>3, <1>4 DEF Occurs

(* A chunk has each of its jobs once, and no other. *)
LEMMA OccursInChunk ==
    ASSUME TypeOK, NEW r \in RunId, NEW b \in Job
    PROVE  LET c == Reverse(Chunk(r, LastOf(r)))
           IN  /\ c \in Seq(Job) /\ LastOf(r) \in pushed[r] .. NumJobs
               /\ b.run = r /\ b.id \in pushed[r] + 1 .. LastOf(r) => \E k \in DOMAIN c : c[k] = b
               /\ Occurs(c, b) <= IF b.run = r /\ b.id \in pushed[r] + 1 .. LastOf(r) THEN 1 ELSE 0
<1> DEFINE last == LastOf(r)
           n == last - pushed[r]
           c == Reverse(Chunk(r, last))
<1>1. pushed[r] \in Nat /\ last \in pushed[r] .. NumJobs
  BY ConstantsType DEF LastOf, TypeOK
<1>2. n \in Nat
  BY <1>1
<1>3. Len(Chunk(r, last)) = n /\ c = [i \in 1 .. n |-> [run |-> r, id |-> last + 1 - i]]
  <2>1. Chunk(r, last) = [k \in 1 .. n |-> [run |-> r, id |-> pushed[r] + k]]
    BY DEF Chunk
  <2>2. Len(Chunk(r, last)) = n
    BY <1>2, <2>1
  <2>3. c = [i \in 1 .. n |-> Chunk(r, last)[n - i + 1]]
    BY <2>2 DEF Reverse
  <2> HIDE DEF n
  <2>4. ASSUME NEW i \in 1 .. n
        PROVE  Chunk(r, last)[n - i + 1] = [run |-> r, id |-> pushed[r] + (n - i + 1)]
    <3>1. n - i + 1 \in 1 .. n
      BY <1>2
    <3> QED
      BY <2>1, <3>1
  <2>5. \A i \in 1 .. n : pushed[r] + (n - i + 1) = last + 1 - i
    BY <1>1 DEF n
  <2> QED
    BY <2>2, <2>3, <2>4, <2>5
<1> HIDE DEF c, last
<1>4. \A i \in 1 .. n : last + 1 - i \in pushed[r] + 1 .. last
  BY <1>1
<1>5. c \in Seq(Job)
  <2>1. ASSUME NEW i \in 1 .. n PROVE [run |-> r, id |-> last + 1 - i] \in Job
    <3>1. last + 1 - i \in 1 .. NumJobs
      BY <1>1, <1>4, ConstantsType
    <3> QED
      BY <3>1, JobType
  <2> QED
    BY <1>2, <1>3, <2>1
<1>6. Places(c, b) \subseteq IF b.run = r /\ b.id \in pushed[r] + 1 .. last THEN {last + 1 - b.id} ELSE {}
  <2>1. ASSUME NEW i \in Places(c, b)
        PROVE  b.run = r /\ b.id \in pushed[r] + 1 .. last /\ i = last + 1 - b.id
    <3>1. i \in 1 .. n /\ c[i] = b
      BY <1>3 DEF Places
    <3>2. b = [run |-> r, id |-> last + 1 - i]
      BY <1>3, <3>1
    <3>3. b.run = r /\ b.id = last + 1 - i
      BY <3>2
    <3> QED
      BY <1>1, <1>4, <3>1, <3>3
  <2> QED
    BY <2>1
<1>7. Occurs(c, b) <= IF b.run = r /\ b.id \in pushed[r] + 1 .. last THEN 1 ELSE 0
  <2>1. IsFiniteSet({last + 1 - b.id}) /\ Cardinality({last + 1 - b.id}) = 1
    BY FS_Singleton
  <2>2. IsFiniteSet({}) /\ Cardinality({}) = 0
    BY FS_EmptySet
  <2>3. CASE b.run = r /\ b.id \in pushed[r] + 1 .. last
    BY <1>6, <2>1, <2>3, FS_Subset DEF Occurs
  <2>4. CASE ~ (b.run = r /\ b.id \in pushed[r] + 1 .. last)
    BY <1>6, <2>2, <2>4, FS_Subset DEF Occurs
  <2> QED
    BY <2>3, <2>4
<1>8. ASSUME b.run = r, b.id \in pushed[r] + 1 .. last PROVE \E k \in DOMAIN c : c[k] = b
  <2> DEFINE k == last + 1 - b.id
  <2>1. b.id \in Int /\ last \in Int
    BY <1>1, <1>8
  <2>2. k \in 1 .. n /\ last + 1 - k = b.id
    BY <1>1, <1>8, <2>1
  <2>3. c[k] = [run |-> r, id |-> b.id] /\ k \in DOMAIN c
    BY <1>3, <2>2
  <2> QED
    BY <1>8, <2>3, JobType
<1> QED
  BY <1>1, <1>5, <1>7, <1>8 DEF last, c

-----------------------------------------------------------------------------
(* Types, and what a worker holds.                                         *)

(* A worker holds a job exactly from the pop to the push. *)
HandInv == \A w \in Worker : IF wpc[w] \in {"exec", "push"} THEN hand[w] \in Job ELSE hand[w] = NoJob

LEMMA TypeInit == Init => TypeOK /\ HandInv
<1> SUFFICES ASSUME Init PROVE TypeOK /\ HandInv
  OBVIOUS
<1>1. Empty \in Items
  BY DEF Empty, Items
<1>2. queue \in Seq(Job)
  BY DEF Init
<1> QED
  BY <1>1, <1>2, ConstantsType DEF Init, TypeOK, HandInv, CoordinatorPC

(* One more result of the job that w holds. *)
LEMMA ResultType ==
    ASSUME TypeOK, NEW b \in Job, results' = [results EXCEPT ![b.run][b.id] = @ + 1]
    PROVE  /\ results' \in [RunId -> Items]
           /\ \A d \in Job : results'[d.run][d.id] =
                  IF d = b THEN results[d.run][d.id] + 1 ELSE results[d.run][d.id]
<1>1. b.run \in RunId /\ b.id \in 1 .. NumJobs
  BY JobType
<1>2. results \in [RunId -> [1 .. NumJobs -> Nat]]
  BY DEF TypeOK, Items
<1>3. results[b.run][b.id] \in Nat
  BY <1>1, <1>2
<1>4. results' \in [RunId -> Items]
  BY <1>1, <1>2, <1>3 DEF Items
<1>5. ASSUME NEW d \in Job
      PROVE  results'[d.run][d.id] = IF d = b THEN results[d.run][d.id] + 1 ELSE results[d.run][d.id]
  <2>1. d.run \in RunId /\ d.id \in 1 .. NumJobs /\ (d = b <=> d.run = b.run /\ d.id = b.id)
    BY JobType
  <2> QED
    BY <1>1, <1>2, <2>1
<1> QED
  BY <1>4, <1>5

LEMMA TypeStep == TypeOK /\ HandInv /\ [Next]_vars => (TypeOK /\ HandInv)'
<1> SUFFICES ASSUME TypeOK, HandInv, [Next]_vars PROVE (TypeOK /\ HandInv)'
  OBVIOUS
<1> USE ConstantsType DEF TypeOK, HandInv, coordinatorVars, agentVars, budgetVars, Fault, Repeat
<1>0. Empty \in Items
  BY DEF Empty, Items
<1>1. ASSUME NEW r \in RunId, FlushQueue(r) \/ ScanResults(r) \/ DeleteResults(r)
      PROVE  (TypeOK /\ HandInv)'
  <2>1. CASE FlushQueue(r)
    <3>1. queue' \in Seq(Job) /\ disturbed' \subseteq RunId
      BY <2>1 DEF FlushQueue, Others
    <3>2. cpc' \in [RunId -> CoordinatorPC]
      BY <2>1 DEF FlushQueue, CoordinatorPC
    <3> QED
      BY <2>1, <3>1, <3>2 DEF FlushQueue
  <2>2. CASE ScanResults(r)
    <3>1. cpc' \in [RunId -> CoordinatorPC] /\ keys' \in [RunId -> SUBSET RunId]
      BY <2>2 DEF ScanResults, CoordinatorPC
    <3> QED
      BY <2>2, <3>1 DEF ScanResults
  <2>3. CASE DeleteResults(r)
    <3>1. cpc' \in [RunId -> CoordinatorPC] /\ keys' \in [RunId -> SUBSET RunId]
      BY <2>3 DEF DeleteResults, CoordinatorPC
    <3>2. results' \in [RunId -> Items] /\ disturbed' \subseteq RunId
      BY <1>0, <2>3 DEF DeleteResults, Others
    <3> QED
      BY <2>3, <3>1, <3>2 DEF DeleteResults
  <2> QED
    BY <1>1, <2>1, <2>2, <2>3
<1>2. ASSUME NEW r \in RunId, PushJobs(r) \/ PushJobsAgain(r)
      PROVE  (TypeOK /\ HandInv)'
  <2>1. queue' = Reverse(Chunk(r, LastOf(r))) \o queue
    BY <1>2 DEF PushJobs, PushJobsAgain
  <2>2. queue' \in Seq(Job) /\ LastOf(r) \in 0 .. NumJobs
    <3>1. \E b \in Job : TRUE
      <4>1. [run |-> r, id |-> 1] \in Job
        BY JobType
      <4> QED
        BY <4>1
    <3>2. Reverse(Chunk(r, LastOf(r))) \in Seq(Job) /\ LastOf(r) \in pushed[r] .. NumJobs
      BY <3>1, OccursInChunk
    <3> QED
      BY <2>1, <3>2, ConcatProperties
  <2>3. pushed' \in [RunId -> 0 .. NumJobs] /\ cpc' \in [RunId -> CoordinatorPC]
    <3> DEFINE l == LastOf(r)
               c == IF l = NumJobs THEN "poll" ELSE "push"
    <3>1. \/ pushed' = [pushed EXCEPT ![r] = l] /\ cpc' = [cpc EXCEPT ![r] = c]
          \/ pushed' = pushed /\ cpc' = cpc
      BY <1>2 DEF PushJobs, PushJobsAgain, coordinatorVars
    <3>2. l \in 0 .. NumJobs /\ c \in CoordinatorPC
      BY <2>2 DEF CoordinatorPC
    <3>3. pushed \in [RunId -> 0 .. NumJobs] /\ cpc \in [RunId -> CoordinatorPC]
      BY DEF TypeOK
    <3> HIDE DEF l, c
    <3> QED
      BY ONLY <3>1, <3>2, <3>3
  <2>4. UNCHANGED <<results, keys, report, disturbed, agentVars>>
    BY <1>2 DEF PushJobs, PushJobsAgain
  <2>5. faults' \in Nat /\ retries' \in Nat /\ faults' + retries' <= MaxMishaps
    BY <1>2 DEF PushJobs, PushJobsAgain
  <2> QED
    BY <2>2, <2>3, <2>4, <2>5
<1>3. ASSUME NEW r \in RunId, Poll(r) \/ ReadResults(r) \/ ReadAgents(r) \/ FailCoordinator(r)
      PROVE  (TypeOK /\ HandInv)'
  <2>1. cpc' \in [RunId -> CoordinatorPC]
    BY <1>3 DEF Poll, ReadResults, ReadAgents, FailCoordinator, CoordinatorPC
  <2>2. report' \in [RunId -> Items]
    BY <1>3 DEF Poll, ReadResults, ReadAgents, FailCoordinator
  <2>3. /\ UNCHANGED <<queue, results, keys, pushed, disturbed, agentVars>>
        /\ faults' \in Nat /\ retries' \in Nat /\ faults' + retries' <= MaxMishaps
    BY <1>3 DEF Poll, ReadResults, ReadAgents, FailCoordinator
  <2> QED
    BY <2>1, <2>2, <2>3
<1>4. ASSUME NEW w \in Worker, PopJob(w) \/ PopJobAgain(w) \/ FailPopJob(w)
      PROVE  (TypeOK /\ HandInv)'
  <2>1. queue # <<>> => Tail(queue) \in Seq(Job) /\ Head(queue) \in Job
    BY HeadTailProperties
  <2>2. queue' \in Seq(Job)
    BY <1>4, <2>1 DEF PopJob, PopJobAgain, FailPopJob
  <2>3. wpc' \in [Worker -> {"pop", "exec", "push", "gone"}] /\ hand' \in [Worker -> Job \cup {NoJob}]
        /\ HandInv'
    BY <1>4, <2>1 DEF PopJob, PopJobAgain, FailPopJob
  <2>4. UNCHANGED <<results, coordinatorVars, interrupted>>
        /\ faults' \in Nat /\ retries' \in Nat /\ faults' + retries' <= MaxMishaps
    BY <1>4 DEF PopJob, PopJobAgain, FailPopJob
  <2> QED
    BY <2>2, <2>3, <2>4
<1>5. ASSUME NEW w \in Worker, PushResult(w) \/ PushResultAgain(w)
      PROVE  (TypeOK /\ HandInv)'
  <2>1. hand[w] \in Job
    BY <1>5 DEF PushResult, PushResultAgain
  <2>2. results' = [results EXCEPT ![hand[w].run][hand[w].id] = @ + 1]
    BY <1>5 DEF PushResult, PushResultAgain
  <2>3. results' \in [RunId -> Items]
    BY <2>1, <2>2, ResultType
  <2>4. /\ wpc' \in [Worker -> {"pop", "exec", "push", "gone"}] /\ hand' \in [Worker -> Job \cup {NoJob}]
        /\ HandInv'
    BY <1>5 DEF PushResult, PushResultAgain
  <2>5. UNCHANGED <<queue, coordinatorVars, interrupted>>
        /\ faults' \in Nat /\ retries' \in Nat /\ faults' + retries' <= MaxMishaps
    BY <1>5 DEF PushResult, PushResultAgain
  <2> QED
    BY <2>3, <2>4, <2>5
<1>6. ASSUME NEW w \in Worker, IdleExit(w) \/ Execute(w) \/ FailPushResult(w)
      PROVE  (TypeOK /\ HandInv)'
  <2>1. /\ wpc' \in [Worker -> {"pop", "exec", "push", "gone"}] /\ hand' \in [Worker -> Job \cup {NoJob}]
        /\ HandInv'
    BY <1>6 DEF IdleExit, Execute, FailPushResult
  <2>2. /\ UNCHANGED <<queue, results, coordinatorVars, interrupted>>
        /\ faults' \in Nat /\ retries' \in Nat /\ faults' + retries' <= MaxMishaps
    BY <1>6 DEF IdleExit, Execute, FailPushResult
  <2> QED
    BY <2>1, <2>2
<1>7. ASSUME NEW a \in Agent, Interrupt(a) \/ Crash(a)
      PROVE  (TypeOK /\ HandInv)'
  BY <1>7 DEF Interrupt, Crash
<1>8. CASE UNCHANGED vars
  BY <1>8 DEF vars
<1> QED
  BY <1>1, <1>2, <1>3, <1>4, <1>5, <1>6, <1>7, <1>8 DEF Next, Coordinator, Agents, Rest

(* The types of the Redis lists, the coordinators and the agents.          *)
THEOREM TypeCorrect == Spec => [](TypeOK /\ HandInv)
BY TypeInit, TypeStep, PTL DEF Spec

-----------------------------------------------------------------------------
(* A job is in one place.                                                  *)

Holders(h, b) == {w \in Worker : h[w] = b}
Hold(h, b) == Cardinality(Holders(h, b))

LEMMA HoldType == \A h, b : IsFiniteSet(Holders(h, b)) /\ Hold(h, b) \in Nat
<1> SUFFICES ASSUME NEW h, NEW b PROVE IsFiniteSet(Holders(h, b)) /\ Hold(h, b) \in Nat
  OBVIOUS
<1>1. Holders(h, b) \in SUBSET Worker
  BY DEF Holders
<1>2. IsFiniteSet(Holders(h, b))
  BY <1>1, WorkersFinite, FS_Subset
<1> QED
  BY <1>2, FS_CardinalityType DEF Hold

(* One worker w changes what it holds. *)
LEMMA HoldChanges ==
    ASSUME NEW h, NEW g, NEW w \in Worker, NEW b,
           \A v \in Worker \ {w} : g[v] = h[v]
    PROVE  /\ h[w] = b /\ g[w] # b => Hold(g, b) = Hold(h, b) - 1
           /\ h[w] # b /\ g[w] = b => Hold(g, b) = Hold(h, b) + 1
           /\ h[w] # b /\ g[w] # b => Hold(g, b) = Hold(h, b)
<1> DEFINE A == Holders(h, b)
           B == A \ {w}
<1>1. /\ IsFiniteSet(A) /\ Cardinality(A) \in Nat /\ IsFiniteSet(B)
      /\ Cardinality(B) = Cardinality(A) - (IF h[w] = b THEN 1 ELSE 0)
  <2>1. w \in A <=> h[w] = b
    BY DEF Holders
  <2>2. IsFiniteSet(A) /\ Cardinality(A) \in Nat
    BY HoldType, FS_CardinalityType
  <2> HIDE DEF A
  <2>3. IsFiniteSet(B) /\ Cardinality(B) = IF w \in A THEN Cardinality(A) - 1 ELSE Cardinality(A)
    BY <2>2, FS_RemoveElement
  <2> QED
    BY <2>1, <2>2, <2>3
<1>2. Holders(g, b) = IF g[w] = b THEN B \cup {w} ELSE B
  BY DEF Holders
<1>3. Cardinality(B \cup {w}) = Cardinality(B) + 1
  <2>1. w \notin B
    OBVIOUS
  <2> HIDE DEF B
  <2> QED
    BY <1>1, <2>1, FS_AddElement
<1>4. Cardinality(B) \in Nat
  BY <1>1, FS_CardinalityType
<1> QED
  BY <1>1, <1>2, <1>3, <1>4 DEF Hold

LEMMA PlacesNow ==
    ASSUME TypeOK, NEW b \in Job
    PROVE  /\ Queued(b) = Occurs(queue, b) /\ Held(b) = Hold(hand, b)
           /\ Queued(b)' = Occurs(queue', b) /\ Held(b)' = Hold(hand', b)
           /\ Occurs(queue, b) \in Nat /\ Hold(hand, b) \in Nat /\ Finished(b) \in Nat
<1>1. /\ Queued(b) = Occurs(queue, b) /\ Held(b) = Hold(hand, b)
      /\ Queued(b)' = Occurs(queue', b) /\ Held(b)' = Hold(hand', b)
  BY DEF Queued, Held, Occurs, Places, Hold, Holders
<1>2. Occurs(queue, b) \in Nat /\ Hold(hand, b) \in Nat
  BY OccursType, HoldType DEF TypeOK
<1>3. Finished(b) \in Nat
  BY JobType DEF Finished, TypeOK, Items
<1> QED
  BY <1>1, <1>2, <1>3

(* Before a job is pushed there is none of it but for repeated commands.   *)
Credit(b) == IF b.id <= pushed[b.run] THEN 1 ELSE 0
PlaceInv == \A b \in Job : Queued(b) + Held(b) + Finished(b) <= Credit(b) + retries

(* A step adds at most n to what there is of job b beyond its credit. *)
Adds(b, n) == (Queued(b) + Held(b) + Finished(b))' + Credit(b)
                  <= Queued(b) + Held(b) + Finished(b) + Credit(b)' + n

(* The jobs that a repeated command adds once more: a chunk, or a result.  *)
Repeated(b) ==
    \/ \E r \in RunId : PushJobsAgain(r) /\ b.run = r /\ b.id \in pushed[r] + 1 .. LastOf(r)
    \/ \E w \in Worker : PushResultAgain(w) /\ b = hand[w]

Moved(b) ==
    \/ retries' \in {retries, retries + 1} /\ Adds(b, 0)
    \/ retries' = retries + 1 /\ Adds(b, 1) /\ Repeated(b)

(* Every command hands a job on from one place to the next. *)
LEMMA MoveStep ==
    ASSUME TypeOK, HandInv, [Next]_vars, NEW b \in Job
    PROVE  Moved(b)
<1> DEFINE q == Occurs(queue, b)
           h == Hold(hand, b)
           f == Finished(b)
           q1 == Occurs(queue', b)
           h1 == Hold(hand', b)
<1>0. /\ q \in Nat /\ h \in Nat /\ f \in Nat
      /\ Credit(b) \in {0, 1} /\ retries \in Nat
  BY PlacesNow DEF TypeOK, Credit
<1>a. TypeOK'
  BY TypeStep
<1>b. q1 \in Nat /\ h1 \in Nat /\ Finished(b)' \in Nat /\ Credit(b)' \in {0, 1} /\ retries' \in Nat
  <2>1. q1 \in Nat /\ h1 \in Nat
    BY <1>a, OccursType, HoldType DEF TypeOK
  <2>2. Finished(b)' \in Nat /\ Credit(b)' \in {0, 1} /\ retries' \in Nat
    BY <1>a, JobType DEF TypeOK, Items, Finished, Credit
  <2> QED
    BY <2>1, <2>2
<1>c. Queued(b)' = q1 /\ Held(b)' = h1
  BY PlacesNow
<1>d. /\ \A n \in {0, 1} : q1 + h1 + Finished(b)' + Credit(b) <= q + h + f + Credit(b)' + n
                                 => Adds(b, n)
      /\ q1 + h1 + Finished(b)' + Credit(b) <= q + h + f + Credit(b)'
            /\ retries' \in {retries, retries + 1} => Moved(b)
  BY <1>0, <1>b, <1>c, PlacesNow DEF Adds, Moved
<1> HIDE DEF q, h, f, q1, h1
<1>e. b.run \in RunId /\ b.id \in 1 .. NumJobs /\ b # NoJob /\ pushed[b.run] \in 0 .. NumJobs
  BY JobType DEF TypeOK
<1> USE DEF coordinatorVars, agentVars, budgetVars, Fault, Repeat
<1>1. CASE UNCHANGED <<queue, hand, results, pushed>> /\ retries' = retries
  BY <1>0, <1>1, <1>b, <1>d DEF q, h, f, q1, h1, Finished, Credit
<1>2. ASSUME NEW r \in RunId, FlushQueue(r) PROVE Moved(b)
  <2>1. queue' = <<>> /\ UNCHANGED <<hand, results, pushed, retries>>
    BY <1>2 DEF FlushQueue
  <2>2. q1 = 0
    <3>1. Places(<<>>, b) = {}
      BY DEF Places
    <3> QED
      BY <2>1, <3>1, FS_EmptySet DEF q1, Occurs
  <2> QED
    BY <1>0, <1>b, <1>d, <2>1, <2>2 DEF h, f, h1, Finished, Credit
<1>3. ASSUME NEW r \in RunId, DeleteResults(r) PROVE Moved(b)
  <2>1. UNCHANGED <<queue, hand, pushed, retries>>
    BY <1>3 DEF DeleteResults
  <2>2. Finished(b)' \in {0, f}
    BY <1>3, <1>e DEF DeleteResults, Finished, Empty, f
  <2> QED
    BY <1>0, <1>b, <1>d, <2>1, <2>2 DEF q, h, q1, h1, Credit
<1>4. ASSUME NEW r \in RunId, PushJobs(r) \/ PushJobsAgain(r)
      PROVE  Moved(b)
  <2> DEFINE c == Reverse(Chunk(r, LastOf(r)))
             new == b.run = r /\ b.id \in pushed[r] + 1 .. LastOf(r)
  <2>1. /\ c \in Seq(Job) /\ LastOf(r) \in pushed[r] .. NumJobs
        /\ Occurs(c, b) <= IF new THEN 1 ELSE 0
    BY OccursInChunk
  <2>2. queue' = c \o queue /\ UNCHANGED <<hand, results>>
    BY <1>4 DEF PushJobs, PushJobsAgain
  <2> HIDE DEF c
  <2>3. q1 <= Occurs(c, b) + q /\ Occurs(c, b) \in Nat
    BY <2>1, <2>2, OccursPushed, OccursType DEF TypeOK, q, q1
  <2>4. h1 = h /\ Finished(b)' = f
    BY <2>2 DEF h, h1, f, Finished
  <2>5. CASE PushJobs(r)
    <3>1. retries' = retries /\ pushed' = [pushed EXCEPT ![r] = LastOf(r)]
      BY <2>5 DEF PushJobs
    <3>2. pushed'[b.run] = IF b.run = r THEN LastOf(r) ELSE pushed[b.run]
      BY <1>e, <3>1 DEF TypeOK
    <3>3. pushed[r] \in Nat
      BY DEF TypeOK
    <3>4. (IF new THEN 1 ELSE 0) + Credit(b) <= Credit(b)'
      BY <1>e, <2>1, <3>2, <3>3 DEF Credit
    <3>5. Occurs(c, b) + Credit(b) <= Credit(b)'
      BY <1>0, <1>b, <2>1, <2>3, <3>4
    <3> QED
      BY <1>0, <1>b, <1>d, <2>3, <2>4, <3>1, <3>5
  <2>6. CASE PushJobsAgain(r)
    <3>1. retries' = retries + 1 /\ Credit(b)' = Credit(b)
      BY <2>6 DEF PushJobsAgain, Credit
    <3>2. CASE new
      <4>1. Repeated(b)
        BY <2>6, <3>2 DEF Repeated
      <4>2. Adds(b, 1)
        BY <1>0, <1>b, <1>d, <2>1, <2>3, <2>4, <3>1, <3>2
      <4> QED
        BY <3>1, <4>1, <4>2 DEF Moved
    <3>3. CASE ~ new
      BY <1>0, <1>b, <1>d, <2>1, <2>3, <2>4, <3>1, <3>3
    <3> QED
      BY <3>2, <3>3
  <2> QED
    BY <1>4, <2>5, <2>6
<1>5. ASSUME NEW w \in Worker, PopJob(w)
      PROVE  Moved(b)
  <2>1. /\ queue # <<>> /\ queue' = Tail(queue) /\ hand' = [hand EXCEPT ![w] = Head(queue)]
        /\ UNCHANGED <<results, pushed, retries>> /\ hand[w] # b
    BY <1>5, <1>e DEF PopJob, HandInv
  <2>2. q1 + (IF Head(queue) = b THEN 1 ELSE 0) <= q
    BY <2>1, OccursPopped DEF TypeOK, q, q1
  <2>3. h1 = h + (IF Head(queue) = b THEN 1 ELSE 0)
    <3>1. /\ hand[w] # b /\ (Head(queue) = b <=> hand'[w] = b)
          /\ \A v \in Worker \ {w} : hand'[v] = hand[v]
      BY <2>1 DEF TypeOK
    <3>2. /\ Head(queue) = b => Hold(hand', b) = Hold(hand, b) + 1
          /\ Head(queue) # b => Hold(hand', b) = Hold(hand, b)
      <4>1. CASE hand'[w] = b
        BY <3>1, <4>1, HoldChanges
      <4>2. CASE hand'[w] # b
        BY <3>1, <4>2, HoldChanges
      <4> QED
        BY <4>1, <4>2
    <3> QED
      BY <1>0, <3>2 DEF h, h1
  <2>4. Finished(b)' = f /\ Credit(b)' = Credit(b) /\ retries' = retries
    BY <2>1 DEF f, Finished, Credit
  <2> QED
    BY <1>0, <1>b, <1>d, <2>2, <2>3, <2>4
<1>6. ASSUME NEW w \in Worker, PopJobAgain(w) \/ FailPopJob(w)
      PROVE  Moved(b)
  <2>1. /\ queue' = queue \/ (queue # <<>> /\ queue' = Tail(queue))
        /\ UNCHANGED <<results, pushed, hand>> /\ retries' \in {retries, retries + 1}
    BY <1>0, <1>6 DEF PopJobAgain, FailPopJob
  <2>2. q1 <= q
    <3>1. queue # <<>> => Occurs(Tail(queue), b) <= q
      <4>1. queue # <<>> => Occurs(Tail(queue), b) + (IF Head(queue) = b THEN 1 ELSE 0) <= q
        BY OccursPopped DEF TypeOK, q
      <4>2. queue # <<>> => Occurs(Tail(queue), b) \in Nat
        BY HeadTailProperties, OccursType DEF TypeOK
      <4> QED
        BY <1>0, <4>1, <4>2
    <3>2. CASE queue' = queue
      BY <1>0, <3>2 DEF q, q1
    <3>3. CASE queue # <<>> /\ queue' = Tail(queue)
      BY <3>1, <3>3 DEF q1
    <3> QED
      BY <2>1, <3>2, <3>3
  <2>3. Finished(b)' = f /\ Credit(b)' = Credit(b) /\ h1 = h
    BY <2>1 DEF f, h, h1, Finished, Credit
  <2> QED
    BY <1>0, <1>b, <1>d, <2>1, <2>2, <2>3
<1>7. ASSUME NEW w \in Worker, PushResult(w)
      PROVE  Moved(b)
  <2>1. /\ hand[w] \in Job /\ results' = [results EXCEPT ![hand[w].run][hand[w].id] = @ + 1]
        /\ hand' = [hand EXCEPT ![w] = NoJob] /\ UNCHANGED <<queue, pushed, retries>>
    BY <1>7 DEF PushResult, HandInv
  <2>2. Finished(b)' = IF b = hand[w] THEN f + 1 ELSE f
    BY <2>1, ResultType DEF f, Finished
  <2>3. h1 = h - (IF hand[w] = b THEN 1 ELSE 0)
    <3>1. hand'[w] # b /\ \A v \in Worker \ {w} : hand'[v] = hand[v]
      BY <1>e, <2>1 DEF TypeOK
    <3>2. /\ hand[w] = b => Hold(hand', b) = Hold(hand, b) - 1
          /\ hand[w] # b => Hold(hand', b) = Hold(hand, b)
      BY ONLY <3>1, HoldChanges, w \in Worker
    <3> QED
      BY <1>0, <3>2 DEF h, h1
  <2>4. q1 = q /\ Credit(b)' = Credit(b) /\ retries' = retries
    BY <2>1 DEF q, q1, Credit
  <2> QED
    BY <1>0, <1>b, <1>d, <2>2, <2>3, <2>4
<1>8. ASSUME NEW w \in Worker, PushResultAgain(w)
      PROVE  Moved(b)
  <2>1. /\ hand[w] \in Job /\ results' = [results EXCEPT ![hand[w].run][hand[w].id] = @ + 1]
        /\ UNCHANGED <<queue, pushed, hand>> /\ retries' = retries + 1
    BY <1>8 DEF PushResultAgain, HandInv
  <2>2. Finished(b)' = IF b = hand[w] THEN f + 1 ELSE f
    BY <2>1, ResultType DEF f, Finished
  <2>4. q1 = q /\ h1 = h /\ Credit(b)' = Credit(b)
    BY <2>1 DEF q, q1, h, h1, Credit
  <2>5. CASE b = hand[w]
    <3>1. Repeated(b)
      BY <1>8, <2>5 DEF Repeated
    <3>2. Adds(b, 1)
      BY <1>0, <1>b, <1>d, <2>2, <2>4, <2>5
    <3> QED
      BY <2>1, <3>1, <3>2 DEF Moved
  <2>6. CASE b # hand[w]
    BY <1>0, <1>b, <1>d, <2>1, <2>2, <2>4, <2>6
  <2> QED
    BY <2>5, <2>6
<1>9. ASSUME NEW w \in Worker, FailPushResult(w)
      PROVE  Moved(b)
  <2>1. /\ hand' = [hand EXCEPT ![w] = NoJob] /\ UNCHANGED <<queue, results, pushed, retries>>
    BY <1>9 DEF FailPushResult
  <2>2. h1 = h - (IF hand[w] = b THEN 1 ELSE 0)
    <3>1. hand'[w] # b /\ \A v \in Worker \ {w} : hand'[v] = hand[v]
      BY <1>e, <2>1 DEF TypeOK
    <3>2. /\ hand[w] = b => Hold(hand', b) = Hold(hand, b) - 1
          /\ hand[w] # b => Hold(hand', b) = Hold(hand, b)
      BY ONLY <3>1, HoldChanges, w \in Worker
    <3> QED
      BY <1>0, <3>2 DEF h, h1
  <2>3. q1 = q /\ Finished(b)' = f /\ Credit(b)' = Credit(b) /\ retries' = retries
    BY <2>1 DEF q, q1, f, Finished, Credit
  <2> QED
    BY <1>0, <1>b, <1>d, <2>2, <2>3
<1>10. ASSUME NEW a \in Agent, Crash(a)
       PROVE  Moved(b)
  <2>1. /\ hand' = [w \in Worker |-> IF w[1] = a THEN NoJob ELSE hand[w]]
        /\ UNCHANGED <<queue, results, pushed, retries>>
    BY <1>10 DEF Crash
  <2>2. Holders(hand', b) \in SUBSET Holders(hand, b)
    BY <1>e, <2>1 DEF Holders
  <2>3. h1 <= h
    BY <2>2, HoldType, FS_Subset DEF h, h1, Hold
  <2>4. q1 = q /\ Finished(b)' = f /\ Credit(b)' = Credit(b) /\ retries' = retries
    BY <2>1 DEF q, q1, f, Finished, Credit
  <2> QED
    BY <1>0, <1>b, <1>d, <2>3, <2>4
<1>11. ASSUME \/ \E r \in RunId : ScanResults(r) \/ Poll(r) \/ ReadResults(r) \/ ReadAgents(r) \/ FailCoordinator(r)
              \/ \E w \in Worker : IdleExit(w) \/ Execute(w)
              \/ \E a \in Agent : Interrupt(a)
              \/ UNCHANGED vars
       PROVE  Moved(b)
  <2>1. UNCHANGED <<queue, hand, results, pushed>> /\ retries' = retries
    BY <1>11 DEF ScanResults, Poll, ReadResults, ReadAgents, FailCoordinator, IdleExit, Execute,
                 Interrupt, vars
  <2> QED
    BY <1>1, <2>1
<1> QED
  BY <1>2, <1>3, <1>4, <1>5, <1>6, <1>7, <1>8, <1>9, <1>10, <1>11
     DEF Next, Coordinator, Agents, Rest

LEMMA MoveNumbers ==
    ASSUME TypeOK, HandInv, [Next]_vars, NEW b \in Job
    PROVE  /\ Queued(b) \in Nat /\ Held(b) \in Nat /\ Finished(b) \in Nat
           /\ Credit(b) \in {0, 1} /\ retries \in Nat
           /\ (Queued(b) + Held(b) + Finished(b))' \in Nat
           /\ Credit(b)' \in {0, 1} /\ retries' \in Nat
<1>1. /\ Queued(b) \in Nat /\ Held(b) \in Nat /\ Finished(b) \in Nat
      /\ Credit(b) \in {0, 1} /\ retries \in Nat
  BY PlacesNow DEF TypeOK, Credit
<1>2. TypeOK'
  BY TypeStep
<1>3. Queued(b)' \in Nat /\ Held(b)' \in Nat
  BY <1>2, PlacesNow, OccursType, HoldType DEF TypeOK
<1>4. Finished(b)' \in Nat /\ Credit(b)' \in {0, 1} /\ retries' \in Nat
  BY <1>2, JobType DEF TypeOK, Items, Finished, Credit
<1> QED
  BY <1>1, <1>3, <1>4

LEMMA PlaceStep == TypeOK /\ HandInv /\ PlaceInv /\ [Next]_vars => PlaceInv'
<1> SUFFICES ASSUME TypeOK, HandInv, PlaceInv, [Next]_vars, NEW b \in Job
             PROVE  (Queued(b) + Held(b) + Finished(b) <= Credit(b) + retries)'
  BY DEF PlaceInv, Job, JobOf
<1>1. Moved(b) /\ Queued(b) + Held(b) + Finished(b) <= Credit(b) + retries
  BY MoveStep DEF PlaceInv
<1> QED
  BY <1>1, MoveNumbers DEF Moved, Adds

LEMMA PlaceInit == Init => PlaceInv
<1> SUFFICES ASSUME Init, NEW b \in Job
             PROVE  Queued(b) + Held(b) + Finished(b) <= Credit(b) + retries
  BY DEF PlaceInv
<1>1. queue = <<>> /\ retries = 0 /\ b.run \in RunId /\ b.id \in 1 .. NumJobs /\ b # NoJob
  BY JobType DEF Init
<1>2. Queued(b) = 0
  <2>1. {k \in DOMAIN queue : queue[k] = b} = {}
    BY <1>1
  <2> QED
    BY <2>1, FS_EmptySet DEF Queued
<1>3. Held(b) = 0
  <2>1. {w \in Worker : hand[w] = b} = {}
    BY <1>1 DEF Init
  <2> QED
    BY <2>1, FS_EmptySet DEF Held
<1>4. Finished(b) = 0 /\ Credit(b) \in {0, 1}
  BY <1>1, ConstantsType DEF Init, Finished, Empty, Credit
<1> QED
  BY <1>1, <1>2, <1>3, <1>4

(* No request is sent by two agents, and no result counted twice, unless a *)
(* command was repeated: LPUSH and BLPOP hand each job on to one place,    *)
(* whatever is flushed, interrupted or lost in between (queue.go:17-95).   *)
THEOREM JobsAreInOnePlace == Spec => []OnePlace
<1>1. TypeOK /\ PlaceInv => OnePlace
  <2> SUFFICES ASSUME TypeOK, PlaceInv, NEW b \in Job
               PROVE  Queued(b) + Held(b) + Finished(b) <= 1 + retries
    BY DEF OnePlace
  <2>1. Queued(b) + Held(b) + Finished(b) <= Credit(b) + retries /\ Credit(b) \in {0, 1}
    BY DEF PlaceInv, Credit
  <2>2. Queued(b) \in Nat /\ Held(b) \in Nat /\ Finished(b) \in Nat /\ retries \in Nat
    BY PlacesNow DEF TypeOK
  <2> QED
    BY <2>1, <2>2
<1> QED
  BY <1>1, TypeInit, TypeStep, PlaceInit, PlaceStep, PTL DEF Spec
-----------------------------------------------------------------------------
(* What can be lost.                                                       *)

(* A pushed job of a run is missing when it is nowhere: not in the queue,  *)
(* in no hand, and without a result.                                       *)
Kept(b) ==
    \/ \E k \in DOMAIN queue : queue[k] = b
    \/ \E w \in Worker : hand[w] = b
    \/ results[b.run][b.id] # 0
Lost(r) == {b \in JobOf(r) : b.id <= pushed[r] /\ ~ Kept(b)}
Gone == {w \in Worker : wpc[w] = "gone"}

LEMMA NowhereInList ==
    ASSUME NEW S, NEW s \in Seq(S), NEW b
    PROVE  Occurs(s, b) = 0 <=> ~ \E k \in DOMAIN s : s[k] = b
<1>1. IsFiniteSet(Places(s, b))
  BY OccursType
<1>2. Occurs(s, b) = 0 <=> Places(s, b) = {}
  BY <1>1, FS_EmptySet DEF Occurs
<1> QED
  BY <1>2 DEF Places

LEMMA InNoHand ==
    ASSUME NEW h, NEW b
    PROVE  Hold(h, b) = 0 <=> ~ \E w \in Worker : h[w] = b
<1>1. Hold(h, b) = 0 <=> Holders(h, b) = {}
  BY HoldType, FS_EmptySet DEF Hold
<1> QED
  BY <1>1 DEF Holders

LEMMA MissingIsLost ==
    ASSUME TypeOK, NEW r \in RunId
    PROVE  Missing(r) = Lost(r)
<1>1. ASSUME NEW b \in JobOf(r)
      PROVE  Queued(b) + Held(b) + Finished(b) = 0 <=> ~ Kept(b)
  <2>1. b \in Job
    BY DEF Job
  <2>2. /\ Queued(b) = Occurs(queue, b) /\ Held(b) = Hold(hand, b)
        /\ Occurs(queue, b) \in Nat /\ Hold(hand, b) \in Nat /\ Finished(b) \in Nat
    BY <2>1, PlacesNow
  <2>3. Queued(b) + Held(b) + Finished(b) = 0 <=> Queued(b) = 0 /\ Held(b) = 0 /\ Finished(b) = 0
    BY <2>2
  <2>4. Queued(b) = 0 <=> ~ \E k \in DOMAIN queue : queue[k] = b
    BY <2>2, NowhereInList DEF TypeOK
  <2>5. Held(b) = 0 <=> ~ \E w \in Worker : hand[w] = b
    BY <2>2, InNoHand
  <2> QED
    BY <2>3, <2>4, <2>5 DEF Kept, Finished
<1> QED
  BY <1>1 DEF Missing, Lost

LEMMA LostFinite == \A r \in RunId : IsFiniteSet(JobOf(r)) /\ IsFiniteSet(Lost(r))
<1> SUFFICES ASSUME NEW r \in RunId PROVE IsFiniteSet(JobOf(r)) /\ IsFiniteSet(Lost(r))
  OBVIOUS
<1> DEFINE f == [i \in 1 .. NumJobs |-> [run |-> r, id |-> i]]
<1>1. f \in Surjection(1 .. NumJobs, JobOf(r))
  BY DEF Surjection, JobOf
<1>2. IsFiniteSet(1 .. NumJobs)
  BY ConstantsType, FS_Interval
<1>3. IsFiniteSet(JobOf(r))
  BY <1>1, <1>2, FS_Surjection
<1> QED
  BY <1>3, FS_Subset DEF Lost

(* Before a run pushes there is nothing to lose; once it does, a job is    *)
(* only lost with a worker or by a repeated command, and the list of a run *)
(* only shrinks when somebody else flushes, which disturbs the run.        *)
LossInv ==
    \A r \in RunId :
        /\ cpc[r] \in {"idle", "scan", "delete"} => pushed[r] = 0
        /\ cpc[r] \in {"push", "poll"} /\ r \notin disturbed =>
               Cardinality(Lost(r)) <= Cardinality(Gone) + retries

(* A step that loses no more than what L holds. *)
LEMMA LossGrows ==
    ASSUME NEW A, NEW B, NEW L, NEW n \in Int, NEW m \in Int,
           IsFiniteSet(A), IsFiniteSet(L), B \subseteq A \cup L,
           Cardinality(A) <= n, Cardinality(L) + n <= m
    PROVE  Cardinality(B) <= m
<1>1. /\ IsFiniteSet(A \cup L) /\ IsFiniteSet(A \cap L)
      /\ Cardinality(A \cup L) = Cardinality(A) + Cardinality(L) - Cardinality(A \cap L)
  <2>1. IsFiniteSet(A \cap L)
    BY FS_Subset
  <2> QED
    BY <2>1, FS_Union
<1>2. /\ Cardinality(A) \in Nat /\ Cardinality(L) \in Nat /\ Cardinality(A \cap L) \in Nat
      /\ Cardinality(A \cup L) \in Nat
  BY <1>1, FS_CardinalityType
<1>3. IsFiniteSet(B) /\ Cardinality(B) <= Cardinality(A \cup L)
  BY <1>1, FS_Subset
<1>4. Cardinality(B) \in Nat
  BY <1>3, FS_CardinalityType
<1> QED
  BY <1>1, <1>2, <1>3, <1>4
LEMMA LossStep == TypeOK /\ HandInv /\ LossInv /\ [Next]_vars => LossInv'
<1> SUFFICES ASSUME TypeOK, HandInv, LossInv, [Next]_vars, NEW r \in RunId
             PROVE  /\ cpc'[r] \in {"idle", "scan", "delete"} => pushed'[r] = 0
                    /\ cpc'[r] \in {"push", "poll"} /\ r \notin disturbed' =>
                           Cardinality(Lost(r)') <= Cardinality(Gone') + retries'
  BY DEF LossInv
<1> USE DEF coordinatorVars, agentVars, budgetVars, Fault, Repeat
<1>a. TypeOK'
  BY TypeStep
<1>1. cpc'[r] \in {"idle", "scan", "delete"} => pushed'[r] = 0
  <2>1. cpc[r] \in {"idle", "scan", "delete"} => pushed[r] = 0
    BY DEF LossInv
  <2>2. ASSUME NEW s \in RunId, FlushQueue(s) \/ ScanResults(s) \/ DeleteResults(s)
        PROVE  cpc'[r] \in {"idle", "scan", "delete"} => pushed'[r] = 0
    BY <2>1, <2>2 DEF FlushQueue, ScanResults, DeleteResults, TypeOK
  <2>3. ASSUME NEW s \in RunId, PushJobs(s) \/ PushJobsAgain(s)
        PROVE  cpc'[r] \in {"idle", "scan", "delete"} => pushed'[r] = 0
    BY <2>1, <2>3 DEF PushJobs, PushJobsAgain, TypeOK
  <2>4. ASSUME NEW s \in RunId, Poll(s) \/ ReadResults(s) \/ ReadAgents(s) \/ FailCoordinator(s)
        PROVE  cpc'[r] \in {"idle", "scan", "delete"} => pushed'[r] = 0
    BY <2>1, <2>4 DEF Poll, ReadResults, ReadAgents, FailCoordinator, TypeOK
  <2>5. CASE UNCHANGED <<cpc, pushed>>
    BY <2>1, <2>5
  <2>6. ASSUME NEW w \in Worker,
               \/ PopJob(w) \/ PopJobAgain(w) \/ FailPopJob(w) \/ IdleExit(w) \/ Execute(w)
               \/ PushResult(w) \/ PushResultAgain(w) \/ FailPushResult(w)
        PROVE  UNCHANGED <<cpc, pushed>>
    BY <2>6 DEF PopJob, PopJobAgain, FailPopJob, IdleExit, Execute, PushResult, PushResultAgain,
                FailPushResult
  <2>7. ASSUME NEW a \in Agent, Interrupt(a) \/ Crash(a) PROVE UNCHANGED <<cpc, pushed>>
    BY <2>7 DEF Interrupt, Crash
  <2> QED
    BY <2>2, <2>3, <2>4, <2>5, <2>6, <2>7 DEF Next, Coordinator, Agents, Rest, vars
<1>2. SUFFICES ASSUME cpc'[r] \in {"push", "poll"}, r \notin disturbed'
               PROVE  Cardinality(Lost(r)') <= Cardinality(Gone') + retries'
  BY <1>1
<1>3. /\ IsFiniteSet(Gone) /\ IsFiniteSet(Gone') /\ IsFiniteSet(Lost(r))
      /\ Cardinality(Gone) \in Nat /\ Cardinality(Gone') \in Nat
      /\ retries \in Nat /\ retries' \in Nat
  <2>1. Gone \in SUBSET Worker /\ Gone' \in SUBSET Worker
    BY DEF Gone
  <2>2. IsFiniteSet(Gone) /\ IsFiniteSet(Gone')
    BY <2>1, WorkersFinite, FS_Subset
  <2> QED
    BY <1>a, <2>2, LostFinite, FS_CardinalityType DEF TypeOK
(* A run that is watched after the step was so before, but for its flush.  *)
<1>4. DeleteResults(r) \/ (cpc[r] \in {"push", "poll"} /\ r \notin disturbed)
  <2>1. ASSUME NEW s \in RunId, FlushQueue(s) \/ ScanResults(s) \/ (DeleteResults(s) /\ s # r)
        PROVE  cpc[r] \in {"push", "poll"} /\ r \notin disturbed
    BY <1>2, <2>1 DEF FlushQueue, ScanResults, DeleteResults, TypeOK
  <2>2. ASSUME NEW s \in RunId, PushJobs(s) \/ PushJobsAgain(s)
        PROVE  cpc[r] \in {"push", "poll"} /\ r \notin disturbed
    BY <1>2, <2>2 DEF PushJobs, PushJobsAgain, TypeOK
  <2>3. ASSUME NEW s \in RunId, Poll(s) \/ ReadResults(s) \/ ReadAgents(s) \/ FailCoordinator(s)
        PROVE  cpc[r] \in {"push", "poll"} /\ r \notin disturbed
    BY <1>2, <2>3 DEF Poll, ReadResults, ReadAgents, FailCoordinator, TypeOK
  <2>4. CASE UNCHANGED <<cpc, disturbed>>
    BY <1>2, <2>4
  <2>5. ASSUME NEW w \in Worker,
               \/ PopJob(w) \/ PopJobAgain(w) \/ FailPopJob(w) \/ IdleExit(w) \/ Execute(w)
               \/ PushResult(w) \/ PushResultAgain(w) \/ FailPushResult(w)
        PROVE  UNCHANGED <<cpc, disturbed>>
    BY <2>5 DEF PopJob, PopJobAgain, FailPopJob, IdleExit, Execute, PushResult, PushResultAgain,
                FailPushResult
  <2>6. ASSUME NEW a \in Agent, Interrupt(a) \/ Crash(a) PROVE UNCHANGED <<cpc, disturbed>>
    BY <2>6 DEF Interrupt, Crash
  <2> QED
    BY <2>1, <2>2, <2>3, <2>4, <2>5, <2>6 DEF Next, Coordinator, Agents, Rest, vars
<1>5. ASSUME ~ DeleteResults(r), NEW L, IsFiniteSet(L), Lost(r)' \subseteq Lost(r) \cup L,
             Cardinality(L) + Cardinality(Gone) + retries <= Cardinality(Gone') + retries'
      PROVE  Cardinality(Lost(r)') <= Cardinality(Gone') + retries'
  <2>1. Cardinality(Lost(r)) <= Cardinality(Gone) + retries
    BY <1>4, <1>5 DEF LossInv
  <2>2. Cardinality(L) \in Nat
    BY <1>5, FS_CardinalityType
  <2> DEFINE n == Cardinality(Gone) + retries
             m == Cardinality(Gone') + retries'
  <2>3. n \in Int /\ m \in Int /\ Cardinality(L) + n <= m
    BY <1>3, <1>5, <2>2
  <2> HIDE DEF n, m
  <2>4. Cardinality(Lost(r)) <= n
    BY <2>1 DEF n
  <2>5. Cardinality(Lost(r)') <= m
    BY <1>3, <1>5, <2>3, <2>4, LossGrows
  <2> QED
    BY <2>5 DEF m
(* Nothing is lost, and no worker comes back. *)
<1>6. ASSUME ~ DeleteResults(r), Lost(r)' \subseteq Lost(r), Gone \subseteq Gone', retries <= retries'
      PROVE  Cardinality(Lost(r)') <= Cardinality(Gone') + retries'
  <2>1. Cardinality(Gone) <= Cardinality(Gone')
    BY <1>3, <1>6, FS_Subset
  <2>2. IsFiniteSet({}) /\ Cardinality({}) = 0 /\ Lost(r)' \subseteq Lost(r) \cup {}
    BY <1>6, FS_EmptySet
  <2>3. Cardinality({}) + Cardinality(Gone) + retries <= Cardinality(Gone') + retries'
    BY <1>3, <1>6, <2>1, <2>2
  <2> QED
    BY <1>5, <1>6, <2>2, <2>3
(* One job is lost, to a worker that leaves. *)
<1>7. ASSUME NEW w \in Worker, NEW b, wpc[w] # "gone", wpc' = [wpc EXCEPT ![w] = "gone"],
             retries' = retries, ~ DeleteResults(r), Lost(r)' \subseteq Lost(r) \cup {b}
      PROVE  Cardinality(Lost(r)') <= Cardinality(Gone') + retries'
  <2>1. Gone' = Gone \cup {w} /\ w \notin Gone
    BY <1>7 DEF Gone, TypeOK
  <2>2. Cardinality(Gone') = Cardinality(Gone) + 1
    BY <1>3, <2>1, FS_AddElement
  <2>3. IsFiniteSet({b}) /\ Cardinality({b}) = 1
    BY FS_Singleton
  <2> QED
    BY <1>3, <1>5, <1>7, <2>2, <2>3
<1>8. ASSUME NEW s \in RunId, FlushQueue(s)
      PROVE  Cardinality(Lost(r)') <= Cardinality(Gone') + retries'
  <2>1. cpc[r] \in {"push", "poll"}
    BY <1>2, <1>8 DEF FlushQueue, TypeOK
  <2>2. s # r /\ r \in disturbed'
    BY <1>2, <1>8, <2>1 DEF FlushQueue, TypeOK, Others, Live
  <2> QED
    BY <1>2, <2>2
<1>9. ASSUME NEW s \in RunId, DeleteResults(s)
      PROVE  Cardinality(Lost(r)') <= Cardinality(Gone') + retries'
  <2>1. UNCHANGED <<queue, hand, pushed, wpc, retries>>
    BY <1>9 DEF DeleteResults
  <2>2. CASE s = r
    <3>1. pushed'[r] = 0
      BY <1>9, <2>1, <2>2 DEF DeleteResults, LossInv
    <3>2. Lost(r)' = {}
      BY <3>1 DEF Lost, JobOf
    <3> QED
      BY <1>3, <3>2, FS_EmptySet
  <2>3. CASE s # r
    <3>1. cpc[r] \in {"push", "poll"}
      BY <1>2, <1>9, <2>3 DEF DeleteResults, TypeOK
    <3>2. r \notin keys[s] /\ ~ DeleteResults(r)
      BY <1>2, <1>9, <2>3, <3>1 DEF DeleteResults, Others, Live
    <3>3. results'[r] = results[r]
      BY <1>9, <3>2 DEF DeleteResults
    <3>4. Lost(r)' = Lost(r) /\ Gone' = Gone
      BY <2>1, <3>3 DEF Lost, Kept, JobOf, Gone
    <3> QED
      BY <1>3, <1>6, <2>1, <3>2, <3>4
  <2> QED
    BY <2>2, <2>3
<1>10. ASSUME NEW s \in RunId, PushJobs(s) \/ PushJobsAgain(s)
       PROVE  Cardinality(Lost(r)') <= Cardinality(Gone') + retries'
  <2> DEFINE c == Reverse(Chunk(s, LastOf(s)))
  <2>1. /\ queue' = c \o queue /\ UNCHANGED <<results, hand, wpc>> /\ retries <= retries'
        /\ ~ DeleteResults(r)
        /\ pushed'[r] = pushed[r] \/ (s = r /\ pushed'[r] = LastOf(r))
    BY <1>2, <1>3, <1>10 DEF PushJobs, PushJobsAgain, DeleteResults, TypeOK
  <2>2. ASSUME NEW b \in Lost(r)' PROVE b \in Lost(r)
    <3>1. b \in JobOf(r) /\ b \in Job /\ b.run = r /\ b.id \in 1 .. NumJobs /\ b.id <= pushed'[r]
      BY <2>2 DEF Lost, Job, JobOf
    <3>2. /\ ~ \E k \in DOMAIN (c \o queue) : (c \o queue)[k] = b
          /\ ~ \E w \in Worker : hand[w] = b
          /\ results[b.run][b.id] = 0
      BY <2>1, <2>2 DEF Lost, Kept
    <3>3. /\ c \in Seq(Job) /\ LastOf(s) \in pushed[s] .. NumJobs
          /\ b.run = s /\ b.id \in pushed[s] + 1 .. LastOf(s) => \E k \in DOMAIN c : c[k] = b
      BY <3>1, OccursInChunk
    <3> HIDE DEF c
    <3>4. /\ \A k \in DOMAIN c : k \in DOMAIN (c \o queue) /\ (c \o queue)[k] = c[k]
          /\ \A k \in DOMAIN queue : \E l \in DOMAIN (c \o queue) : (c \o queue)[l] = queue[k]
      <4> DEFINE u == c \o queue
      <4>1. /\ u \in Seq(Job) /\ Len(u) = Len(c) + Len(queue) /\ Len(c) \in Nat /\ Len(queue) \in Nat
            /\ \A k \in 1 .. Len(c) : u[k] = c[k]
            /\ \A k \in 1 .. Len(queue) : u[Len(c) + k] = queue[k]
            /\ DOMAIN c = 1 .. Len(c) /\ DOMAIN queue = 1 .. Len(queue) /\ DOMAIN u = 1 .. Len(u)
        BY <3>3, ConcatProperties DEF TypeOK
      <4> HIDE DEF u
      <4>2. ASSUME NEW k \in DOMAIN c PROVE k \in DOMAIN u /\ u[k] = c[k]
        BY <4>1
      <4>3. ASSUME NEW k \in DOMAIN queue PROVE \E l \in DOMAIN u : u[l] = queue[k]
        <5>1. Len(c) + k \in DOMAIN u /\ u[Len(c) + k] = queue[k]
          BY <4>1
        <5> QED
          BY <5>1
      <4> QED
        BY <4>2, <4>3 DEF u
    <3>5. ~ \E k \in DOMAIN queue : queue[k] = b
      BY <3>2, <3>4
    <3>6. ~ (b.run = s /\ b.id \in pushed[s] + 1 .. LastOf(s))
      BY <3>2, <3>3, <3>4
    <3>7. b.id <= pushed[r]
      <4>1. pushed[r] \in 0 .. NumJobs
        BY DEF TypeOK
      <4> QED
        BY <2>1, <3>1, <3>3, <3>6, <4>1
    <3> QED
      BY <3>1, <3>2, <3>5, <3>7 DEF Lost, Kept
  <2>3. Gone' = Gone
    BY <2>1 DEF Gone
  <2> QED
    BY <1>6, <2>1, <2>2, <2>3
(* What the list loses when its head is taken. *)
<1>b. queue # <<>> => /\ Tail(queue) \in Seq(Job) /\ Head(queue) \in Job
                      /\ \A k \in DOMAIN queue : queue[k] = Head(queue)
                             \/ \E l \in DOMAIN Tail(queue) : Tail(queue)[l] = queue[k]
  <2> SUFFICES ASSUME queue # <<>>, NEW k \in DOMAIN queue
               PROVE  /\ Tail(queue) \in Seq(Job) /\ Head(queue) \in Job
                      /\ queue[k] = Head(queue) \/ \E l \in DOMAIN Tail(queue) : Tail(queue)[l] = queue[k]
    BY HeadTailProperties DEF TypeOK
  <2>1. /\ Tail(queue) \in Seq(Job) /\ Head(queue) \in Job /\ Head(queue) = queue[1]
        /\ Len(Tail(queue)) = Len(queue) - 1 /\ Len(queue) \in Nat
        /\ \A l \in 1 .. Len(Tail(queue)) : Tail(queue)[l] = queue[l + 1]
    BY HeadTailProperties DEF TypeOK
  <2>2. CASE k = 1
    BY <2>1, <2>2
  <2>3. CASE k # 1
    <3>1. k \in 1 .. Len(queue)
      BY DEF TypeOK
    <3>2. k - 1 \in 1 .. Len(Tail(queue)) /\ (k - 1) + 1 = k
      BY <2>1, <2>3, <3>1
    <3>3. Tail(queue)[k - 1] = queue[k] /\ k - 1 \in DOMAIN Tail(queue)
      BY <2>1, <3>2
    <3> QED
      BY <2>1, <3>3
  <2> QED
    BY <2>2, <2>3
<1>11. ASSUME NEW w \in Worker, PopJob(w)
       PROVE  Cardinality(Lost(r)') <= Cardinality(Gone') + retries'
  <2>1. /\ queue # <<>> /\ queue' = Tail(queue) /\ hand' = [hand EXCEPT ![w] = Head(queue)]
        /\ wpc[w] = "pop" /\ wpc' = [wpc EXCEPT ![w] = "exec"]
        /\ UNCHANGED <<results, pushed, retries>> /\ hand[w] = NoJob
    BY <1>11 DEF PopJob, HandInv
  <2>2. hand'[w] = Head(queue) /\ \A v \in Worker \ {w} : hand'[v] = hand[v]
    BY <2>1 DEF TypeOK
  <2>3. ASSUME NEW b \in Lost(r)' PROVE b \in Lost(r)
    <3>1. b \in JobOf(r) /\ b # NoJob /\ b.id <= pushed[r] /\ results[b.run][b.id] = 0
      BY <2>1, <2>3, JobType DEF Lost, Kept, Job
    <3>2. ~ \E v \in Worker : hand'[v] = b
      BY <2>3 DEF Lost, Kept
    <3>3. ~ \E v \in Worker : hand[v] = b
      BY <2>1, <2>2, <3>1, <3>2
    <3>4. Head(queue) # b
      BY <2>2, <3>2
    <3>5. ~ \E k \in DOMAIN Tail(queue) : Tail(queue)[k] = b
      BY <2>1, <2>3 DEF Lost, Kept
    <3> QED
      BY <1>b, <2>1, <3>1, <3>3, <3>4, <3>5 DEF Lost, Kept
  <2>4. Gone' = Gone
    BY <2>1 DEF Gone, TypeOK
  <2>5. ~ DeleteResults(r)
    BY <1>2, <1>11 DEF PopJob, DeleteResults
  <2> QED
    BY <1>3, <1>6, <2>1, <2>3, <2>4, <2>5
<1>12. ASSUME NEW w \in Worker, PopJobAgain(w) \/ FailPopJob(w)
       PROVE  Cardinality(Lost(r)') <= Cardinality(Gone') + retries'
  <2>1. /\ queue' = queue \/ (queue # <<>> /\ queue' = Tail(queue))
        /\ UNCHANGED <<results, pushed, hand, cpc>> /\ wpc[w] = "pop"
        /\ ~ DeleteResults(r)
    BY <1>2, <1>12 DEF PopJobAgain, FailPopJob, DeleteResults
  <2>2. Lost(r)' \subseteq Lost(r) \cup {Head(queue)}
    <3> SUFFICES ASSUME NEW b \in Lost(r)', b # Head(queue) PROVE b \in Lost(r)
      OBVIOUS
    <3>1. /\ b \in JobOf(r) /\ b.id <= pushed[r] /\ results[b.run][b.id] = 0
          /\ ~ \E v \in Worker : hand[v] = b
          /\ ~ \E k \in DOMAIN queue' : queue'[k] = b
      BY <2>1 DEF Lost, Kept
    <3>2. ~ \E k \in DOMAIN queue : queue[k] = b
      <4>1. CASE queue' = queue
        BY <3>1, <4>1
      <4>2. CASE queue # <<>> /\ queue' = Tail(queue)
        BY <1>b, <3>1, <4>2
      <4> QED
        BY <2>1, <4>1, <4>2
    <3> QED
      BY <3>1, <3>2 DEF Lost, Kept
  <2>3. CASE PopJobAgain(w)
    <3>1. retries' = retries + 1 /\ Gone' = Gone
      BY <2>3 DEF PopJobAgain, Gone
    <3>2. IsFiniteSet({Head(queue)}) /\ Cardinality({Head(queue)}) = 1
      BY FS_Singleton
    <3>3. Cardinality({Head(queue)}) + Cardinality(Gone) + retries <= Cardinality(Gone') + retries'
      BY <1>3, <3>1, <3>2
    <3> QED
      BY <1>5, <2>1, <2>2, <3>2, <3>3
  <2>4. CASE FailPopJob(w)
    <3>1. wpc' = [wpc EXCEPT ![w] = "gone"] /\ retries' = retries /\ wpc[w] # "gone"
      BY <2>1, <2>4 DEF FailPopJob
    <3> QED
      BY <1>7, <2>1, <2>2, <3>1
  <2> QED
    BY <1>12, <2>3, <2>4
<1>13. ASSUME NEW w \in Worker, PushResult(w) \/ PushResultAgain(w)
       PROVE  Cardinality(Lost(r)') <= Cardinality(Gone') + retries'
  <2>1. /\ hand[w] \in Job /\ results' = [results EXCEPT ![hand[w].run][hand[w].id] = @ + 1]
        /\ UNCHANGED <<queue, pushed, cpc>> /\ retries <= retries'
        /\ hand' = hand \/ hand' = [hand EXCEPT ![w] = NoJob]
        /\ wpc[w] = "push" /\ (wpc' = wpc \/ wpc' = [wpc EXCEPT ![w] = "pop"])
    BY <1>3, <1>13 DEF PushResult, PushResultAgain, HandInv
  <2>2. \A d \in Job : results'[d.run][d.id] =
            IF d = hand[w] THEN results[d.run][d.id] + 1 ELSE results[d.run][d.id]
    BY <2>1, ResultType
  <2>3. \A v \in Worker \ {w} : hand'[v] = hand[v]
    BY <2>1 DEF TypeOK
  <2>4. ASSUME NEW b \in Lost(r)' PROVE b \in Lost(r)
    <3>1. /\ b \in JobOf(r) /\ b \in Job /\ b.id <= pushed[r] /\ results'[b.run][b.id] = 0
          /\ ~ \E v \in Worker : hand'[v] = b
          /\ ~ \E k \in DOMAIN queue : queue[k] = b
      BY <2>1, <2>4 DEF Lost, Kept, Job
    <3>2. results[b.run][b.id] \in Nat
      BY <3>1, JobType DEF TypeOK, Items
    <3>3. b # hand[w] /\ results[b.run][b.id] = 0
      BY <2>2, <3>1, <3>2
    <3>4. ~ \E v \in Worker : hand[v] = b
      BY <2>3, <3>1, <3>3
    <3> QED
      BY <3>1, <3>3, <3>4 DEF Lost, Kept
  <2>5. Gone \subseteq Gone'
    BY <2>1 DEF Gone, TypeOK
  <2>6. ~ DeleteResults(r)
    BY <1>2, <2>1 DEF DeleteResults
  <2> QED
    BY <1>6, <2>1, <2>4, <2>5, <2>6
<1>14. ASSUME NEW w \in Worker, FailPushResult(w)
       PROVE  Cardinality(Lost(r)') <= Cardinality(Gone') + retries'
  <2>1. /\ hand' = [hand EXCEPT ![w] = NoJob] /\ UNCHANGED <<queue, results, pushed, cpc, retries>>
        /\ wpc[w] # "gone" /\ wpc' = [wpc EXCEPT ![w] = "gone"]
    BY <1>14 DEF FailPushResult
  <2>2. \A v \in Worker \ {w} : hand'[v] = hand[v]
    BY <2>1 DEF TypeOK
  <2>3. ASSUME NEW b \in Lost(r)', b # hand[w] PROVE b \in Lost(r)
    BY <2>1, <2>2, <2>3 DEF Lost, Kept
  <2>4. ~ DeleteResults(r)
    BY <1>2, <2>1 DEF DeleteResults
  <2> QED
    BY <1>7, <2>1, <2>3, <2>4
<1>15. ASSUME NEW a \in Agent, Crash(a)
       PROVE  Cardinality(Lost(r)') <= Cardinality(Gone') + retries'
  <2> DEFINE D == {w \in Worker : w[1] = a /\ wpc[w] # "gone"}
             L == {hand[w] : w \in D}
             f == [w \in D |-> hand[w]]
  <2>1. /\ wpc' = [w \in Worker |-> IF w[1] = a THEN "gone" ELSE wpc[w]]
        /\ hand' = [w \in Worker |-> IF w[1] = a THEN NoJob ELSE hand[w]]
        /\ UNCHANGED <<queue, results, pushed, cpc, retries>>
    BY <1>15 DEF Crash
  <2>2. ASSUME NEW b \in Lost(r)', b \notin L PROVE b \in Lost(r)
    <3>1. /\ b \in JobOf(r) /\ b # NoJob /\ b.id <= pushed[r] /\ results[b.run][b.id] = 0
          /\ ~ \E v \in Worker : hand'[v] = b
          /\ ~ \E k \in DOMAIN queue : queue[k] = b
      BY <2>1, <2>2, JobType DEF Lost, Kept, Job
    <3>2. ASSUME NEW v \in Worker PROVE hand[v] # b
      <4>1. CASE v[1] # a
        BY <2>1, <3>1, <4>1
      <4>2. CASE v[1] = a /\ wpc[v] # "gone"
        BY <2>2, <4>2
      <4>3. CASE v[1] = a /\ wpc[v] = "gone"
        BY <3>1, <4>3 DEF HandInv
      <4> QED
        BY <4>1, <4>2, <4>3
    <3> QED
      BY <3>1, <3>2 DEF Lost, Kept
  <2>3. D \in SUBSET Worker /\ IsFiniteSet(D)
    <3>1. D \in SUBSET Worker
      OBVIOUS
    <3> QED
      BY <3>1, WorkersFinite, FS_Subset
  <2>4. Gone' = Gone \cup D /\ Gone \cap D = {}
    BY <2>1 DEF Gone
  <2>5. f \in Surjection(D, L)
    BY DEF Surjection
  <2>6. ~ DeleteResults(r)
    BY <1>2, <2>1 DEF DeleteResults
  <2>7. Lost(r)' \subseteq Lost(r) \cup L
    BY <2>2
  <2> HIDE DEF D, L
  <2>8. IsFiniteSet(L) /\ Cardinality(L) <= Cardinality(D)
    BY <2>3, <2>5, FS_Surjection
  <2>9. Cardinality(Gone') = Cardinality(Gone) + Cardinality(D) - 0
    BY <1>3, <2>3, <2>4, FS_Union, FS_EmptySet
  <2>10. Cardinality(D) \in Nat /\ Cardinality(L) \in Nat
    BY <2>3, <2>8, FS_CardinalityType
  <2>11. Cardinality(L) + Cardinality(Gone) + retries <= Cardinality(Gone') + retries'
    BY <1>3, <2>1, <2>8, <2>9, <2>10
  <2> QED
    BY <1>5, <2>6, <2>7, <2>8, <2>11
<1>16. ASSUME \/ \E s \in RunId : ScanResults(s) \/ Poll(s) \/ ReadResults(s) \/ ReadAgents(s)
                                  \/ FailCoordinator(s)
              \/ \E w \in Worker : IdleExit(w) \/ Execute(w)
              \/ \E a \in Agent : Interrupt(a)
              \/ UNCHANGED vars
       PROVE  Cardinality(Lost(r)') <= Cardinality(Gone') + retries'
  <2>1. /\ UNCHANGED <<queue, hand, results, pushed>> /\ retries' = retries
        /\ \/ wpc' = wpc
           \/ \E w \in Worker : wpc' = [wpc EXCEPT ![w] = "gone"]
           \/ \E w \in Worker : wpc[w] = "exec" /\ wpc' = [wpc EXCEPT ![w] = "push"]
    BY <1>16 DEF ScanResults, Poll, ReadResults, ReadAgents, FailCoordinator, IdleExit, Execute,
                 Interrupt, vars
  <2>2. Lost(r)' = Lost(r)
    BY <2>1 DEF Lost, Kept
  <2>3. Gone \subseteq Gone'
    BY <2>1 DEF Gone, TypeOK
  <2> QED
    BY <1>3, <1>6, <1>9, <2>1, <2>2, <2>3
<1> QED
  BY <1>8, <1>9, <1>10, <1>11, <1>12, <1>13, <1>14, <1>15, <1>16
     DEF Next, Coordinator, Agents, Rest

LEMMA LossInit == Init => LossInv
<1> SUFFICES ASSUME Init PROVE LossInv
  OBVIOUS
<1>1. \A r \in RunId : cpc[r] = "idle" /\ pushed[r] = 0
  BY DEF Init
<1> QED
  BY <1>1 DEF LossInv

(* What a user of run-dist may count on when agents die: each worker that  *)
(* leaves or crashes takes at most the one job it holds with it, and each  *)
(* repeated BLPOP one more (agent.go:64-96, queue.go:33-52, the client's   *)
(* retries).  Nothing else goes missing from a run that nobody flushed.    *)
THEOREM LossIsBounded == Spec => []LossPerWorker
<1>1. TypeOK /\ LossInv => LossPerWorker
  <2> SUFFICES ASSUME TypeOK, LossInv, NEW r \in RunId, cpc[r] = "poll", r \notin disturbed
               PROVE  Cardinality(Missing(r)) <=
                          Cardinality({w \in Worker : wpc[w] = "gone"}) + retries
    BY DEF LossPerWorker
  <2> QED
    BY MissingIsLost DEF LossInv, Gone
<1> QED
  BY <1>1, TypeInit, TypeStep, LossInit, LossStep, PTL DEF Spec

-----------------------------------------------------------------------------
(* What a report holds.                                                    *)

(* The entries of a results list: the copies of every result. *)
Copies(items) == UNION {{k} \X (1 .. items[k]) : k \in DOMAIN items}

LEMMA CopiesAre ==
    ASSUME NEW f \in Items
    PROVE  /\ Copies(f) = {p \in (1 .. NumJobs) \X (Nat \ {0}) : p[2] <= f[p[1]]}
           /\ IsFiniteSet(Copies(f)) /\ Length(f) = Cardinality(Copies(f)) /\ Length(f) \in Nat
<1>1. Copies(f) = {p \in (1 .. NumJobs) \X (Nat \ {0}) : p[2] <= f[p[1]]}
  <2>1. ASSUME NEW k \in 1 .. NumJobs PROVE 1 .. f[k] = {n \in Nat \ {0} : n <= f[k]}
    BY DEF Items
  <2> QED
    BY <2>1 DEF Copies, Items
<1>2. IsFiniteSet(Copies(f))
  <2> DEFINE g == [k \in 1 .. NumJobs |-> {k} \X (1 .. f[k])]
             T == {{k} \X (1 .. f[k]) : k \in DOMAIN f}
  <2>1. g \in Surjection(1 .. NumJobs, T)
    BY DEF Surjection, Items
  <2>2. IsFiniteSet(T)
    BY <2>1, ConstantsType, FS_Interval, FS_Surjection
  <2>3. ASSUME NEW k \in 1 .. NumJobs PROVE IsFiniteSet({k} \X (1 .. f[k]))
    <3>1. IsFiniteSet(1 .. f[k])
      BY FS_Interval DEF Items
    <3> QED
      BY <3>1, FS_Singleton, FS_Product
  <2>4. \A U \in T : IsFiniteSet(U)
    BY <2>3 DEF Items
  <2> QED
    BY <2>2, <2>4, FS_UNION DEF Copies
<1>3. Length(f) = Cardinality(Copies(f))
  BY DEF Length, Copies
<1> QED
  BY <1>1, <1>2, <1>3, FS_CardinalityType

(* A list that has no more of each job than another one, but one more of   *)
(* the jobs in C, is at most that much longer.                             *)
LEMMA LengthBound ==
    ASSUME NEW f \in Items, NEW g \in Items, NEW C \in SUBSET (1 .. NumJobs),
           \A k \in 1 .. NumJobs : f[k] <= g[k] + IF k \in C THEN 1 ELSE 0
    PROVE  /\ IsFiniteSet(C) /\ Cardinality(C) \in Nat
           /\ Length(f) <= Length(g) + Cardinality(C)
<1> DEFINE D == {<<k, g[k] + 1>> : k \in C}
           h == [k \in C |-> <<k, g[k] + 1>>]
<1>0. IsFiniteSet(1 .. NumJobs)
  BY ConstantsType, FS_Interval
<1>1. IsFiniteSet(C) /\ Cardinality(C) \in Nat
  BY <1>0, FS_Subset, FS_CardinalityType
<1>2. h \in Surjection(C, D)
  BY DEF Surjection
<1>3. IsFiniteSet(D) /\ Cardinality(D) <= Cardinality(C) /\ Cardinality(D) \in Nat
  BY <1>1, <1>2, FS_Surjection, FS_CardinalityType
<1>4. Copies(f) \in SUBSET (Copies(g) \cup D)
  <2> SUFFICES ASSUME NEW k \in 1 .. NumJobs, NEW n \in Nat \ {0}, n <= f[k]
               PROVE  <<k, n>> \in Copies(g) \cup D
    BY CopiesAre
  <2>1. f[k] \in Nat /\ g[k] \in Nat
    BY DEF Items
  <2>2. CASE n <= g[k]
    BY <2>2, CopiesAre
  <2>3. CASE n > g[k]
    <3>1. n = g[k] + 1 /\ k \in C
      BY <2>1, <2>3
    <3> QED
      BY <3>1
  <2> QED
    BY <2>1, <2>2, <2>3
<1> HIDE DEF D
<1>5. /\ IsFiniteSet(Copies(g) \cup D)
      /\ Cardinality(Copies(g) \cup D) <= Cardinality(Copies(g)) + Cardinality(D)
  <2>1. IsFiniteSet(Copies(g)) /\ Cardinality(Copies(g)) \in Nat
    BY CopiesAre
  <2>2. Cardinality(Copies(g) \cap D) \in Nat
    BY <2>1, FS_Intersection, FS_CardinalityType
  <2> QED
    BY <1>3, <2>1, <2>2, FS_Union
<1>6. Cardinality(Copies(f)) <= Cardinality(Copies(g) \cup D)
  BY <1>4, <1>5, FS_Subset
<1>7. /\ Length(f) = Cardinality(Copies(f)) /\ Length(g) = Cardinality(Copies(g))
      /\ Length(f) \in Nat /\ Length(g) \in Nat
  BY CopiesAre
<1>8. Cardinality(Copies(g) \cup D) \in Nat
  BY <1>5, FS_CardinalityType
<1> QED
  BY <1>1, <1>3, <1>5, <1>6, <1>7, <1>8

LEMMA LengthMonotone ==
    ASSUME NEW f \in Items, NEW g \in Items, \A k \in 1 .. NumJobs : f[k] <= g[k]
    PROVE  Length(f) <= Length(g)
<1>1. \A k \in 1 .. NumJobs : f[k] <= g[k] + IF k \in {} THEN 1 ELSE 0
  BY DEF Items
<1>2. Length(f) <= Length(g) + Cardinality({})
  BY <1>1, LengthBound
<1>3. Length(g) \in Nat /\ Length(f) \in Nat
  BY CopiesAre
<1> QED
  BY <1>2, <1>3, FS_EmptySet

(* What there is of the jobs of run r beyond one of each that is pushed.   *)
Extra(b) ==
    LET total == Queued(b) + Held(b) + Finished(b)
    IN  IF total > Credit(b) THEN total - Credit(b) ELSE 0
Excess(r) == [k \in 1 .. NumJobs |-> Extra([run |-> r, id |-> k])]

(* Repeated commands bring all of it, a chunk each at most; and what a     *)
(* report has was all there when its coordinator stopped polling.          *)
ExcessInv == \A r \in RunId : Length(Excess(r)) <= retries * ChunkSize
Whole(items) ==
    /\ Length(items) \in NumJobs .. NumJobs + retries * ChunkSize
    /\ Cardinality({k \in 1 .. NumJobs : items[k] > 0}) >= NumJobs - retries * ChunkSize
ReportInv ==
    \A r \in RunId \ disturbed :
        /\ cpc[r] = "read" => Length(results[r]) >= NumJobs
        /\ cpc[r] \in {"agents", "reported"} => Whole(report[r])

LEMMA ExcessType ==
    ASSUME TypeOK, NEW r \in RunId
    PROVE  /\ Excess(r) \in Items
           /\ \A k \in 1 .. NumJobs : results[r][k] <= Excess(r)[k] + 1
<1> SUFFICES ASSUME NEW k \in 1 .. NumJobs
             PROVE  /\ Extra([run |-> r, id |-> k]) \in Nat
                    /\ results[r][k] <= Extra([run |-> r, id |-> k]) + 1
  BY DEF Excess, Items
<1> DEFINE b == [run |-> r, id |-> k]
<1>1. b \in Job
  BY JobType
<1>2. /\ Queued(b) \in Nat /\ Held(b) \in Nat /\ Finished(b) \in Nat
      /\ Credit(b) \in {0, 1} /\ Finished(b) = results[r][k]
  BY <1>1, PlacesNow DEF Credit, Finished
<1> HIDE DEF b
<1> QED
  BY <1>2 DEF Extra, b

(* The jobs of run r that a step adds once more are a result or a chunk.   *)
LEMMA FewAdded ==
    ASSUME TypeOK, HandInv, [Next]_vars, NEW r \in RunId
    PROVE  LET C == {k \in 1 .. NumJobs : ~ Adds([run |-> r, id |-> k], 0)}
           IN  \/ retries' = retries /\ C = {}
               \/ retries' = retries + 1 /\ Cardinality(C) <= ChunkSize
<1> DEFINE b(k) == [run |-> r, id |-> k]
           C == {k \in 1 .. NumJobs : ~ Adds(b(k), 0)}
<1>1. \A k \in 1 .. NumJobs : b(k) \in Job /\ Moved(b(k))
  BY JobType, MoveStep
<1>2. retries \in Nat /\ retries' \in {retries, retries + 1}
  <2>1. 1 \in 1 .. NumJobs
    BY ConstantsType
  <2>2. Moved(b(1))
    BY <1>1, <2>1
  <2> QED
    BY <2>2 DEF TypeOK, Moved
<1>3. CASE retries' = retries
  <2>1. C = {}
    BY <1>1, <1>2, <1>3 DEF Moved
  <2> QED
    BY <1>3, <2>1
<1>4. CASE retries' = retries + 1 /\ \E w \in Worker : PushResultAgain(w)
  <2>1. PICK w \in Worker : PushResultAgain(w)
    BY <1>4
  <2>2. /\ hand[w] \in Job /\ results' = [results EXCEPT ![hand[w].run][hand[w].id] = @ + 1]
        /\ UNCHANGED <<queue, pushed, hand>>
    BY <2>1 DEF PushResultAgain, HandInv, coordinatorVars, agentVars
  <2>3. ASSUME NEW k \in 1 .. NumJobs, b(k) # hand[w] PROVE Adds(b(k), 0)
    <3>1. b(k) \in Job
      BY <1>1
    <3> HIDE DEF b
    <3>2. Finished(b(k))' = Finished(b(k))
      BY <2>2, <2>3, <3>1, ResultType DEF Finished
    <3>3. Queued(b(k))' = Queued(b(k)) /\ Held(b(k))' = Held(b(k)) /\ Credit(b(k))' = Credit(b(k))
      BY <2>2 DEF Queued, Held, Credit
    <3> QED
      BY <3>1, <3>2, <3>3, MoveNumbers DEF Adds
  <2>4. C \in SUBSET {hand[w].id}
    BY <2>3
  <2>5. IsFiniteSet({hand[w].id}) /\ Cardinality({hand[w].id}) = 1
    BY FS_Singleton
  <2>6. Cardinality(C) <= 1
    BY <2>4, <2>5, FS_Subset
  <2>7. Cardinality(C) \in Nat
    BY <2>4, <2>5, FS_Subset, FS_CardinalityType
  <2> QED
    BY <1>4, <2>6, <2>7, ConstantsType
<1>5. CASE retries' = retries + 1 /\ ~ \E w \in Worker : PushResultAgain(w)
  <2>1. C \in SUBSET (pushed[r] + 1 .. LastOf(r))
    BY <1>1, <1>5 DEF Moved, Repeated
  <2>2. pushed[r] \in Nat /\ LastOf(r) \in Nat /\ LastOf(r) <= pushed[r] + ChunkSize
    BY ConstantsType DEF TypeOK, LastOf
  <2>3. /\ IsFiniteSet(pushed[r] + 1 .. LastOf(r))
        /\ Cardinality(pushed[r] + 1 .. LastOf(r)) <= ChunkSize
    <3> DEFINE first == pushed[r] + 1
    <3>1. first \in Int /\ LastOf(r) \in Int
      BY <2>2
    <3>2. /\ IsFiniteSet(first .. LastOf(r))
          /\ Cardinality(first .. LastOf(r)) = IF first > LastOf(r) THEN 0 ELSE LastOf(r) - first + 1
      BY <3>1, FS_Interval
    <3> QED
      BY <2>2, <3>2, ConstantsType
  <2>4. Cardinality(C) <= Cardinality(pushed[r] + 1 .. LastOf(r))
    BY <2>1, <2>3, FS_Subset
  <2>5. Cardinality(C) \in Nat /\ Cardinality(pushed[r] + 1 .. LastOf(r)) \in Nat
    BY <2>1, <2>3, FS_Subset, FS_CardinalityType
  <2> QED
    BY <1>5, <2>3, <2>4, <2>5, ConstantsType
<1> QED
  BY <1>2, <1>3, <1>4, <1>5

LEMMA ExcessStep == TypeOK /\ HandInv /\ ExcessInv /\ [Next]_vars => ExcessInv'
<1> SUFFICES ASSUME TypeOK, HandInv, ExcessInv, [Next]_vars, NEW r \in RunId
             PROVE  Length(Excess(r)') <= retries' * ChunkSize
  BY DEF ExcessInv
<1> DEFINE C == {k \in 1 .. NumJobs : ~ Adds([run |-> r, id |-> k], 0)}
<1>1. ASSUME NEW k \in 1 .. NumJobs
      PROVE  LET b == [run |-> r, id |-> k]
             IN  Extra(b)' \in Nat /\ Extra(b)' <= Extra(b) + IF k \in C THEN 1 ELSE 0
  <2> DEFINE b == [run |-> r, id |-> k]
  <2>1. b \in Job /\ Moved(b) /\ (k \in C <=> ~ Adds(b, 0))
    BY JobType, MoveStep
  <2> HIDE DEF b, C
  <2>2. Adds(b, 0) \/ (k \in C /\ Adds(b, 1))
    BY <2>1 DEF Moved
  <2> QED
    BY <2>1, <2>2, MoveNumbers DEF Adds, Extra, b
<1>2. Excess(r) \in Items
  BY ExcessType
<1>3. /\ Excess(r)' \in Items
      /\ \A k \in 1 .. NumJobs : Excess(r)'[k] <= Excess(r)[k] + IF k \in C THEN 1 ELSE 0
  BY <1>1 DEF Excess, Items
<1>4. \/ retries' = retries /\ C = {}
      \/ retries' = retries + 1 /\ Cardinality(C) <= ChunkSize
  BY FewAdded
<1>5. C \in SUBSET (1 .. NumJobs)
  OBVIOUS
<1> HIDE DEF C
<1>6. Cardinality(C) \in Nat /\ Length(Excess(r)') <= Length(Excess(r)) + Cardinality(C)
  BY <1>2, <1>3, <1>5, LengthBound
<1>7. Length(Excess(r)') \in Nat /\ Length(Excess(r)) \in Nat
  BY <1>2, <1>3, CopiesAre
<1>8. Length(Excess(r)) <= retries * ChunkSize /\ retries \in Nat
  BY DEF ExcessInv, TypeOK
<1>9. \A a, c \in Nat : a * c \in Nat /\ (a + 1) * c = a * c + c
  OBVIOUS
<1>10. retries * ChunkSize \in Nat /\ (retries + 1) * ChunkSize = retries * ChunkSize + ChunkSize
  BY <1>8, <1>9, ConstantsType
<1>11. CASE retries' = retries /\ C = {}
  BY <1>6, <1>7, <1>8, <1>10, <1>11, FS_EmptySet
<1>12. CASE retries' = retries + 1 /\ Cardinality(C) <= ChunkSize
  BY <1>6, <1>7, <1>8, <1>10, <1>12, ConstantsType
<1> QED
  BY <1>4, <1>11, <1>12

(* Polling ends with enough results: they are the run's own, but for what  *)
(* repeated commands brought.                                              *)
LEMMA ResultsWhole ==
    ASSUME TypeOK, ExcessInv, NEW r \in RunId, Length(results[r]) >= NumJobs
    PROVE  Whole(results[r])
<1> DEFINE D == {k \in 1 .. NumJobs : results[r][k] > 0}
           n == retries * ChunkSize
<1>1. results[r] \in Items /\ Excess(r) \in Items /\ retries \in Nat /\ Length(Excess(r)) <= n
  BY ExcessType DEF TypeOK, ExcessInv
<1>2. Length(results[r]) \in Nat /\ Length(Excess(r)) \in Nat
  BY <1>1, CopiesAre
<1>3. n \in Nat
  <2>1. \A a, c \in Nat : a * c \in Nat
    OBVIOUS
  <2> QED
    BY <1>1, <2>1, ConstantsType
<1>4. \A k \in 1 .. NumJobs : results[r][k] <= Excess(r)[k] + IF k \in 1 .. NumJobs THEN 1 ELSE 0
  BY ExcessType
<1>5. ASSUME NEW k \in 1 .. NumJobs
      PROVE  results[r][k] <= Excess(r)[k] + IF k \in D THEN 1 ELSE 0
  <2>1. /\ results[r][k] <= Excess(r)[k] + 1
        /\ results[r][k] \in Nat /\ Excess(r)[k] \in Nat
    BY <1>1, ExcessType DEF Items
  <2>2. k \in D <=> results[r][k] > 0
    OBVIOUS
  <2> HIDE DEF D
  <2> QED
    BY <2>1, <2>2
<1>6. Length(results[r]) <= Length(Excess(r)) + NumJobs
  <2>1. Cardinality(1 .. NumJobs) = NumJobs
    BY ConstantsType, FS_Interval
  <2>2. Length(results[r]) <= Length(Excess(r)) + Cardinality(1 .. NumJobs)
    BY ONLY <1>1, <1>4, LengthBound
  <2> QED
    BY <2>1, <2>2
<1>7. D \in SUBSET (1 .. NumJobs)
  OBVIOUS
<1>8. Cardinality(D) \in Nat /\ Length(results[r]) <= Length(Excess(r)) + Cardinality(D)
  <2> HIDE DEF D
  <2> QED
    BY ONLY <1>1, <1>5, <1>7, LengthBound
<1> HIDE DEF D, n
<1> QED
  BY <1>1, <1>2, <1>3, <1>6, <1>8, ConstantsType DEF Whole, D, n

(* While a coordinator reads, nobody takes results away but a run-dist     *)
(* whose deletion disturbs it.                                             *)
LEMMA ResultsStay ==
    ASSUME TypeOK, HandInv, [Next]_vars, NEW r \in RunId, cpc[r] = "read", r \notin disturbed'
    PROVE  \A k \in 1 .. NumJobs : results[r][k] <= results'[r][k]
<1> SUFFICES ASSUME NEW k \in 1 .. NumJobs PROVE results[r][k] <= results'[r][k]
  OBVIOUS
<1>0. results[r][k] \in Nat
  <2>1. results[r] \in [1 .. NumJobs -> Nat]
    BY DEF TypeOK, Items
  <2> QED
    BY <2>1
<1> USE DEF coordinatorVars, agentVars, budgetVars
<1>1. CASE UNCHANGED results
  BY <1>0, <1>1
<1>2. ASSUME NEW s \in RunId, DeleteResults(s) PROVE results[r][k] <= results'[r][k]
  <2>1. r # s /\ r \in Others(s)
    BY <1>2 DEF DeleteResults, Others, Live
  <2>2. r \notin keys[s]
    BY <1>2, <2>1 DEF DeleteResults
  <2> QED
    BY <1>0, <1>2, <2>2 DEF DeleteResults
<1>3. ASSUME NEW w \in Worker, PushResult(w) \/ PushResultAgain(w)
      PROVE  results[r][k] <= results'[r][k]
  <2> DEFINE b == [run |-> r, id |-> k]
  <2>1. hand[w] \in Job /\ results' = [results EXCEPT ![hand[w].run][hand[w].id] = @ + 1]
    BY <1>3 DEF PushResult, PushResultAgain, HandInv
  <2>2. b \in Job
    BY JobType
  <2>3. results'[b.run][b.id] \in {results[b.run][b.id], results[b.run][b.id] + 1}
    BY <2>1, <2>2, ResultType
  <2> QED
    BY <1>0, <2>3
<1>4. ASSUME \/ \E s \in RunId : \/ FlushQueue(s) \/ ScanResults(s) \/ PushJobs(s) \/ PushJobsAgain(s)
                                \/ Poll(s) \/ ReadResults(s) \/ ReadAgents(s) \/ FailCoordinator(s)
             \/ \E w \in Worker : \/ PopJob(w) \/ PopJobAgain(w) \/ FailPopJob(w) \/ IdleExit(w)
                                 \/ Execute(w) \/ FailPushResult(w)
             \/ \E a \in Agent : Interrupt(a) \/ Crash(a)
             \/ UNCHANGED vars
      PROVE  UNCHANGED results
  BY <1>4 DEF FlushQueue, ScanResults, PushJobs, PushJobsAgain, Poll, ReadResults, ReadAgents,
              FailCoordinator, PopJob, PopJobAgain, FailPopJob, IdleExit, Execute,
              FailPushResult, Interrupt, Crash, vars
<1> QED
  BY <1>1, <1>2, <1>3, <1>4 DEF Next, Coordinator, Agents, Rest

(* How a coordinator comes to its report. *)
LEMMA CoordinatorMoves ==
    ASSUME TypeOK, [Next]_vars, NEW r \in RunId
    PROVE  /\ disturbed \subseteq disturbed'
           /\ \/ cpc'[r] = cpc[r] /\ report'[r] = report[r]
              \/ cpc'[r] \notin {"read", "agents", "reported"}
              \/ Poll(r)
              \/ /\ cpc[r] = "read" /\ cpc'[r] = "agents"
                 /\ report'[r] = results[r] /\ retries' = retries
              \/ cpc[r] = "agents" /\ cpc'[r] = "reported" /\ report'[r] = report[r]
<1> USE DEF coordinatorVars, agentVars, budgetVars, Fault
<1>1. ASSUME NEW s \in RunId, \/ FlushQueue(s) \/ ScanResults(s) \/ DeleteResults(s) \/ PushJobs(s)
                              \/ FailCoordinator(s)
      PROVE  /\ disturbed \subseteq disturbed' /\ report' = report
             /\ cpc'[r] = cpc[r] \/ cpc'[r] \notin {"read", "agents", "reported"}
  BY <1>1 DEF FlushQueue, ScanResults, DeleteResults, PushJobs, FailCoordinator, TypeOK
<1>2. ASSUME NEW s \in RunId, Poll(s) \/ ReadResults(s) \/ ReadAgents(s)
      PROVE  /\ disturbed' = disturbed
             /\ \/ cpc'[r] = cpc[r] /\ report'[r] = report[r]
                \/ Poll(r)
                \/ /\ cpc[r] = "read" /\ cpc'[r] = "agents"
                   /\ report'[r] = results[r] /\ retries' = retries
                \/ cpc[r] = "agents" /\ cpc'[r] = "reported" /\ report'[r] = report[r]
  <2>1. CASE s = r
    BY <1>2, <2>1 DEF Poll, ReadResults, ReadAgents, TypeOK
  <2>2. CASE s # r
    BY <1>2, <2>2 DEF Poll, ReadResults, ReadAgents, TypeOK
  <2> QED
    BY <2>1, <2>2
<1>3. ASSUME \/ \E s \in RunId : PushJobsAgain(s)
             \/ \E w \in Worker : \/ PopJob(w) \/ PopJobAgain(w) \/ FailPopJob(w) \/ IdleExit(w)
                                 \/ Execute(w) \/ PushResult(w) \/ PushResultAgain(w)
                                 \/ FailPushResult(w)
             \/ \E a \in Agent : Interrupt(a) \/ Crash(a)
             \/ UNCHANGED vars
      PROVE  UNCHANGED <<cpc, report, disturbed>>
  BY <1>3 DEF PushJobsAgain, PopJob, PopJobAgain, FailPopJob, IdleExit, Execute, PushResult,
              PushResultAgain, FailPushResult, Interrupt, Crash, vars
<1> QED
  BY <1>1, <1>2, <1>3 DEF Next, Coordinator, Agents, Rest

LEMMA ReportStep ==
    TypeOK /\ HandInv /\ ExcessInv /\ ReportInv /\ [Next]_vars => ReportInv'
<1> SUFFICES ASSUME TypeOK, HandInv, ExcessInv, ReportInv, [Next]_vars,
                    NEW r \in RunId, r \notin disturbed'
             PROVE  /\ cpc'[r] = "read" => Length(results'[r]) >= NumJobs
                    /\ cpc'[r] \in {"agents", "reported"} => Whole(report[r])'
  BY DEF ReportInv
<1>1. r \notin disturbed
  BY CoordinatorMoves
<1>2. /\ results[r] \in Items /\ report[r] \in Items /\ retries \in Nat
      /\ results'[r] \in Items /\ retries' \in Nat /\ retries <= retries'
  <2>1. TypeOK'
    BY TypeStep
  <2>2. [run |-> r, id |-> 1] \in Job
    BY JobType, ConstantsType
  <2>3. retries' \in {retries, retries + 1}
    BY <2>2, MoveStep DEF TypeOK, Moved
  <2> QED
    BY <2>1, <2>3 DEF TypeOK
<1>3. cpc[r] = "read" => Length(results[r]) >= NumJobs /\ Length(results'[r]) >= NumJobs
  <2>1. ASSUME cpc[r] = "read" PROVE Length(results[r]) <= Length(results'[r])
    BY <1>2, <2>1, ResultsStay, LengthMonotone
  <2>2. Length(results[r]) \in Nat /\ Length(results'[r]) \in Nat
    BY <1>2, CopiesAre
  <2> QED
    BY <1>1, <2>1, <2>2, ConstantsType DEF ReportInv
<1>4. ASSUME report'[r] = report[r], Whole(report[r]) PROVE Whole(report[r])'
  <2>1. \A a, b, c \in Nat : a <= b => a * c \in Nat /\ b * c \in Nat /\ a * c <= b * c
    OBVIOUS
  <2>2. /\ retries * ChunkSize \in Nat /\ retries' * ChunkSize \in Nat
        /\ retries * ChunkSize <= retries' * ChunkSize
    BY ONLY <1>2, <2>1, ConstantsType
  <2>3. /\ Length(report[r]) \in NumJobs .. NumJobs + retries * ChunkSize
        /\ Cardinality({k \in 1 .. NumJobs : report[r][k] > 0}) >= NumJobs - retries * ChunkSize
    BY <1>4 DEF Whole
  <2>4. Cardinality({k \in 1 .. NumJobs : report[r][k] > 0}) \in Nat
    <3>1. {k \in 1 .. NumJobs : report[r][k] > 0} \in SUBSET (1 .. NumJobs)
      OBVIOUS
    <3>2. IsFiniteSet(1 .. NumJobs)
      BY ConstantsType, FS_Interval
    <3>3. IsFiniteSet({k \in 1 .. NumJobs : report[r][k] > 0})
      BY ONLY <3>1, <3>2, FS_Subset
    <3> QED
      BY ONLY <3>3, FS_CardinalityType
  <2> HIDE <1>4
  <2>5. /\ Length(report[r]) \in NumJobs .. NumJobs + retries' * ChunkSize
        /\ Cardinality({k \in 1 .. NumJobs : report[r][k] > 0}) >= NumJobs - retries' * ChunkSize
    BY <2>2, <2>3, <2>4, ConstantsType
  <2> QED
    BY <1>4, <2>5 DEF Whole
<1>5. CASE cpc'[r] = cpc[r] /\ report'[r] = report[r]
  BY <1>1, <1>3, <1>4, <1>5 DEF ReportInv
<1>6. CASE Poll(r)
  <2>1. cpc'[r] = "read" /\ results' = results /\ Length(results[r]) >= NumJobs
    BY <1>6 DEF Poll, TypeOK
  <2> QED
    BY <2>1
<1>7. CASE /\ cpc[r] = "read" /\ cpc'[r] = "agents"
           /\ report'[r] = results[r] /\ retries' = retries
  <2>1. Whole(results[r])
    BY <1>3, <1>7, ResultsWhole
  <2>2. Whole(report[r])'
    BY <1>7, <2>1 DEF Whole
  <2> QED
    BY <1>7, <2>2
<1>8. CASE cpc[r] = "agents" /\ cpc'[r] = "reported" /\ report'[r] = report[r]
  BY <1>1, <1>4, <1>8 DEF ReportInv
<1> QED
  BY <1>5, <1>6, <1>7, <1>8, CoordinatorMoves

LEMMA ReportInit == Init => ExcessInv /\ ReportInv
<1> SUFFICES ASSUME Init PROVE ExcessInv /\ ReportInv
  OBVIOUS
<1>1. TypeOK /\ HandInv /\ PlaceInv /\ retries = 0
  BY TypeInit, PlaceInit DEF Init
<1>2. ASSUME NEW r \in RunId PROVE Length(Excess(r)) <= retries * ChunkSize
  <2>1. ASSUME NEW k \in 1 .. NumJobs PROVE Excess(r)[k] = 0
    <3> DEFINE b == [run |-> r, id |-> k]
    <3>1. b \in Job
      BY JobType
    <3>2. Queued(b) + Held(b) + Finished(b) <= Credit(b)
      BY <1>1, <3>1, PlacesNow DEF PlaceInv, Credit
    <3> HIDE DEF b
    <3>3. Extra(b) = 0
      BY <1>1, <3>1, <3>2, PlacesNow DEF Extra, Credit
    <3> QED
      BY <3>3 DEF Excess, b
  <2>2. Copies(Excess(r)) = {}
    <3>1. DOMAIN Excess(r) = 1 .. NumJobs
      BY DEF Excess
    <3>2. \A k \in DOMAIN Excess(r) : {k} \X (1 .. Excess(r)[k]) = {}
      BY <2>1, <3>1
    <3> QED
      BY <3>2 DEF Copies
  <2>3. Length(Excess(r)) = 0
    BY <2>2, FS_EmptySet DEF Length, Copies
  <2> QED
    BY <1>1, <2>3, ConstantsType
<1>3. \A r \in RunId : cpc[r] = "idle"
  BY DEF Init
<1> QED
  BY <1>2, <1>3 DEF ExcessInv, ReportInv

(* "waits until every result has landed" and "results from older runs can  *)
(* never leak into this report" (coordinator.go:18-21): the report of a    *)
(* run that nobody else flushed has each of its results, once, but for     *)
(* what repeated commands brought - a chunk each at most, which may stand  *)
(* in the place of as many results that are missing.                       *)
THEOREM ReportsAreWhole == Spec => []ReportIsOwnAndWhole
<1>1. ReportInv => ReportIsOwnAndWhole
  BY DEF ReportInv, Whole, ReportIsOwnAndWhole
<1> QED
  BY <1>1, TypeInit, TypeStep, ReportInit, ExcessStep, ReportStep, PTL DEF Spec
=============================================================================
