--------------------------- MODULE PipelineProofs ---------------------------
(***************************************************************************)
(* Proofs about Pipeline, for any number of workers, any workload and any  *)
(* abort threshold.                                                        *)
(***************************************************************************)
EXTENDS Pipeline, FiniteSetTheorems, SequenceTheorems, TLAPS

(* The buffer sizes NewLoadTester computes from Concurrency. *)
LEMMA CapsType ==
    /\ Concurrency \in Nat /\ Concurrency > 0
    /\ JobsCap \in Nat /\ JobsCap > 0
    /\ ResultsCap \in Nat /\ ResultsCap > 0
<1>1. Concurrency \in Nat
  BY WorkerAssumption, FS_CardinalityType DEF Concurrency
<1>2. Concurrency # 0
  BY WorkerAssumption, FS_EmptySet DEF Concurrency
<1> QED
  BY <1>1, <1>2 DEF JobsCap, ResultsCap

-----------------------------------------------------------------------------
(* Every variable keeps its type, and neither channel ever holds more than *)
(* its buffer.                                                             *)

LEMMA TypeInit == Init => TypeOK
<1> SUFFICES ASSUME Init PROVE TypeOK
  OBVIOUS
<1>1. jobs \in Seq(Nat) /\ Len(jobs) <= JobsCap
  BY CapsType DEF Init
<1>2. results \in Seq(Result) /\ Len(results) <= ResultsCap
  BY CapsType DEF Init
<1>3. /\ wpc \in [Worker -> WorkerPC]
      /\ job \in [Worker -> Nat]
      /\ outcome \in [Worker -> Outcome]
  BY DEF Init, WorkerPC, Outcome, NoJob
<1>4. Begun \in Nat
  BY DEF Init, Begun
<1> QED
  BY <1>1, <1>2, <1>3, <1>4 DEF Init, TypeOK

LEMMA TypeStep == TypeOK /\ [Next]_vars => TypeOK'
<1> SUFFICES ASSUME TypeOK, [Next]_vars PROVE TypeOK'
  OBVIOUS
<1> USE CapsType DEF TypeOK, Begun
<1>1. CASE CheckLimits
  BY <1>1 DEF CheckLimits, workerVars, collectorVars, historyVars
<1>2. CASE SendJob
  BY <1>2 DEF SendJob, workerVars, collectorVars, historyVars
<1>3. CASE StopProducer
  BY <1>3 DEF StopProducer, workerVars, collectorVars, historyVars
<1>4. ASSUME NEW w \in Worker, ReceiveJob(w) PROVE TypeOK'
  <2>1. jobs # <<>> /\ job' = [job EXCEPT ![w] = Head(jobs)] /\ jobs' = Tail(jobs)
    BY <1>4 DEF ReceiveJob
  <2>2. /\ Head(jobs) \in Nat /\ Tail(jobs) \in Seq(Nat)
        /\ Len(Tail(jobs)) = Len(jobs) - 1 /\ Len(jobs) \in Nat
    BY <2>1
  <2>3. job' \in [Worker -> Nat] /\ jobs' \in Seq(Nat) /\ Len(jobs') <= JobsCap /\ sent - Len(jobs') \in Nat
    BY <2>1, <2>2
  <2> QED
    BY <1>4, <2>3 DEF ReceiveJob, WorkerPC, producerVars, collectorVars, historyVars
<1>5. ASSUME NEW w \in Worker, LeaveSelect(w) PROVE TypeOK'
  BY <1>5 DEF LeaveSelect, WorkerPC, producerVars, collectorVars, historyVars
<1>6. ASSUME NEW w \in Worker, NEW o \in Outcome,
             FinishRequest(w, o)
      PROVE  TypeOK'
  BY <1>6 DEF FinishRequest, WorkerPC, producerVars, collectorVars, historyVars
<1>7. ASSUME NEW w \in Worker, TallyOutcome(w) PROVE TypeOK'
  <2>1. streak' \in Nat
    BY <1>7 DEF TallyOutcome
  <2>2. wpc' \in [Worker -> WorkerPC]
    BY <1>7 DEF TallyOutcome, WorkerPC
  <2> QED
    BY <1>7, <2>1, <2>2 DEF TallyOutcome, producerVars, collectorVars, historyVars
<1>8. ASSUME NEW w \in Worker, AbortRun(w) PROVE TypeOK'
  BY <1>8 DEF AbortRun, WorkerPC, producerVars, collectorVars, historyVars
<1>9. ASSUME NEW w \in Worker, DeliverResult(w) PROVE TypeOK'
  <2>1. wpc' \in [Worker -> WorkerPC] /\ job' \in [Worker -> Nat]
        /\ outcome' \in [Worker -> Outcome]
    BY <1>9 DEF DeliverResult, WorkerPC, NoJob, Outcome
  <2>2. results' \in Seq(Result) /\ Len(results') <= ResultsCap
    BY <1>9 DEF DeliverResult, Result
  <2> QED
    BY <1>9, <2>1, <2>2 DEF DeliverResult, producerVars, historyVars
<1>10. ASSUME NEW w \in Worker, DropResult(w) PROVE TypeOK'
  BY <1>10 DEF DropResult, WorkerPC, producerVars, collectorVars, historyVars
<1>11. CASE CloseResults
  BY <1>11 DEF CloseResults, producerVars, workerVars, historyVars
<1>12. CASE CollectResult
  <2>1. Head(results) \in Result /\ results' = Tail(results)
    BY <1>12 DEF CollectResult
  <2>2. results' \in Seq(Result) /\ Len(results') <= ResultsCap
    BY <1>12, <2>1 DEF CollectResult
  <2>3. stats' \in [total : Nat, failed : Nat]
    BY <1>12 DEF CollectResult
  <2>4. counted' \in SUBSET Nat
    BY <1>12, <2>1 DEF CollectResult, Result
  <2> QED
    BY <1>12, <2>2, <2>3, <2>4 DEF CollectResult, producerVars, workerVars, historyVars
<1>13. CASE ReturnStats
  BY <1>13 DEF ReturnStats, producerVars, workerVars, historyVars
<1>14. CASE PassDeadline
  BY <1>14 DEF PassDeadline, producerVars, workerVars, collectorVars
<1>15. CASE Kill
  BY <1>15 DEF Kill, producerVars, workerVars, collectorVars, historyVars
<1>16. CASE UNCHANGED vars
  BY <1>16 DEF vars
<1> QED
  BY <1>1, <1>2, <1>3, <1>4, <1>5, <1>6, <1>7, <1>8, <1>9, <1>10, <1>11,
     <1>12, <1>13, <1>14, <1>15, <1>16
  DEF Next, Producer, WorkerStep, Collector, AllGone

(* Type correctness of the engine, and the bound on both channels. *)
THEOREM TypeCorrect == Spec => []TypeOK
  BY TypeInit, TypeStep, PTL DEF Spec

-----------------------------------------------------------------------------
(* At most once.  HandsOK ties what a worker holds to where it is, which   *)
(* is what makes AtMostOnce inductive: a job enters a hand only from the   *)
(* head of the queue, and leaves it only for the results channel.          *)

OnceInv == TypeOK /\ HandsOK /\ AtMostOnce

USE DEF NoJob, Holds, Delivered

LEMMA OnceInit == Init => OnceInv
<1> SUFFICES ASSUME Init PROVE OnceInv
  OBVIOUS
<1>1. TypeOK
  BY TypeInit
<1>2. HandsOK /\ AtMostOnce
  BY DEF Init, HandsOK, AtMostOnce
<1> QED
  BY <1>1, <1>2 DEF OnceInv

LEMMA OnceStep == OnceInv /\ [Next]_vars => OnceInv'
<1> SUFFICES ASSUME OnceInv, [Next]_vars PROVE HandsOK' /\ AtMostOnce'
  BY TypeStep DEF OnceInv
<1> USE CapsType DEF OnceInv
<1>0. TypeOK'
  BY TypeStep
<1>1. CASE UNCHANGED <<sent, jobs, wpc, job, results, counted>>
  BY <1>1 DEF HandsOK, AtMostOnce, Begun
<1>2. CASE SendJob
  <2>1. Begun' = Begun
    BY <1>2 DEF SendJob, Begun, TypeOK
  <2>2. UNCHANGED <<wpc, job, results, counted>>
    BY <1>2 DEF SendJob, workerVars, collectorVars
  <2>3. \A k \in 1 .. Len(jobs') : jobs'[k] = Begun' + k
    <3>1. jobs \in Seq(Nat) /\ sent + 1 \in Nat /\ jobs' = Append(jobs, sent + 1)
      BY <1>2 DEF SendJob, TypeOK
    <3>2. /\ Len(jobs') = Len(jobs) + 1 /\ Len(jobs) \in Nat
          /\ \A k \in 1 .. Len(jobs) : jobs'[k] = jobs[k]
          /\ jobs'[Len(jobs) + 1] = sent + 1
      BY <3>1
    <3>3. sent + 1 = Begun + (Len(jobs) + 1)
      BY <3>2 DEF Begun, TypeOK
    <3> QED
      BY <2>1, <3>2, <3>3 DEF AtMostOnce
  <2> QED
    BY <2>1, <2>2, <2>3 DEF HandsOK, AtMostOnce
<1>3. ASSUME NEW w \in Worker, ReceiveJob(w) PROVE HandsOK' /\ AtMostOnce'
  <2>1. Begun' = Begun + 1 /\ Begun \in Nat
    BY <1>3 DEF ReceiveJob, producerVars, Begun, TypeOK
  <2>2. UNCHANGED <<results, counted>>
    BY <1>3 DEF ReceiveJob, collectorVars
  <2>3. Head(jobs) = Begun + 1 /\ jobs \in Seq(Nat) /\ jobs # <<>>
    BY <1>3 DEF ReceiveJob, TypeOK, AtMostOnce
  <2>4. \A k \in 1 .. Len(jobs') : jobs'[k] = Begun' + k
    BY <1>3, <2>1, <2>3 DEF ReceiveJob, TypeOK, AtMostOnce
  <2>5. /\ job \in [Worker -> Nat] /\ job' = [job EXCEPT ![w] = Begun + 1]
        /\ wpc \in [Worker -> WorkerPC] /\ wpc'[w] \in {"exec", "doomed"}
        /\ \A v \in Worker \ {w} : wpc'[v] = wpc[v]
    BY <1>3, <2>3 DEF ReceiveJob, TypeOK
  <2>6. HandsOK'
    BY <2>1, <2>2, <2>5 DEF HandsOK
  <2>7. \A v \in Worker : job'[v] # 0 =>
          /\ job'[v] <= Begun'
          /\ job'[v] \notin Delivered' \cup counted'
          /\ \A u \in Worker \ {v} : job'[u] # job'[v]
    <3>1. \A v \in Worker : job[v] <= Begun
      BY <2>1, <2>5 DEF AtMostOnce
    <3>2. Begun + 1 \notin Delivered \cup counted
      BY <2>1 DEF AtMostOnce, HandsOK
    <3> QED
      BY <2>1, <2>2, <2>5, <3>1, <3>2 DEF AtMostOnce
  <2>8. \A k \in 1 .. Len(results') :
          /\ results'[k].id \in (1 .. Begun') \ counted'
          /\ \A m \in 1 .. Len(results') : m # k => results'[m].id # results'[k].id
    BY <2>1, <2>2 DEF AtMostOnce
  <2> QED
    BY <2>4, <2>6, <2>7, <2>8 DEF AtMostOnce
<1>4. ASSUME NEW w \in Worker, DeliverResult(w) PROVE HandsOK' /\ AtMostOnce'
  <2>1. UNCHANGED <<sent, jobs, counted>> /\ Begun' = Begun /\ Begun \in Nat
    BY <1>4 DEF DeliverResult, producerVars, Begun, TypeOK
  <2>2. /\ job \in [Worker -> Nat] /\ job' = [job EXCEPT ![w] = 0] /\ job[w] # 0
        /\ wpc \in [Worker -> WorkerPC] /\ wpc' = [wpc EXCEPT ![w] = "select"]
    BY <1>4 DEF DeliverResult, TypeOK, HandsOK
  <2>3. HandsOK'
    BY <2>1, <2>2 DEF HandsOK
  <2>4. PICK r \in Result : r.id = job[w] /\ results' = Append(results, r)
    BY <1>4 DEF DeliverResult, TypeOK, Result
  <2>5. results \in Seq(Result)
    BY DEF TypeOK
  <2>6. /\ Len(results') = Len(results) + 1
        /\ \A k \in 1 .. Len(results) : results'[k] = results[k]
        /\ results'[Len(results) + 1] = r
    BY <2>4, <2>5
  <2>7. Delivered' = Delivered \cup {job[w]}
    BY <2>4, <2>5, <2>6
  <2>8. \A v \in Worker : job'[v] # 0 =>
          /\ job'[v] <= Begun'
          /\ job'[v] \notin Delivered' \cup counted'
          /\ \A u \in Worker \ {v} : job'[u] # job'[v]
    BY <2>1, <2>2, <2>7 DEF AtMostOnce
  <2>9. job[w] \in (1 .. Begun) \ counted /\ job[w] \notin Delivered
    BY <2>1, <2>2 DEF AtMostOnce
  <2>10. \A k \in 1 .. Len(results') :
          /\ results'[k].id \in (1 .. Begun') \ counted'
          /\ \A m \in 1 .. Len(results') : m # k => results'[m].id # results'[k].id
    <3> SUFFICES ASSUME NEW k \in 1 .. Len(results')
                 PROVE  /\ results'[k].id \in (1 .. Begun') \ counted'
                        /\ \A m \in 1 .. Len(results') :
                              m # k => results'[m].id # results'[k].id
      OBVIOUS
    <3>0. \A m \in 1 .. Len(results) : results[m].id # r.id
      BY <2>4, <2>9
    <3>1. CASE k = Len(results) + 1
      BY <2>1, <2>4, <2>5, <2>6, <2>9, <3>0, <3>1
    <3>2. CASE k \in 1 .. Len(results)
      <4>1. /\ results'[k] = results[k]
            /\ results[k].id \in (1 .. Begun) \ counted
            /\ \A m \in 1 .. Len(results) : m # k => results[m].id # results[k].id
        BY <2>6, <3>2 DEF AtMostOnce
      <4>2. ASSUME NEW m \in 1 .. Len(results'), m # k
            PROVE  results'[m].id # results'[k].id
        BY <2>5, <2>6, <3>0, <3>2, <4>1, <4>2
      <4> QED
        BY <2>1, <4>1, <4>2
    <3> QED
      BY <2>5, <2>6, <3>1, <3>2
  <2>11. \A k \in 1 .. Len(jobs') : jobs'[k] = Begun' + k
    BY <2>1 DEF AtMostOnce
  <2> QED
    BY <2>3, <2>8, <2>10, <2>11 DEF AtMostOnce
<1>5. CASE CollectResult
  <2>1. UNCHANGED <<sent, jobs, wpc, job>> /\ Begun' = Begun
    BY <1>5 DEF CollectResult, producerVars, workerVars, Begun
  <2>2. /\ results \in Seq(Result) /\ results # <<>>
        /\ results' = Tail(results) /\ counted' = counted \cup {Head(results).id}
    BY <1>5 DEF CollectResult, TypeOK
  <2>3. /\ Len(results') = Len(results) - 1 /\ Len(results) \in Nat \ {0}
        /\ \A k \in 1 .. Len(results') : results'[k] = results[k + 1]
        /\ Head(results) = results[1]
    BY <2>2
  <2>4. counted' \subseteq 1 .. Begun'
    <3>1. results[1].id \in 1 .. Begun
      BY <2>3 DEF AtMostOnce
    <3> QED
      BY <2>1, <2>2, <2>3, <3>1 DEF HandsOK
  <2>5. HandsOK'
    BY <2>1, <2>4 DEF HandsOK
  <2>6. Delivered' \cup counted' \subseteq Delivered \cup counted
    BY <2>2, <2>3
  <2>7. \A k \in 1 .. Len(results') :
          /\ results'[k].id \in (1 .. Begun') \ counted'
          /\ \A m \in 1 .. Len(results') : m # k => results'[m].id # results'[k].id
    BY <2>1, <2>2, <2>3 DEF AtMostOnce
  <2>8. \A v \in Worker : job'[v] # 0 =>
          /\ job'[v] <= Begun'
          /\ job'[v] \notin Delivered' \cup counted'
          /\ \A u \in Worker \ {v} : job'[u] # job'[v]
    BY <2>1, <2>6 DEF AtMostOnce
  <2>9. \A k \in 1 .. Len(jobs') : jobs'[k] = Begun' + k
    BY <2>1 DEF AtMostOnce
  <2> QED
    BY <2>5, <2>7, <2>8, <2>9 DEF AtMostOnce
<1>6. ASSUME NEW w \in Worker,
             UNCHANGED <<sent, jobs, job, results, counted>>,
             \/ /\ wpc[w] = "select"
                /\ wpc'[w] = "exited"
             \/ /\ wpc[w] \notin {"select", "exited"}
                /\ wpc'[w] # "select",
             \A v \in Worker \ {w} : wpc'[v] = wpc[v]
      PROVE  HandsOK' /\ AtMostOnce'
  BY <1>6 DEF HandsOK, AtMostOnce, Begun
<1>7. ASSUME NEW w \in Worker, WorkerStep(w) PROVE HandsOK' /\ AtMostOnce'
  <2>1. CASE LeaveSelect(w)
    BY <2>1, <1>6 DEF LeaveSelect, producerVars, collectorVars, TypeOK
  <2>2. ASSUME NEW o \in Outcome, FinishRequest(w, o)
        PROVE  HandsOK' /\ AtMostOnce'
    BY <2>2, <1>6 DEF FinishRequest, producerVars, collectorVars, TypeOK
  <2>3. CASE TallyOutcome(w)
    BY <2>3, <1>6 DEF TallyOutcome, producerVars, collectorVars, TypeOK
  <2>4. CASE AbortRun(w)
    BY <2>4, <1>6 DEF AbortRun, producerVars, collectorVars, TypeOK
  <2>5. CASE DropResult(w)
    BY <2>5, <1>6 DEF DropResult, producerVars, collectorVars, TypeOK
  <2> QED
    BY <1>3, <1>4, <1>7, <2>1, <2>2, <2>3, <2>4, <2>5 DEF WorkerStep
<1>8. CASE CheckLimits
  BY <1>1, <1>8 DEF CheckLimits, workerVars, collectorVars
<1>9. CASE StopProducer
  BY <1>1, <1>9 DEF StopProducer, workerVars, collectorVars
<1>10. CASE CloseResults
  BY <1>1, <1>10 DEF CloseResults, producerVars, workerVars
<1>11. CASE ReturnStats
  BY <1>1, <1>11 DEF ReturnStats, producerVars, workerVars
<1>12. CASE PassDeadline
  BY <1>1, <1>12 DEF PassDeadline, producerVars, workerVars, collectorVars
<1>13. CASE Kill
  BY <1>1, <1>13 DEF Kill, producerVars, workerVars, collectorVars
<1>14. CASE UNCHANGED vars
  BY <1>1, <1>14 DEF vars
<1> QED
  BY <1>2, <1>5, <1>7, <1>8, <1>9, <1>10, <1>11, <1>12, <1>13, <1>14
  DEF Next, Producer, Collector, AllGone

(* No request is ever run twice or counted twice. *)
THEOREM RunsAtMostOnce == Spec => []AtMostOnce
<1>1. OnceInv => AtMostOnce
  BY DEF OnceInv
<1> QED
  BY <1>1, OnceInit, OnceStep, PTL DEF Spec

-----------------------------------------------------------------------------
(* The deadline.  Once it has passed, every job sent is one of those that  *)
(* were in the channel or blocked in the producer's select at that moment. *)

LateInv ==
    /\ expired => Timed
    /\ expired => sent + (IF ppc = "send" THEN 1 ELSE 0) <= cut + JobsCap + 1

LEMMA LateStep == TypeOK /\ LateInv /\ [Next]_vars => LateInv'
<1> SUFFICES ASSUME TypeOK, LateInv, [Next]_vars PROVE LateInv'
  OBVIOUS
<1> USE CapsType DEF LateInv
<1>1. CASE CheckLimits
  BY <1>1 DEF CheckLimits, historyVars, TypeOK
<1>2. CASE SendJob
  BY <1>2 DEF SendJob, historyVars, TypeOK
<1>3. CASE StopProducer
  BY <1>3 DEF StopProducer, historyVars, TypeOK
<1>4. CASE UNCHANGED <<sent, ppc, expired, cut>>
  BY <1>4
<1>5. ASSUME NEW w \in Worker, WorkerStep(w) PROVE UNCHANGED <<sent, ppc, expired, cut>>
  BY <1>5 DEF WorkerStep, ReceiveJob, LeaveSelect, FinishRequest, TallyOutcome,
     AbortRun, DeliverResult, DropResult, producerVars, historyVars
<1>6. CASE Collector
  BY <1>4, <1>6 DEF Collector, CloseResults, CollectResult, ReturnStats,
     producerVars, historyVars
<1>7. CASE PassDeadline
  BY <1>7 DEF PassDeadline, producerVars, TypeOK, Begun
<1>8. CASE Kill \/ UNCHANGED vars
  BY <1>4, <1>8 DEF Kill, vars, producerVars, historyVars
<1> QED
  BY <1>1, <1>2, <1>3, <1>4, <1>5, <1>6, <1>7, <1>8 DEF Next, Producer, AllGone

(* In duration mode no more than 2C+1 requests start after the deadline.   *)
THEOREM LateWork == Spec => []LateWorkBounded
<1>1. Init => LateInv
  BY DEF Init, LateInv
<1>2. TypeOK /\ LateInv => LateWorkBounded
  BY CapsType DEF TypeOK, LateInv, LateWorkBounded, Begun
<1> QED
  BY <1>1, <1>2, LateStep, TypeCorrect, PTL DEF Spec

-----------------------------------------------------------------------------
(* The results channel is closed when the last worker is gone, and a       *)
(* worker that is gone stays gone.                                         *)

LEMMA ExitedForGood ==
  ASSUME TypeOK, [Next]_vars, NEW v \in Worker, wpc[v] = "exited"
  PROVE  wpc'[v] = "exited"
<1>1. ASSUME NEW w \in Worker, WorkerStep(w) PROVE wpc'[v] = "exited"
  BY <1>1 DEF WorkerStep, ReceiveJob, LeaveSelect, FinishRequest, TallyOutcome,
     AbortRun, DeliverResult, DropResult, TypeOK
<1>2. CASE UNCHANGED wpc
  BY <1>2
<1>3. CASE Producer \/ Collector \/ PassDeadline \/ Kill \/ UNCHANGED vars
  BY <1>2, <1>3 DEF Producer, CheckLimits, SendJob, StopProducer, Collector, CloseResults,
     CollectResult, ReturnStats, PassDeadline, Kill, vars, workerVars
<1> QED
  BY <1>1, <1>3 DEF Next, AllGone

(* The results are closed behind the last worker: nobody is left to send.  *)
WorkersGone == resultsClosed => \A w \in Worker : wpc[w] = "exited"

LEMMA ClosedLast == Spec => []WorkersGone
<1>1. Init => WorkersGone
  BY DEF Init, WorkersGone
<1>2. TypeOK /\ WorkersGone /\ [Next]_vars => WorkersGone'
  <2> SUFFICES ASSUME TypeOK, WorkersGone, [Next]_vars, resultsClosed'
               PROVE  \A w \in Worker : wpc'[w] = "exited"
    BY DEF WorkersGone
  <2>1. CASE resultsClosed
    BY <2>1, ExitedForGood DEF WorkersGone
  <2>2. CASE CloseResults
    BY <2>2 DEF CloseResults, workerVars
  <2>3. ASSUME ~ resultsClosed, ~ CloseResults PROVE FALSE
    BY <2>3 DEF Next, Producer, CheckLimits, SendJob, StopProducer, WorkerStep, ReceiveJob,
       LeaveSelect, FinishRequest, TallyOutcome, AbortRun, DeliverResult, DropResult,
       Collector, CollectResult, ReturnStats, PassDeadline, Kill, AllGone, vars, collectorVars
  <2> QED
    BY <2>1, <2>2, <2>3
<1> QED
  BY <1>1, <1>2, TypeCorrect, PTL DEF Spec

-----------------------------------------------------------------------------
(* Nothing is lost.  Every received job is in a hand, waiting as a result, *)
(* or counted - cancelled or not, because a worker that gives up still     *)
(* holds its job; and while the run is live, no worker gives up.           *)

Accounted == 1 .. Begun \subseteq InHand \cup Delivered \cup counted

ExitInv ==
    ~ Cancelled => \A w \in Worker :
        wpc[w] = "exited" => job[w] = 0 /\ jobs = <<>> /\ ppc = "closed"

USE DEF InHand

LEMMA AccountedStep == OnceInv /\ Accounted /\ [Next]_vars => Accounted'
<1> SUFFICES ASSUME OnceInv, Accounted, [Next]_vars PROVE Accounted'
  OBVIOUS
<1> USE CapsType DEF OnceInv
<1>1. CASE UNCHANGED <<sent, jobs, job, results, counted>>
  BY <1>1 DEF Accounted, Begun
<1>2. CASE SendJob
  <2>1. Begun' = Begun
    BY <1>2 DEF SendJob, Begun, TypeOK
  <2> QED
    BY <1>2, <2>1 DEF SendJob, Accounted, workerVars, collectorVars
<1>3. ASSUME NEW w \in Worker, ReceiveJob(w) PROVE Accounted'
  <2>1. Begun' = Begun + 1 /\ Begun \in Nat /\ UNCHANGED <<results, counted>>
    BY <1>3 DEF ReceiveJob, producerVars, collectorVars, Begun, TypeOK
  <2>2. Head(jobs) = Begun + 1
    <3>1. jobs \in Seq(Nat) /\ jobs # <<>>
      BY <1>3 DEF ReceiveJob, TypeOK
    <3>2. 1 \in 1 .. Len(jobs) /\ Head(jobs) = jobs[1]
      BY <3>1
    <3> QED
      BY <3>2 DEF AtMostOnce
  <2>3. /\ job'[w] = Begun + 1 /\ job[w] = 0
        /\ \A v \in Worker \ {w} : job'[v] = job[v]
    BY <1>3, <2>2 DEF ReceiveJob, TypeOK, HandsOK
  <2>4. InHand' = InHand \cup {Begun + 1}
    BY <2>1, <2>3
  <2>5. Delivered' = Delivered
    BY <2>1
  <2>6. 1 .. Begun' = (1 .. Begun) \cup {Begun + 1}
    BY <2>1
  <2> QED
    BY <2>1, <2>4, <2>5, <2>6 DEF Accounted
<1>4. ASSUME NEW w \in Worker, DeliverResult(w) PROVE Accounted'
  <2>1. Begun' = Begun /\ UNCHANGED counted
    BY <1>4 DEF DeliverResult, producerVars, Begun
  <2>2. InHand \subseteq InHand' \cup {job[w]}
    BY <1>4 DEF DeliverResult, TypeOK
  <2>3. PICK r \in Result : r.id = job[w] /\ results' = Append(results, r)
    BY <1>4 DEF DeliverResult, TypeOK, Result
  <2>4. results \in Seq(Result)
    BY DEF TypeOK
  <2>5. /\ Len(results') = Len(results) + 1 /\ Len(results) \in Nat
        /\ \A k \in 1 .. Len(results) : results'[k] = results[k]
        /\ results'[Len(results) + 1] = r
    BY <2>3, <2>4
  <2>6. Delivered \cup {job[w]} \subseteq Delivered'
    BY <2>3, <2>5
  <2> QED
    BY <2>1, <2>2, <2>6 DEF Accounted
<1>5. CASE CollectResult
  <2>1. Begun' = Begun /\ InHand' = InHand
    BY <1>5 DEF CollectResult, producerVars, workerVars, Begun
  <2>2. /\ results \in Seq(Result) /\ results # <<>>
        /\ results' = Tail(results) /\ counted' = counted \cup {Head(results).id}
    BY <1>5 DEF CollectResult, TypeOK
  <2>3. /\ Len(results') = Len(results) - 1 /\ Len(results) \in Nat \ {0}
        /\ \A k \in 1 .. Len(results') : results'[k] = results[k + 1]
        /\ Head(results) = results[1]
    BY <2>2
  <2>4. Delivered \subseteq Delivered' \cup {results[1].id}
    <3> SUFFICES ASSUME NEW k \in 1 .. Len(results), k # 1
                 PROVE  results[k].id \in Delivered'
      OBVIOUS
    <3>1. k - 1 \in 1 .. Len(results') /\ results'[k - 1] = results[k]
      BY <2>3
    <3> QED
      BY <3>1
  <2> QED
    BY <2>1, <2>2, <2>3, <2>4 DEF Accounted
<1>6. ASSUME NEW w \in Worker, WorkerStep(w) PROVE Accounted'
  BY <1>1, <1>3, <1>4, <1>6
  DEF WorkerStep, LeaveSelect, FinishRequest, TallyOutcome, AbortRun, DropResult,
      producerVars, collectorVars
<1>7. CASE CheckLimits \/ StopProducer \/ CloseResults \/ ReturnStats
           \/ PassDeadline \/ Kill \/ UNCHANGED vars
  BY <1>1, <1>7 DEF CheckLimits, StopProducer, CloseResults, ReturnStats, PassDeadline,
     Kill, vars, producerVars, workerVars, collectorVars
<1> QED
  BY <1>2, <1>5, <1>6, <1>7 DEF Next, Producer, Collector, AllGone

LEMMA ExitStep == TypeOK /\ HandsOK /\ ExitInv /\ [Next]_vars => ExitInv'
<1> SUFFICES ASSUME TypeOK, HandsOK, ExitInv, [Next]_vars, ~ Cancelled',
                    NEW v \in Worker, wpc'[v] = "exited"
             PROVE  job'[v] = 0 /\ jobs' = <<>> /\ ppc' = "closed"
  BY DEF ExitInv
<1>1. ~ Cancelled
  BY DEF Cancelled, Next, Producer, CheckLimits, SendJob, StopProducer, WorkerStep,
     ReceiveJob, LeaveSelect, FinishRequest, TallyOutcome, AbortRun, DeliverResult,
     DropResult, Collector, CloseResults, CollectResult, ReturnStats, PassDeadline,
     Kill, AllGone, vars
<1>2. CASE wpc[v] = "exited"
  <2>1. job[v] = 0 /\ jobs = <<>> /\ ppc = "closed"
    BY <1>1, <1>2 DEF ExitInv
  <2>2. ASSUME NEW w \in Worker, WorkerStep(w)
        PROVE  job'[v] = 0 /\ jobs' = <<>> /\ ppc' = "closed"
    BY <1>2, <2>1, <2>2 DEF WorkerStep, ReceiveJob, LeaveSelect, FinishRequest,
       TallyOutcome, AbortRun, DeliverResult, DropResult, producerVars, TypeOK
  <2>3. CASE Producer \/ Collector \/ PassDeadline \/ Kill \/ UNCHANGED vars
    BY <2>1, <2>3 DEF Producer, CheckLimits, SendJob, StopProducer, Collector, CloseResults,
       CollectResult, ReturnStats, PassDeadline, Kill, vars, producerVars, workerVars
  <2> QED
    BY <2>2, <2>3 DEF Next, AllGone
<1>3. CASE wpc[v] # "exited"
  <2>1. LeaveSelect(v)
    BY <1>1, <1>3 DEF Next, Producer, CheckLimits, SendJob, StopProducer, WorkerStep,
       ReceiveJob, LeaveSelect, FinishRequest, TallyOutcome, AbortRun, DeliverResult,
       DropResult, Collector, CloseResults, CollectResult, ReturnStats, PassDeadline,
       Kill, AllGone, vars, workerVars, TypeOK, Cancelled
  <2> QED
    BY <1>1, <2>1 DEF LeaveSelect, producerVars, HandsOK
<1> QED
  BY <1>2, <1>3

KeepInv == OnceInv /\ Accounted /\ ExitInv

LEMMA KeepInvariant == Spec => []KeepInv
<1>1. Init => KeepInv
  <2>1. Init => Accounted /\ ExitInv
    BY DEF Init, Accounted, ExitInv, Begun
  <2> QED
    BY <2>1, OnceInit DEF KeepInv
<1>2. KeepInv /\ [Next]_vars => KeepInv'
  BY OnceStep, AccountedStep, ExitStep DEF KeepInv, OnceInv
<1> QED
  BY <1>1, <1>2, PTL DEF Spec

(* While the run is live, every job sent is queued, being worked on,       *)
(* waiting as a result, or counted.                                        *)
THEOREM NothingLost == Spec => []NothingLostWhileLive
<1>1. KeepInv => NothingLostWhileLive
  <2> SUFFICES ASSUME KeepInv, ~ Cancelled
               PROVE  1 .. sent = Queued \cup (InHand \ Lost) \cup Delivered \cup counted
    BY DEF NothingLostWhileLive
  <2>1. Lost = {}
    BY DEF KeepInv, ExitInv, Lost
  <2>2. sent = Begun + Len(jobs) /\ Begun \in Nat /\ Len(jobs) \in Nat
    BY DEF KeepInv, OnceInv, TypeOK, Begun
  <2>3. Queued = (Begun + 1) .. sent
    <3>1. \A k \in 1 .. Len(jobs) : jobs[k] = Begun + k
      BY DEF KeepInv, OnceInv, AtMostOnce
    <3>2. \A n \in (Begun + 1) .. sent : n - Begun \in 1 .. Len(jobs) /\ jobs[n - Begun] = n
      BY <2>2, <3>1
    <3> QED
      BY <2>2, <3>1, <3>2 DEF Queued
  <2>4. InHand \cup Delivered \cup counted = 1 .. Begun
    <3>1. InHand \subseteq 1 .. Begun
      BY <2>2 DEF KeepInv, OnceInv, TypeOK, AtMostOnce
    <3>2. Delivered \subseteq 1 .. Begun
      BY DEF KeepInv, OnceInv, AtMostOnce
    <3>3. counted \subseteq 1 .. Begun
      BY DEF KeepInv, OnceInv, HandsOK
    <3> QED
      BY <3>1, <3>2, <3>3 DEF KeepInv, Accounted
  <2> QED
    BY <2>1, <2>2, <2>3, <2>4
<1> QED
  BY <1>1, KeepInvariant, PTL

-----------------------------------------------------------------------------
(* The numbers of the report.  A finished request is counted, or waiting   *)
(* as a result, or still with the worker that ran it.                      *)

WithWorker == {w \in Worker : \/ wpc[w] \in {"tally", "abort", "deliver"}
                              \/ wpc[w] = "exited" /\ job[w] # 0}

CountInv ==
    /\ IsFiniteSet(counted) /\ stats.total = Cardinality(counted)
    /\ completed = stats.total + Len(results) + Cardinality(WithWorker)

LEMMA WithWorkerType ==
    IsFiniteSet(WithWorker) /\ Cardinality(WithWorker) \in 0 .. Concurrency
<1>1. WithWorker \in SUBSET Worker
  BY DEF WithWorker
<1> QED
  BY <1>1, WorkerAssumption, FS_Subset, FS_CardinalityType, CapsType DEF Concurrency

LEMMA CountStep == OnceInv /\ CountInv /\ [Next]_vars => CountInv'
<1> SUFFICES ASSUME OnceInv, CountInv, [Next]_vars PROVE CountInv'
  OBVIOUS
<1> USE CapsType, WithWorkerType DEF OnceInv
<1>0. stats.total \in Nat /\ completed \in Nat /\ Len(results) \in Nat
  BY DEF TypeOK
<1>1. ASSUME UNCHANGED <<completed, stats, results, counted>>, WithWorker' = WithWorker
      PROVE  CountInv'
  BY <1>1 DEF CountInv
<1>2. ASSUME NEW w \in Worker, NEW o \in Outcome,
             FinishRequest(w, o)
      PROVE  CountInv'
  <2>1. /\ UNCHANGED <<stats, results, counted>> /\ completed' = completed + 1
        /\ UNCHANGED job /\ wpc' = [wpc EXCEPT ![w] = "tally"]
        /\ wpc[w] \in {"exec", "doomed"}
    BY <1>2 DEF FinishRequest, collectorVars
  <2>2. WithWorker' = WithWorker \cup {w} /\ w \notin WithWorker
    BY <2>1 DEF WithWorker, TypeOK
  <2>3. Cardinality(WithWorker') = Cardinality(WithWorker) + 1
    BY <2>2, FS_AddElement
  <2> QED
    BY <1>0, <2>1, <2>3 DEF CountInv
<1>3. ASSUME NEW w \in Worker, DeliverResult(w) PROVE CountInv'
  <2>1. /\ UNCHANGED <<stats, counted, completed>> /\ Len(results') = Len(results) + 1
        /\ wpc[w] = "deliver" /\ wpc' = [wpc EXCEPT ![w] = "select"]
        /\ job' = [job EXCEPT ![w] = 0]
    BY <1>3 DEF DeliverResult, TypeOK, Result
  <2>2. WithWorker' = WithWorker \ {w} /\ w \in WithWorker
    BY <2>1 DEF WithWorker, TypeOK
  <2>3. Cardinality(WithWorker') = Cardinality(WithWorker) - 1
    BY <2>2, FS_RemoveElement
  <2> QED
    BY <1>0, <2>1, <2>3 DEF CountInv
<1>4. ASSUME NEW w \in Worker,
             ReceiveJob(w) \/ LeaveSelect(w) \/ TallyOutcome(w) \/ AbortRun(w) \/ DropResult(w)
      PROVE  CountInv'
  <2>1. UNCHANGED <<completed, stats, results, counted>>
    BY <1>4 DEF ReceiveJob, LeaveSelect, TallyOutcome, AbortRun, DropResult, collectorVars
  <2>2. WithWorker' = WithWorker
    <3>1. ASSUME ReceiveJob(w) PROVE WithWorker' = WithWorker
      BY <3>1 DEF ReceiveJob, WithWorker, TypeOK
    <3>2. ASSUME LeaveSelect(w) PROVE WithWorker' = WithWorker
      BY <3>2 DEF LeaveSelect, WithWorker, TypeOK, HandsOK
    <3>3. ASSUME TallyOutcome(w) PROVE WithWorker' = WithWorker
      BY <3>3 DEF TallyOutcome, WithWorker, TypeOK
    <3>4. ASSUME AbortRun(w) \/ DropResult(w) PROVE WithWorker' = WithWorker
      BY <3>4 DEF AbortRun, DropResult, WithWorker, TypeOK, HandsOK
    <3> QED
      BY <1>4, <3>1, <3>2, <3>3, <3>4
  <2> QED
    BY <1>1, <2>1, <2>2
<1>5. CASE CollectResult
  <2>1. /\ results \in Seq(Result) /\ results # <<>>
        /\ results' = Tail(results) /\ counted' = counted \cup {Head(results).id}
        /\ stats'.total = stats.total + 1 /\ UNCHANGED <<completed, wpc, job>>
    BY <1>5 DEF CollectResult, TypeOK, workerVars
  <2>2. Len(results') = Len(results) - 1
    BY <2>1
  <2>3. Head(results).id \notin counted
    BY <2>1 DEF AtMostOnce
  <2>4. IsFiniteSet(counted') /\ Cardinality(counted') = Cardinality(counted) + 1
    BY <2>1, <2>3, FS_AddElement DEF CountInv
  <2>5. WithWorker' = WithWorker
    BY <2>1 DEF WithWorker
  <2> QED
    BY <1>0, <2>1, <2>2, <2>4, <2>5 DEF CountInv
<1>6. ASSUME NEW w \in Worker, WorkerStep(w) PROVE CountInv'
  BY <1>2, <1>3, <1>4, <1>6 DEF WorkerStep
<1>7. CASE Producer \/ CloseResults \/ ReturnStats \/ PassDeadline \/ Kill \/ UNCHANGED vars
  <2>1. UNCHANGED <<completed, stats, results, counted, wpc, job>>
    BY <1>7 DEF Producer, CheckLimits, SendJob, StopProducer, CloseResults, ReturnStats,
       PassDeadline, Kill, vars, workerVars, collectorVars
  <2> QED
    BY <1>1, <2>1 DEF WithWorker
<1> QED
  BY <1>5, <1>6, <1>7 DEF Next, Collector, AllGone

LEMMA CountInvariant == Spec => [](OnceInv /\ CountInv)
<1>1. Init => OnceInv /\ CountInv
  <2> SUFFICES ASSUME Init PROVE CountInv
    BY OnceInit
  <2>1. WithWorker = {}
    BY DEF Init, WithWorker
  <2> QED
    BY <2>1, FS_EmptySet DEF Init, CountInv
<1>2. OnceInv /\ CountInv /\ [Next]_vars => (OnceInv /\ CountInv)'
  BY OnceStep, CountStep
<1> QED
  BY <1>1, <1>2, PTL DEF Spec

(* Run returns with an empty, closed results channel. *)
ReturnInv == returned => resultsClosed /\ results = <<>>

LEMMA ReturnInvariant == Spec => []ReturnInv
<1>1. Init => ReturnInv
  BY DEF Init, ReturnInv
<1>2. TypeOK /\ WorkersGone /\ ReturnInv /\ [Next]_vars => ReturnInv'
  <2> SUFFICES ASSUME TypeOK, WorkersGone, ReturnInv, [Next]_vars PROVE ReturnInv'
    OBVIOUS
  <2>1. ASSUME NEW w \in Worker, WorkerStep(w) PROVE ReturnInv'
    BY <2>1 DEF WorkerStep, ReceiveJob, LeaveSelect, FinishRequest, TallyOutcome,
       AbortRun, DeliverResult, DropResult, collectorVars, ReturnInv, WorkersGone
  <2>2. CASE Producer \/ Collector \/ PassDeadline \/ Kill \/ UNCHANGED vars
    BY <2>2 DEF Producer, CheckLimits, SendJob, StopProducer, Collector, CloseResults,
       CollectResult, ReturnStats, PassDeadline, Kill, vars, collectorVars, ReturnInv
  <2> QED
    BY <2>1, <2>2 DEF Next, AllGone
<1> QED
  BY <1>1, <1>2, TypeCorrect, ClosedLast, PTL DEF Spec

(* A report lacks at most one finished request per worker. *)
THEOREM LossIsBounded == Spec => []LossBounded
<1>1. OnceInv /\ CountInv /\ ReturnInv => LossBounded
  BY WithWorkerType, CapsType DEF OnceInv, TypeOK, CountInv, ReturnInv, LossBounded
<1> QED
  BY <1>1, CountInvariant, ReturnInvariant, PTL

-----------------------------------------------------------------------------
(* The evidence of an abort: failures that are collected, that wait as     *)
(* results, and that a worker holds after it has tallied them.  It never   *)
(* shrinks, and the streak is never ahead of it.                           *)

FailedIn(s) == {k \in DOMAIN s : CountsAsFailed(s[k].outcome)}
FailedHands == {w \in Worker : /\ wpc[w] \in {"abort", "deliver", "exited"}
                               /\ Holds(w) /\ CountsAsFailed(outcome[w])}
Evidence == stats.failed + Cardinality(FailedIn(results)) + Cardinality(FailedHands)

EvidenceInv ==
    /\ streak <= Evidence
    /\ ctx = "aborted" \/ (\E w \in Worker : wpc[w] = "abort") => Evidence >= AbortThreshold

LEMMA FailedInType ==
    ASSUME NEW s \in Seq(Result)
    PROVE  IsFiniteSet(FailedIn(s)) /\ Cardinality(FailedIn(s)) \in Nat
<1>1. DOMAIN s = 1 .. Len(s) /\ Len(s) \in Nat
  OBVIOUS
<1>2. IsFiniteSet(DOMAIN s)
  BY <1>1, FS_Interval
<1>3. FailedIn(s) \in SUBSET DOMAIN s
  BY DEF FailedIn
<1> QED
  BY <1>2, <1>3, FS_Subset, FS_CardinalityType

LEMMA FailedAppended ==
    ASSUME NEW s \in Seq(Result), NEW x \in Result
    PROVE  /\ CountsAsFailed(x.outcome) =>
                  Cardinality(FailedIn(Append(s, x))) = Cardinality(FailedIn(s)) + 1
           /\ ~ CountsAsFailed(x.outcome) =>
                  Cardinality(FailedIn(Append(s, x))) = Cardinality(FailedIn(s))
<1> DEFINE u == Append(s, x)
           n == Len(s) + 1
<1>1. /\ DOMAIN u = (DOMAIN s) \cup {n} /\ n \notin DOMAIN s
      /\ u[n] = x /\ \A k \in DOMAIN s : u[k] = s[k]
  OBVIOUS
<1>2. n \notin FailedIn(s)
  BY <1>1 DEF FailedIn
<1> HIDE DEF u, n
<1>3. CountsAsFailed(x.outcome) => FailedIn(u) = FailedIn(s) \cup {n}
  BY <1>1 DEF FailedIn
<1>4. ~ CountsAsFailed(x.outcome) => FailedIn(u) = FailedIn(s)
  BY <1>1 DEF FailedIn
<1>5. Cardinality(FailedIn(s) \cup {n}) = Cardinality(FailedIn(s)) + 1
  BY <1>2, FailedInType, FS_AddElement
<1> QED
  BY <1>3, <1>4, <1>5 DEF u

LEMMA FailedCollected ==
    ASSUME NEW s \in Seq(Result), s # <<>>
    PROVE  /\ CountsAsFailed(Head(s).outcome) =>
                  Cardinality(FailedIn(s)) <= Cardinality(FailedIn(Tail(s))) + 1
           /\ ~ CountsAsFailed(Head(s).outcome) =>
                  Cardinality(FailedIn(s)) <= Cardinality(FailedIn(Tail(s)))
<1> DEFINE t == Tail(s)
           A == FailedIn(s) \ {1}
           B == FailedIn(t)
           f == [k \in A |-> k - 1]
<1>1. /\ t \in Seq(Result) /\ Len(t) = Len(s) - 1 /\ Len(s) \in Nat /\ Head(s) = s[1]
      /\ \A k \in 1 .. Len(t) : t[k] = s[k + 1]
      /\ DOMAIN t = 1 .. Len(t) /\ DOMAIN s = 1 .. Len(s)
  BY HeadTailProperties
<1>2. IsFiniteSet(FailedIn(s)) /\ IsFiniteSet(B) /\ Cardinality(FailedIn(s)) \in Nat /\ Cardinality(B) \in Nat
  BY <1>1, FailedInType
<1> HIDE DEF t
<1>3. ASSUME NEW k \in A PROVE k - 1 \in B /\ k \in Int
  <2>1. k \in 1 .. Len(s) /\ k # 1 /\ CountsAsFailed(s[k].outcome)
    BY <1>1 DEF FailedIn
  <2>2. k - 1 \in 1 .. Len(t) /\ (k - 1) + 1 = k
    BY <1>1, <2>1
  <2>3. t[k - 1] = s[k]
    BY <1>1, <2>2
  <2> QED
    BY <1>1, <2>1, <2>2, <2>3 DEF FailedIn
<1>4. f \in Injection(A, B)
  <2>1. \A k, l \in A : f[k] = f[l] => k = l
    BY <1>3
  <2>2. f \in [A -> B]
    BY <1>3
  <2> HIDE DEF f, A, B
  <2> QED
    BY <2>1, <2>2 DEF Injection, IsInjective
<1>5. Cardinality(A) <= Cardinality(B)
  BY <1>2, <1>4, FS_Injection
<1>6. 1 \in FailedIn(s) <=> CountsAsFailed(Head(s).outcome)
  BY <1>1 DEF FailedIn
<1>7. Cardinality(A) = IF 1 \in FailedIn(s) THEN Cardinality(FailedIn(s)) - 1 ELSE Cardinality(FailedIn(s))
  BY <1>2, FS_RemoveElement
<1> HIDE DEF A, B
<1>8. Cardinality(FailedIn(s)) <= Cardinality(B) + 1
  BY <1>2, <1>5, <1>7
<1>9. ~ CountsAsFailed(Head(s).outcome) => Cardinality(FailedIn(s)) <= Cardinality(B)
  BY <1>2, <1>5, <1>6, <1>7
<1> QED
  BY <1>8, <1>9 DEF B, t

LEMMA FailedHandsType == IsFiniteSet(FailedHands) /\ Cardinality(FailedHands) \in Nat
<1>1. FailedHands \in SUBSET Worker
  BY DEF FailedHands
<1> QED
  BY <1>1, WorkerAssumption, FS_Subset, FS_CardinalityType

LEMMA EvidenceStep == TypeOK /\ TypeOK' /\ HandsOK /\ EvidenceInv /\ [Next]_vars => EvidenceInv'
<1> SUFFICES ASSUME TypeOK, TypeOK', HandsOK, EvidenceInv, [Next]_vars PROVE EvidenceInv'
  OBVIOUS
<1> DEFINE F == Cardinality(FailedIn(results))
           H == Cardinality(FailedHands)
<1>a. /\ stats.failed \in Nat /\ F \in Nat /\ H \in Nat /\ streak \in Nat
      /\ AbortThreshold \in Nat /\ Evidence = stats.failed + F + H
      /\ IsFiniteSet(FailedHands)
  BY FailedInType, FailedHandsType, ThresholdAssumption DEF TypeOK, Evidence
<1>b. /\ F' \in Nat /\ H' \in Nat /\ stats'.failed \in Nat /\ IsFiniteSet(FailedHands')
      /\ Evidence' = stats'.failed + F' + H'
  <2>1. FailedHands' \in SUBSET Worker
    BY DEF FailedHands
  <2>2. IsFiniteSet(FailedHands') /\ H' \in Nat
    BY <2>1, WorkerAssumption, FS_Subset, FS_CardinalityType
  <2> QED
    BY <2>2, FailedInType DEF TypeOK, Evidence
<1> HIDE DEF F, H
(* The evidence does not shrink, the streak does not grow, nobody aborts.  *)
<1>1. ASSUME Evidence <= Evidence', streak' = streak \/ streak' = 0,
             ctx' = "aborted" \/ (\E w \in Worker : wpc'[w] = "abort")
                 => ctx = "aborted" \/ (\E w \in Worker : wpc[w] = "abort")
      PROVE  EvidenceInv'
  BY <1>1, <1>a, <1>b DEF EvidenceInv
<1>2. ASSUME NEW w \in Worker, ReceiveJob(w) \/ LeaveSelect(w) \/ AbortRun(w) \/ DropResult(w)
                               \/ \E o \in Outcome : FinishRequest(w, o)
      PROVE  EvidenceInv'
  <2>1. /\ UNCHANGED <<stats, results, streak>>
        /\ ctx' = ctx \/ wpc[w] = "abort"
        /\ \A v \in Worker \ {w} : wpc'[v] = wpc[v] /\ job'[v] = job[v] /\ outcome'[v] = outcome[v]
        /\ wpc'[w] # "abort"
        /\ \/ wpc[w] \in {"select", "exec", "doomed"}
           \/ /\ wpc[w] \in {"abort", "deliver"} /\ wpc'[w] = "exited"
              /\ job'[w] = job[w] /\ outcome'[w] = outcome[w]
    BY <1>2 DEF ReceiveJob, LeaveSelect, AbortRun, DropResult, FinishRequest, collectorVars, TypeOK
  <2>2. FailedHands \subseteq FailedHands'
    BY <2>1 DEF FailedHands
  <2>3. H <= H'
    BY <1>b, <2>2, FS_Subset DEF H
  <2>4. F' = F
    BY <2>1 DEF F
  <2>5. Evidence <= Evidence'
    BY <1>a, <1>b, <2>1, <2>3, <2>4
  <2> QED
    BY <1>1, <2>1, <2>5
<1>3. ASSUME NEW w \in Worker, TallyOutcome(w) PROVE EvidenceInv'
  <2>1. /\ UNCHANGED <<stats, results, ctx, job, outcome>>
        /\ wpc[w] = "tally" /\ Holds(w)
        /\ streak' = IF HasError(outcome[w]) THEN streak + 1 ELSE 0
        /\ wpc' = [wpc EXCEPT ![w] = IF streak' >= AbortThreshold THEN "abort" ELSE "deliver"]
    BY <1>3 DEF TallyOutcome, collectorVars, HandsOK
  <2>2. wpc'[w] \in {"abort", "deliver"} /\ \A v \in Worker \ {w} : wpc'[v] = wpc[v]
    BY <2>1 DEF TypeOK
  <2>3. w \notin FailedHands
    BY <2>1 DEF FailedHands
  <2>4. FailedHands \subseteq FailedHands'
    BY <2>1, <2>2 DEF FailedHands
  <2>5. HasError(outcome[w]) => FailedHands \cup {w} \subseteq FailedHands'
    BY <2>1, <2>2, <2>4 DEF FailedHands, HasError, CountsAsFailed
  <2>6. H <= H'
    BY <1>b, <2>4, FS_Subset DEF H
  <2>7. HasError(outcome[w]) => H + 1 <= H'
    <3>1. Cardinality(FailedHands \cup {w}) = Cardinality(FailedHands) + 1
      BY <1>a, <2>3, FS_AddElement
    <3> QED
      BY <1>b, <2>5, <3>1, FS_Subset DEF H
  <2>8. F' = F
    BY <2>1 DEF F
  <2>9. streak' <= Evidence' /\ Evidence <= Evidence'
    <3>1. CASE HasError(outcome[w])
      BY <1>a, <1>b, <2>1, <2>7, <2>8, <3>1 DEF EvidenceInv
    <3>2. CASE ~ HasError(outcome[w])
      BY <1>a, <1>b, <2>1, <2>6, <2>8, <3>2 DEF EvidenceInv
    <3> QED
      BY <3>1, <3>2
  <2>10. wpc'[w] = "abort" => streak' >= AbortThreshold
    BY <2>1 DEF TypeOK
  <2>11. ASSUME ctx' = "aborted" \/ (\E v \in Worker : wpc'[v] = "abort")
         PROVE  Evidence' >= AbortThreshold
    <3>1. CASE wpc'[w] = "abort"
      BY <1>a, <1>b, <2>9, <2>10, <3>1 DEF TypeOK
    <3>2. CASE wpc'[w] # "abort"
      <4>1. Evidence >= AbortThreshold
        BY <2>1, <2>2, <2>11, <3>2 DEF EvidenceInv
      <4> QED
        BY <1>a, <1>b, <2>9, <4>1
    <3> QED
      BY <3>1, <3>2
  <2> QED
    BY <2>9, <2>11 DEF EvidenceInv
<1>4. ASSUME NEW w \in Worker, DeliverResult(w) PROVE EvidenceInv'
  <2> DEFINE x == [id |-> job[w], outcome |-> outcome[w]]
  <2>1. /\ UNCHANGED <<stats, streak, ctx>> /\ results' = Append(results, x)
        /\ wpc[w] = "deliver" /\ Holds(w) /\ wpc'[w] = "select"
        /\ \A v \in Worker \ {w} : wpc'[v] = wpc[v] /\ job'[v] = job[v] /\ outcome'[v] = outcome[v]
    BY <1>4 DEF DeliverResult, TypeOK, HandsOK
  <2>2. x \in Result /\ x.outcome = outcome[w] /\ results \in Seq(Result)
    BY DEF Result, TypeOK
  <2> HIDE DEF x
  <2>3. FailedHands' = FailedHands \ {w} /\ (w \in FailedHands <=> CountsAsFailed(outcome[w]))
    BY <2>1 DEF FailedHands
  <2>4. H' = IF w \in FailedHands THEN H - 1 ELSE H
    BY <1>a, <2>3, FS_RemoveElement DEF H
  <2>5. CASE CountsAsFailed(outcome[w])
    <3>1. F' = F + 1
      BY <2>1, <2>2, <2>5, FailedAppended DEF F
    <3>2. Evidence <= Evidence'
      BY <1>a, <1>b, <2>1, <2>3, <2>4, <2>5, <3>1
    <3> QED
      BY <1>1, <2>1, <3>2
  <2>6. CASE ~ CountsAsFailed(outcome[w])
    <3>1. F' = F
      BY <2>1, <2>2, <2>6, FailedAppended DEF F
    <3>2. Evidence <= Evidence'
      BY <1>a, <1>b, <2>1, <2>3, <2>4, <2>6, <3>1
    <3> QED
      BY <1>1, <2>1, <3>2
  <2> QED
    BY <2>5, <2>6
<1>5. CASE CollectResult
  <2>1. /\ results \in Seq(Result) /\ results # <<>> /\ results' = Tail(results)
        /\ stats'.failed = stats.failed + (IF CountsAsFailed(Head(results).outcome) THEN 1 ELSE 0)
        /\ UNCHANGED <<wpc, job, outcome, streak, ctx>>
    BY <1>5 DEF CollectResult, TypeOK, workerVars
  <2>2. H' = H
    BY <2>1 DEF H, FailedHands
  <2>3. Evidence <= Evidence'
    <3>1. CASE CountsAsFailed(Head(results).outcome)
      <4>1. F <= F' + 1
        BY <2>1, <3>1, FailedCollected DEF F
      <4>2. stats'.failed = stats.failed + 1
        BY <2>1, <3>1
      <4>3. Evidence' = (stats.failed + 1) + F' + H
        BY <1>b, <2>2, <4>2
      <4>4. \A s, f, g, h \in Nat : f <= g + 1 => s + f + h <= (s + 1) + g + h
        OBVIOUS
      <4>5. stats.failed \in Nat /\ F \in Nat /\ F' \in Nat /\ H \in Nat
        BY <1>a, <1>b
      <4> QED
        BY <1>a, <4>1, <4>3, <4>4, <4>5
    <3>2. CASE ~ CountsAsFailed(Head(results).outcome)
      <4>1. F <= F'
        BY <2>1, <3>2, FailedCollected DEF F
      <4> QED
        BY <1>a, <1>b, <2>1, <2>2, <3>2, <4>1
    <3> QED
      BY <3>1, <3>2
  <2> QED
    BY <1>1, <2>1, <2>3
<1>6. CASE Producer \/ CloseResults \/ ReturnStats \/ PassDeadline \/ Kill \/ UNCHANGED vars
  <2>1. /\ UNCHANGED <<stats, results, wpc, job, outcome, streak>>
        /\ ctx' = ctx \/ ctx' = "killed"
    BY <1>6 DEF Producer, CheckLimits, SendJob, StopProducer, CloseResults, ReturnStats,
       PassDeadline, Kill, vars, workerVars, collectorVars
  <2>2. F' = F /\ H' = H
    BY <2>1 DEF F, H, FailedHands
  <2>3. Evidence <= Evidence'
    BY <1>a, <1>b, <2>1, <2>2
  <2> QED
    BY <1>1, <2>1, <2>3
<1> QED
  BY <1>2, <1>3, <1>4, <1>5, <1>6 DEF Next, WorkerStep, Collector, AllGone

(* A run is never aborted for less than its threshold of failures: what    *)
(* the report does not show of them is in the hands of workers that have   *)
(* left (worker.go, the streak that a success of any worker resets).       *)
THEOREM AbortsOnEvidence == Spec => []AbortHasEvidence
<1>1. Init => EvidenceInv
  <2> SUFFICES ASSUME Init PROVE EvidenceInv
    OBVIOUS
  <2>1. FailedIn(results) = {} /\ FailedHands = {}
    BY DEF Init, FailedIn, FailedHands
  <2>2. Cardinality(FailedIn(results)) = 0 /\ Cardinality(FailedHands) = 0
    BY <2>1, FS_EmptySet
  <2>3. stats.failed = 0 /\ streak = 0 /\ ctx = "live" /\ \A w \in Worker : wpc[w] = "select"
    BY DEF Init
  <2>4. Evidence = 0
    BY <2>2, <2>3 DEF Evidence
  <2> QED
    BY <2>3, <2>4 DEF EvidenceInv
<1>2. TypeOK /\ ReturnInv /\ EvidenceInv => AbortHasEvidence
  <2> SUFFICES ASSUME TypeOK, ReturnInv, EvidenceInv, returned, ctx = "aborted"
               PROVE  stats.failed + Cardinality({w \in Worker : Holds(w) /\ CountsAsFailed(outcome[w])})
                          >= AbortThreshold
    BY DEF AbortHasEvidence
  <2> DEFINE E == {w \in Worker : Holds(w) /\ CountsAsFailed(outcome[w])}
  <2>1. FailedIn(results) = {}
    BY DEF ReturnInv, FailedIn
  <2>2. IsFiniteSet(E) /\ Cardinality(E) \in Nat
    BY WorkerAssumption, FS_Subset, FS_CardinalityType
  <2>3. Cardinality(FailedHands) <= Cardinality(E)
    BY <2>2, FS_Subset DEF FailedHands
  <2>4. Evidence >= AbortThreshold
    BY DEF EvidenceInv
  <2>5. stats.failed \in Nat /\ AbortThreshold \in Nat
    BY ThresholdAssumption DEF TypeOK
  <2> HIDE DEF E
  <2>6. stats.failed + Cardinality(E) >= AbortThreshold
    BY <2>1, <2>2, <2>3, <2>4, <2>5, FailedHandsType, FS_EmptySet DEF Evidence
  <2> QED
    BY <2>6 DEF E
<1> QED
  BY <1>1, <1>2, EvidenceStep, CountInvariant, ReturnInvariant, PTL DEF Spec, OnceInv

-----------------------------------------------------------------------------
(* What the producer has generated when it stops. *)
WorkloadInv == ~ Timed =>
    /\ sent <= TotalReqs
    /\ ppc = "send" => sent < TotalReqs
    /\ ppc = "closed" /\ ~ Cancelled => sent = TotalReqs

LEMMA WorkloadInvariant == Spec => []WorkloadInv
<1> USE WorkloadAssumption
<1>1. Init => WorkloadInv
  BY DEF Init, WorkloadInv
<1>2. TypeOK /\ WorkloadInv /\ [Next]_vars => WorkloadInv'
  <2> SUFFICES ASSUME TypeOK, WorkloadInv, [Next]_vars PROVE WorkloadInv'
    OBVIOUS
  <2>1. CASE Producer
    BY <2>1 DEF Producer, CheckLimits, SendJob, StopProducer, WorkloadInv, Cancelled, TypeOK
  <2>2. ASSUME UNCHANGED <<sent, ppc>>, Cancelled => Cancelled' PROVE WorkloadInv'
    BY <2>2 DEF WorkloadInv
  <2>3. ASSUME NEW w \in Worker, WorkerStep(w)
        PROVE  UNCHANGED <<sent, ppc>> /\ (Cancelled => Cancelled')
    BY <2>3 DEF WorkerStep, ReceiveJob, LeaveSelect, FinishRequest, TallyOutcome,
       AbortRun, DeliverResult, DropResult, producerVars, Cancelled
  <2>4. CASE Collector \/ PassDeadline \/ Kill \/ UNCHANGED vars
    BY <2>2, <2>4 DEF Collector, CloseResults, CollectResult, ReturnStats, PassDeadline,
       Kill, vars, producerVars, Cancelled
  <2> QED
    BY <2>1, <2>2, <2>3, <2>4 DEF Next, AllGone
<1> QED
  BY <1>1, <1>2, TypeCorrect, PTL DEF Spec

(* A run nobody cancelled reports every request it generated, and in count *)
(* mode exactly TotalReqs of them.                                         *)
THEOREM ReportIsComplete == Spec => []CompleteReport
<1>1. KeepInv /\ CountInv /\ ReturnInv /\ WorkersGone /\ WorkloadInv => CompleteReport
  <2> SUFFICES ASSUME KeepInv, CountInv, ReturnInv, WorkersGone, WorkloadInv,
                      returned, ~ Cancelled
               PROVE  /\ stats.total = completed
                      /\ stats.total = sent
                      /\ ~ Timed => stats.total = TotalReqs
    BY DEF CompleteReport
  <2>1. results = <<>> /\ \A w \in Worker : wpc[w] = "exited"
    BY DEF ReturnInv, WorkersGone
  <2>2. \A w \in Worker : job[w] = 0 /\ jobs = <<>> /\ ppc = "closed"
    BY <2>1 DEF KeepInv, ExitInv
  <2>3. jobs = <<>> /\ ppc = "closed"
    BY <2>2, WorkerAssumption
  <2>4. WithWorker = {} /\ InHand = {} /\ Delivered = {}
    BY <2>1, <2>2 DEF WithWorker
  <2>5. stats.total = completed
    BY <2>1, <2>4, FS_EmptySet DEF CountInv, KeepInv, OnceInv, TypeOK
  <2>6. counted = 1 .. sent /\ sent \in Nat
    <3>1. sent \in Nat /\ Begun = sent
      BY <2>3 DEF KeepInv, OnceInv, TypeOK, Begun
    <3>2. counted = 1 .. Begun
      BY <2>4 DEF KeepInv, OnceInv, Accounted, HandsOK
    <3> QED
      BY <3>1, <3>2
  <2>7. Cardinality(1 .. sent) = sent
    BY <2>6, FS_Interval
  <2> QED
    BY <2>3, <2>5, <2>6, <2>7 DEF CountInv, WorkloadInv
<1> QED
  BY <1>1, KeepInvariant, CountInvariant, ReturnInvariant, ClosedLast,
     WorkloadInvariant, PTL

-----------------------------------------------------------------------------
(* Refinement: each step of the engine is a step of LoadRun or leaves its  *)
(* variables alone.                                                        *)

RefineInv == KeepInv /\ ReturnInv /\ WorkersGone /\ WorkloadInv

AbsNext == [Abstract!Next]_(Abstract!vars)

LEMMA ReturnedMeansIdle ==
  ASSUME RefineInv
  PROVE  /\ \A w \in Worker : wpc[w] # "exited" => ~ returned
         /\ results # <<>> => ~ returned
         /\ returned /\ ~ Cancelled => ppc = "closed"
  BY WorkerAssumption DEF RefineInv, ReturnInv, WorkersGone, KeepInv, ExitInv

LEMMA AbsStutter ==
  ASSUME UNCHANGED <<sent, counted, returned>>, Begun' = Begun, Lost' = Lost,
         Cancelled' = Cancelled
  PROVE  AbsNext
  BY DEF AbsNext, Abstract!vars

LEMMA AbsWorkerStep ==
  ASSUME RefineInv, NEW w \in Worker, WorkerStep(w)
  PROVE  AbsNext
<1> USE DEF RefineInv, KeepInv, OnceInv
<1>1. /\ TypeOK /\ HandsOK /\ AtMostOnce /\ Begun \in Nat /\ sent \in Nat
      /\ job \in [Worker -> Nat] /\ wpc \in [Worker -> WorkerPC]
  BY DEF TypeOK
<1>2. CASE ReceiveJob(w)
  <2>1. Begun' = Begun + 1 /\ Begun < sent
    BY <1>1, <1>2 DEF ReceiveJob, producerVars, Begun, TypeOK
  <2>2. Lost' = Lost
    BY <1>1, <1>2 DEF ReceiveJob, Lost
  <2>3. ~ returned /\ UNCHANGED <<sent, counted, returned>> /\ Cancelled' = Cancelled
    BY <1>2, ReturnedMeansIdle DEF ReceiveJob, producerVars, collectorVars, Cancelled
  <2> QED
    BY <2>1, <2>2, <2>3 DEF AbsNext, Abstract!Next, Abstract!Begin
<1>3. CASE LeaveSelect(w)
  <2>1. Lost' = Lost /\ Begun' = Begun
    BY <1>1, <1>3 DEF LeaveSelect, producerVars, Lost, Begun, HandsOK
  <2> QED
    BY <1>3, <2>1, AbsStutter DEF LeaveSelect, producerVars, collectorVars, Cancelled
<1>4. CASE \/ \E o \in Outcome : FinishRequest(w, o)
           \/ TallyOutcome(w)
  <2>1. Lost' = Lost /\ Begun' = Begun
    BY <1>1, <1>4 DEF FinishRequest, TallyOutcome, producerVars, Lost, Begun
  <2> QED
    BY <1>4, <2>1, AbsStutter DEF FinishRequest, TallyOutcome, producerVars,
       collectorVars, Cancelled
<1>5. CASE DeliverResult(w)
  <2>1. Lost' = Lost /\ Begun' = Begun
    BY <1>1, <1>5 DEF DeliverResult, producerVars, Lost, Begun
  <2> QED
    BY <1>5, <2>1, AbsStutter DEF DeliverResult, producerVars, Cancelled
<1>6. CASE AbortRun(w) \/ DropResult(w)
  <2>1. /\ ~ returned /\ UNCHANGED <<sent, counted, returned, jobs, job>> /\ Cancelled'
        /\ job[w] # 0 /\ wpc[w] # "exited" /\ wpc' = [wpc EXCEPT ![w] = "exited"]
    BY <1>1, <1>6, ReturnedMeansIdle
    DEF AbortRun, DropResult, producerVars, collectorVars, Cancelled, HandsOK
  <2>2. Lost' = Lost \cup {job[w]} /\ Begun' = Begun
    BY <1>1, <2>1 DEF Lost, Begun
  <2>3. job[w] \in Abstract!Running
    BY <1>1, <2>1 DEF AtMostOnce, Abstract!Running, Lost
  <2> QED
    BY <2>1, <2>2, <2>3 DEF AbsNext, Abstract!Next, Abstract!Lose
<1> QED
  BY <1>2, <1>3, <1>4, <1>5, <1>6 DEF WorkerStep

LEMMA AbsStep == RefineInv /\ [Next]_vars => AbsNext
<1> SUFFICES ASSUME RefineInv, [Next]_vars PROVE AbsNext
  OBVIOUS
<1> USE DEF RefineInv, KeepInv, OnceInv
<1>1. CASE SendJob
  <2>1. Begun' = Begun /\ Lost' = Lost
    BY <1>1 DEF SendJob, workerVars, Begun, Lost, TypeOK
  <2>2. returned => Cancelled
    BY <1>1, ReturnedMeansIdle DEF SendJob
  <2>3. Timed \/ sent < TotalReqs
    BY <1>1 DEF SendJob, WorkloadInv
  <2> QED
    BY <1>1, <2>1, <2>2, <2>3
    DEF SendJob, AbsNext, Abstract!Next, Abstract!Dispatch, collectorVars, Cancelled
<1>2. CASE CollectResult
  <2>1. /\ results \in Seq(Result) /\ results # <<>>
        /\ counted' = counted \cup {results[1].id} /\ 1 \in 1 .. Len(results)
    BY <1>2 DEF CollectResult, TypeOK
  <2>2. results[1].id \in Abstract!Running
    <3>1. results[1].id \in (1 .. Begun) \ counted /\ results[1].id \in Delivered
      BY <2>1 DEF AtMostOnce
    <3>2. results[1].id \notin Lost
      BY <3>1 DEF AtMostOnce, Lost
    <3> QED
      BY <3>1, <3>2 DEF Abstract!Running
  <2>3. Begun' = Begun /\ Lost' = Lost /\ UNCHANGED <<sent, returned>> /\ Cancelled' = Cancelled
    BY <1>2 DEF CollectResult, producerVars, workerVars, Begun, Lost, Cancelled
  <2> QED
    BY <2>1, <2>2, <2>3, ReturnedMeansIdle DEF AbsNext, Abstract!Next, Abstract!Count
<1>3. CASE ReturnStats
  <2>1. /\ ~ returned /\ returned' /\ results = <<>> /\ resultsClosed
        /\ \A w \in Worker : wpc[w] = "exited"
    BY <1>3 DEF ReturnStats, WorkersGone
  <2>2. Abstract!Running = {}
    <3>1. Delivered = {} /\ InHand \subseteq Lost
      BY <2>1 DEF Lost
    <3> QED
      BY <3>1 DEF Accounted, Abstract!Running
  <2>3. ~ Cancelled => Begun = sent /\ (Timed \/ sent = TotalReqs)
    <3>1. ~ Cancelled => jobs = <<>> /\ ppc = "closed"
      BY <2>1, WorkerAssumption DEF ExitInv
    <3> QED
      BY <3>1 DEF Begun, TypeOK, WorkloadInv
  <2>4. UNCHANGED <<sent, counted>> /\ Begun' = Begun /\ Lost' = Lost /\ Cancelled' = Cancelled
    BY <1>3 DEF ReturnStats, producerVars, workerVars, Begun, Lost, Cancelled
  <2>5. Abstract!Return
    BY <2>1, <2>2, <2>3, <2>4 DEF Abstract!Return
  <2> QED
    BY <2>5 DEF AbsNext, Abstract!Next
<1>4. CASE Kill
  <2>1. UNCHANGED <<sent, counted, returned>> /\ Begun' = Begun /\ Lost' = Lost /\ Cancelled'
    BY <1>4 DEF Kill, producerVars, workerVars, collectorVars, Begun, Lost, Cancelled
  <2> QED
    BY <2>1 DEF AbsNext, Abstract!Next, Abstract!Cancel
<1>5. CASE CheckLimits \/ StopProducer \/ CloseResults \/ PassDeadline \/ UNCHANGED vars
  <2>1. UNCHANGED <<sent, jobs, counted, returned, wpc, job, ctx>>
    BY <1>5 DEF CheckLimits, StopProducer, CloseResults, PassDeadline, vars,
       producerVars, workerVars, collectorVars
  <2> QED
    BY <2>1, AbsStutter DEF Begun, Lost, Cancelled
<1> QED
  BY <1>1, <1>2, <1>3, <1>4, <1>5, AbsWorkerStep DEF Next, Producer, Collector, AllGone

(* The engine implements LoadRun. *)
THEOREM PipelineImplementsLoadRun == Spec => ImplementsLoadRun
<1>1. Init => Abstract!Init
  <2> SUFFICES ASSUME Init PROVE Abstract!Init
    OBVIOUS
  <2>1. Begun = 0
    <3>1. sent = 0 /\ Len(jobs) = 0
      BY EmptySeq DEF Init
    <3> QED
      BY <3>1 DEF Begun
  <2>2. Lost = {}
    BY DEF Init, Lost
  <2>3. Cancelled = FALSE
    BY DEF Init, Cancelled
  <2> QED
    BY <2>1, <2>2, <2>3 DEF Init, Abstract!Init
<1>2. Spec => []RefineInv
  BY KeepInvariant, ReturnInvariant, ClosedLast, WorkloadInvariant, PTL DEF RefineInv
<1> QED
  BY <1>1, <1>2, AbsStep, PTL DEF Spec, ImplementsLoadRun, Abstract!Spec, AbsNext
=============================================================================
