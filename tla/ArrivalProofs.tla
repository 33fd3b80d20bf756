--------------------------- MODULE ArrivalProofs ---------------------------
(***************************************************************************)
(* Proofs about ArrivalSchedule, for any rate, workload, window, channel   *)
(* and clock: the schedule never runs ahead of its slots and dispatches    *)
(* exactly as many jobs as were fixed before the run; and the arithmetic   *)
(* of the slots is exact, in integers and in words of any width.           *)
(***************************************************************************)
EXTENDS MCArrival, FiniteSetTheorems, TLAPS

(* What is rounded down, taken back, is at most what it was. *)
LEMMA DivBounds ==
    ASSUME NEW a \in Nat, NEW b \in Nat, b > 0
    PROVE  a \div b \in Nat /\ (a \div b) * b <= a
  OBVIOUS

LEMMA TimesMonotone ==
    ASSUME NEW a \in Nat, NEW b \in Nat, NEW c \in Nat, a <= b
    PROVE  a * c <= b * c
  OBVIOUS

(* The dispatch count is a natural number in both modes. *)
LEMMA LimitType == Limit \in Nat
<1>1. CASE Duration > 0
  <2>1. Duration * Rate \in Nat /\ NsPerSec \in Nat /\ NsPerSec > 0
    BY ScheduleAssumption, NsPerSecAssumption
  <2>2. (Duration * Rate) \div NsPerSec \in Nat
    BY <2>1, DivBounds
  <2> QED
    BY <1>1, <2>2, ScheduleAssumption DEF Limit, ArrivalLimit
<1>2. CASE ~ (Duration > 0)
  BY <1>2, ScheduleAssumption DEF Limit
<1> QED
  BY <1>1, <1>2

(* Whatever counts as due has come due. *)
LEMMA DueIsDue ==
    ASSUME NEW e \in Nat
    PROVE  DueIndex(e, Rate) \in Nat /\ DueIndex(e, Rate) * NsPerSec <= e * Rate
<1>1. e * Rate \in Nat /\ NsPerSec \in Nat /\ NsPerSec > 0
  BY ScheduleAssumption, NsPerSecAssumption
<1>2. CASE e <= 0
  BY <1>1, <1>2 DEF DueIndex
<1>3. CASE e > 0
  <2>1. DueIndex(e, Rate) = (e * Rate) \div NsPerSec
    BY <1>3 DEF DueIndex
  <2> QED
    BY <1>1, <2>1, DivBounds
<1> QED
  BY <1>2, <1>3

LEMMA GradedLagType == GradedLag \in Int
<1>1. NsPerSec \div Rate \in Nat
  BY DivBounds, ScheduleAssumption, NsPerSecAssumption
<1> QED
  BY <1>1, ScheduleAssumption DEF GradedLag

LEMMA SlotOffsetType ==
    ASSUME NEW k \in Nat
    PROVE  SlotOffset(k, Rate) \in Nat
<1>1. k * NsPerSec \in Nat /\ Rate \in Nat /\ Rate > 0
  BY ScheduleAssumption, NsPerSecAssumption
<1> QED
  BY <1>1, DivBounds DEF SlotOffset

-----------------------------------------------------------------------------
(* Type correctness. *)

LEMMA TypeInit == Init => TypeOK
<1>1. NoTelemetry \in Telemetry
  BY DEF Telemetry, NoTelemetry
<1>2. 0 \in 0 .. JobsCap
  BY ScheduleAssumption
<1>3. Init => cancelled \in BOOLEAN
  BY DEF Init
<1>4. Init => /\ now \in Nat /\ j \in Nat /\ due \in Int /\ queued \in 0 .. JobsCap
              /\ ppc = "start" /\ rpc = "collect"
  BY <1>2 DEF Init
<1>5. Init => telemetry \in Telemetry /\ inStats \in Telemetry /\ inReport \in Telemetry
  BY <1>1 DEF Init
<1> QED
  BY <1>3, <1>4, <1>5 DEF TypeOK

LEMMA TypeStep == TypeOK /\ [Next]_vars => TypeOK'
<1> SUFFICES ASSUME TypeOK, [Next]_vars PROVE TypeOK'
  OBVIOUS
<1> USE ScheduleAssumption, LimitType DEF TypeOK, runVars, producerVars
<1>1. CASE StartSchedule
  BY <1>1 DEF StartSchedule
<1>2. CASE LookAtClock
  <2>1. due' \in Int
    BY <1>2, DueIsDue DEF LookAtClock, Lesser
  <2> QED
    BY <1>2, <2>1 DEF LookAtClock
<1>3. CASE SendJob
  BY <1>3 DEF SendJob
<1>4. CASE GradeSent
  <2>1. telemetry' \in Telemetry
    BY <1>4 DEF GradeSent, Telemetry
  <2> QED
    BY <1>4, <2>1 DEF GradeSent
<1>5. CASE GradeLag
  <2>1. telemetry' \in Telemetry
    <3>1. Greater(now - SlotOffset(j, Rate), 0) \in Nat
      BY SlotOffsetType DEF Greater
    <3>2. PICK lag \in Nat : telemetry' = [telemetry EXCEPT
              !.late = @ + (IF lag > GradedLag THEN 1 ELSE 0),
              !.maxLag = Greater(@, lag)]
      BY <1>5, <3>1 DEF GradeLag
    <3>3. Greater(telemetry.maxLag, lag) \in Nat
      BY DEF Greater, Telemetry
    <3>4. telemetry.late + (IF lag > GradedLag THEN 1 ELSE 0) \in Nat
      BY DEF Telemetry
    <3> QED
      BY <3>2, <3>3, <3>4 DEF Telemetry
  <2> QED
    BY <1>5, <2>1 DEF GradeLag
<1>6. CASE Wake
  BY <1>6 DEF Wake
<1>7. CASE StopProducer
  BY <1>7 DEF StopProducer
<1>8. CASE Tick \/ TakeJob \/ Cancel
  <2>1. CASE Tick
    BY <2>1 DEF Tick
  <2>2. CASE TakeJob
    BY <2>2 DEF TakeJob
  <2>3. CASE Cancel
    BY <2>3 DEF Cancel
  <2> QED
    BY <1>8, <2>1, <2>2, <2>3
<1>9. CASE Run
  BY <1>9 DEF Run, CollectDone, SnapshotForStats, SnapshotForReport
<1>10. CASE UNCHANGED vars
  BY <1>10 DEF vars
<1> QED
  BY <1>1, <1>2, <1>3, <1>4, <1>5, <1>6, <1>7, <1>8, <1>9, <1>10
  DEF Next, Producer, AllGone

(* Every variable keeps its type, and the channel its bound. *)
THEOREM TypeCorrect == Spec => []TypeOK
  BY TypeInit, TypeStep, PTL DEF Spec

-----------------------------------------------------------------------------
(* The schedule.  Inside a batch the producer is at a slot no later than   *)
(* the last one it found due, which was due when it looked and is so still:*)
(* that is what carries NoOvershoot over a step.                           *)

BatchOK ==
    /\ ppc \in {"send", "grade", "lag"} =>
          j <= due /\ due < Limit /\ due * NsPerSec <= now * Rate
    /\ ppc = "start" => j = 0

ScheduleInv == TypeOK /\ BatchOK /\ NoOvershoot /\ ExactDispatch

LEMMA ScheduleInit == Init => ScheduleInv
<1> SUFFICES ASSUME Init PROVE ScheduleInv
  OBVIOUS
<1>1. TypeOK
  BY TypeInit
<1> QED
  BY <1>1, LimitType
  DEF Init, ScheduleInv, BatchOK, NoOvershoot, ExactDispatch, Sent

LEMMA ScheduleStep == ScheduleInv /\ [Next]_vars => ScheduleInv'
<1> SUFFICES ASSUME ScheduleInv, [Next]_vars
             PROVE  BatchOK' /\ NoOvershoot' /\ ExactDispatch'
  BY TypeStep DEF ScheduleInv
<1>0. TypeOK /\ TypeOK'
  BY TypeStep DEF ScheduleInv
<1> USE LimitType, ScheduleAssumption, NsPerSecAssumption
    DEF ScheduleInv, BatchOK, NoOvershoot, ExactDispatch, Sent
<1>1. CASE StartSchedule
  BY <1>0, <1>1 DEF StartSchedule, TypeOK
<1>2. CASE LookAtClock
  <2>1. now \in Nat /\ j \in Nat /\ due' \in Int /\ now' = now /\ j' = j
        /\ cancelled' = cancelled
    BY <1>0, <1>2 DEF LookAtClock, TypeOK
  <2>2. DueIndex(now, Rate) \in Nat /\ DueIndex(now, Rate) * NsPerSec <= now * Rate
    BY <2>1, DueIsDue
  <2>3. due' <= DueIndex(now, Rate) /\ due' < Limit
    BY <1>2, <2>2 DEF LookAtClock, Lesser
  <2>4. ppc' = "send" => due' * NsPerSec <= now * Rate
    <3>1. ASSUME ppc' = "send" PROVE due' * NsPerSec <= DueIndex(now, Rate) * NsPerSec
      <4>1. j <= due' /\ due' \in Nat
        BY <1>2, <2>1, <3>1 DEF LookAtClock
      <4> QED
        BY <4>1, <2>2, <2>3, TimesMonotone
    <3>2. now * Rate \in Nat /\ DueIndex(now, Rate) * NsPerSec \in Nat /\ due' * NsPerSec \in Int
      BY <2>1, <2>2
    <3> QED
      BY <2>2, <3>1, <3>2
  <2>5. BatchOK'
    BY <1>2, <2>1, <2>3, <2>4 DEF LookAtClock
  <2>6. NoOvershoot'
    BY <1>2, <2>1 DEF LookAtClock
  <2>7. ExactDispatch'
    BY <1>2, <2>1 DEF LookAtClock
  <2> QED
    BY <2>5, <2>6, <2>7
<1>3. CASE SendJob
  <2>1. j \in Nat /\ due \in Int /\ now \in Nat /\ j <= due /\ due < Limit
        /\ due * NsPerSec <= now * Rate
    BY <1>0, <1>3 DEF SendJob, TypeOK
  <2>2. UNCHANGED <<now, j, due, cancelled>> /\ ppc' = "grade"
    BY <1>3 DEF SendJob
  <2>3. j * NsPerSec <= due * NsPerSec
    BY <2>1, TimesMonotone
  <2>4. j * NsPerSec <= now * Rate
    <3>1. j * NsPerSec \in Nat /\ due * NsPerSec \in Int /\ now * Rate \in Nat
      BY <2>1
    <3> QED
      BY <2>1, <2>3, <3>1
  <2> QED
    BY <2>1, <2>2, <2>4
<1>4. CASE GradeSent
  BY <1>0, <1>4 DEF GradeSent, TypeOK, runVars
<1>5. CASE GradeLag
  <2>1. j \in Nat /\ due \in Int /\ now \in Nat /\ j <= due /\ due < Limit
        /\ due * NsPerSec <= now * Rate /\ j * NsPerSec <= now * Rate
    BY <1>0, <1>5 DEF GradeLag, TypeOK
  <2>2. UNCHANGED <<now, due, cancelled>> /\ j' = j + 1
        /\ ppc' = (IF j' <= due THEN "send" ELSE IF j' >= Limit THEN "closed" ELSE "sleep")
    BY <1>5 DEF GradeLag
  <2> QED
    BY <2>1, <2>2
<1>6. CASE Wake \/ StopProducer
  BY <1>0, <1>6 DEF Wake, StopProducer, TypeOK
<1>7. CASE Tick
  <2>1. now \in Nat /\ now' = now + 1 /\ UNCHANGED <<ppc, j, due, cancelled>>
    BY <1>0, <1>7 DEF Tick, producerVars, TypeOK
  <2>2. now * Rate <= now' * Rate /\ now * Rate \in Nat /\ now' * Rate \in Nat
    BY <2>1, TimesMonotone
  <2>3. due * NsPerSec \in Int /\ j * NsPerSec \in Nat /\ (j - 1) * NsPerSec \in Int
    BY <1>0 DEF TypeOK
  <2> QED
    BY <1>0, <2>1, <2>2, <2>3 DEF TypeOK
<1>8. CASE TakeJob \/ Cancel
  BY <1>0, <1>8 DEF TakeJob, Cancel, producerVars, TypeOK
<1>9. CASE Run
  BY <1>0, <1>9 DEF Run, CollectDone, SnapshotForStats, SnapshotForReport,
                    producerVars, TypeOK
<1>10. CASE UNCHANGED vars
  BY <1>0, <1>10 DEF vars, TypeOK
<1> QED
  BY <1>1, <1>2, <1>3, <1>4, <1>5, <1>6, <1>7, <1>8, <1>9, <1>10
  DEF Next, Producer, AllGone

(* No job leaves before its slot is due, however the clock, the workers    *)
(* and the producer interleave: there is no burst at the start.            *)
THEOREM NeverEarly == Spec => []NoOvershoot
<1>1. ScheduleInv => NoOvershoot
  BY DEF ScheduleInv
<1> QED
  BY ScheduleInit, ScheduleStep, <1>1, PTL DEF Spec

(* A producer that was not cancelled dispatches exactly the jobs that were *)
(* fixed before the run, late or not.                                      *)
THEOREM DispatchesAll == Spec => []ExactDispatch
<1>1. ScheduleInv => ExactDispatch
  BY DEF ScheduleInv
<1> QED
  BY ScheduleInit, ScheduleStep, <1>1, PTL DEF Spec

-----------------------------------------------------------------------------
(* The telemetry.  record writes its counters one after the other, so in   *)
(* the middle of it the number sent is already that of the next slot.      *)

SentOK ==
    /\ ppc # "lag" => telemetry.sent = j
    /\ ppc = "lag" => telemetry.sent = j + 1
LateOK == telemetry.maxLag > GradedLag <=> telemetry.late > 0
TelemetryInv == TypeOK /\ SentOK /\ LateOK

LEMMA TelemetryInit == Init => TelemetryInv
<1> SUFFICES ASSUME Init PROVE TelemetryInv
  OBVIOUS
<1>1. GradedLag \in Int /\ GradedLag >= 0
  <2>1. NsPerSec \div Rate \in Nat
    BY DivBounds, ScheduleAssumption, NsPerSecAssumption
  <2> QED
    BY <2>1, ScheduleAssumption DEF GradedLag
<1>2. SentOK /\ LateOK
  BY <1>1 DEF Init, NoTelemetry, SentOK, LateOK
<1> QED
  BY <1>2, TypeInit DEF TelemetryInv

LEMMA TelemetryStep == TelemetryInv /\ [Next]_vars => TelemetryInv'
<1> SUFFICES ASSUME TelemetryInv, [Next]_vars PROVE SentOK' /\ LateOK'
  BY TypeStep DEF TelemetryInv
<1>0. TypeOK /\ SentOK /\ LateOK
  BY DEF TelemetryInv
<1>1. CASE StartSchedule \/ LookAtClock \/ SendJob \/ Wake \/ StopProducer
  BY <1>0, <1>1 DEF StartSchedule, LookAtClock, SendJob, Wake, StopProducer,
                    SentOK, LateOK, GradedLag
<1>2. CASE GradeSent
  <2>1. telemetry \in Telemetry /\ ppc = "grade" /\ ppc' = "lag" /\ j' = j
        /\ telemetry' = [telemetry EXCEPT !.sent = @ + 1]
    BY <1>0, <1>2 DEF GradeSent, TypeOK
  <2>2. /\ telemetry'.sent = telemetry.sent + 1
        /\ telemetry'.late = telemetry.late
        /\ telemetry'.maxLag = telemetry.maxLag
    BY <2>1 DEF Telemetry
  <2> QED
    BY <1>0, <2>1, <2>2 DEF SentOK, LateOK, GradedLag
<1>3. CASE GradeLag
  <2> DEFINE lag == Greater(now - SlotOffset(j, Rate), 0)
  <2>1. telemetry \in Telemetry /\ now \in Nat /\ j \in Nat /\ SlotOffset(j, Rate) \in Nat
    BY <1>0, SlotOffsetType DEF TypeOK
  <2>2. lag \in Nat /\ GradedLag \in Int
    BY <2>1, GradedLagType DEF Greater
  <2>3. /\ telemetry'.sent = telemetry.sent
        /\ telemetry'.late = telemetry.late + (IF lag > GradedLag THEN 1 ELSE 0)
        /\ telemetry'.maxLag = Greater(telemetry.maxLag, lag)
    BY <1>3, <2>1 DEF GradeLag, Telemetry
  <2>4. ppc = "lag" /\ ppc' # "lag" /\ j' = j + 1
    BY <1>3 DEF GradeLag
  <2>5. SentOK'
    BY <1>0, <2>3, <2>4 DEF SentOK
  <2>6. LateOK'
    <3>1. telemetry.late \in Nat /\ telemetry.maxLag \in Nat
      BY <2>1 DEF Telemetry
    <3>2. GradedLag' = GradedLag
      BY DEF GradedLag
    <3> HIDE DEF lag
    <3> QED
      BY <1>0, <2>2, <2>3, <3>1, <3>2 DEF LateOK, Greater
  <2> QED
    BY <2>5, <2>6
<1>4. CASE Tick \/ TakeJob \/ Cancel \/ Run
  BY <1>0, <1>4 DEF Tick, TakeJob, Cancel, Run, CollectDone, SnapshotForStats,
                    SnapshotForReport, producerVars, SentOK, LateOK, GradedLag
<1>5. CASE UNCHANGED vars
  BY <1>0, <1>5 DEF vars, SentOK, LateOK, GradedLag
<1> QED
  BY <1>1, <1>2, <1>3, <1>4, <1>5 DEF Next, Producer, AllGone

(* No slot is skipped without being counted, and the telemetry reports a   *)
(* late job exactly if the greatest lag went beyond the graded one, for    *)
(* any pace of clock and workers.                                          *)
THEOREM LateJobsAreRecorded == Spec => []LateIsRecorded
<1>1. TelemetryInv => LateIsRecorded
  BY DEF TelemetryInv, SentOK, LateOK, LateIsRecorded
<1> QED
  BY TelemetryInit, TelemetryStep, <1>1, PTL DEF Spec

(* Once the workers have left a run that nobody cancelled, the producer    *)
(* has closed its channel and writes no more.                              *)
ReadInv ==
    rpc # "collect" /\ ~ cancelled =>
        /\ ppc = "closed"
        /\ rpc \in {"report", "returned"} => inStats = telemetry
        /\ rpc = "returned" => inReport = telemetry

LEMMA ReadInit == Init => ReadInv
BY DEF Init, ReadInv

LEMMA ReadStep == TypeOK /\ ReadInv /\ [Next]_vars => ReadInv'
<1> SUFFICES ASSUME TypeOK, ReadInv, [Next]_vars PROVE ReadInv'
  OBVIOUS
<1> USE DEF ReadInv
<1>0. rpc \in {"collect", "stats", "report", "returned"}
  BY DEF TypeOK
<1>1. CASE StartSchedule \/ LookAtClock \/ SendJob \/ GradeSent \/ GradeLag \/ Wake \/ StopProducer
  <2>1. ppc # "closed" /\ UNCHANGED <<cancelled, rpc, inStats, inReport>>
    BY <1>1 DEF StartSchedule, LookAtClock, SendJob, GradeSent, GradeLag, Wake, StopProducer, runVars
  <2> QED
    BY <2>1
<1>2. CASE Tick \/ TakeJob \/ Cancel
  BY <1>2 DEF Tick, TakeJob, Cancel, producerVars, runVars
<1>3. CASE Run
  BY <1>0, <1>3 DEF Run, CollectDone, SnapshotForStats, SnapshotForReport, producerVars
<1>4. CASE UNCHANGED vars
  BY <1>4 DEF vars
<1> QED
  BY <1>1, <1>2, <1>3, <1>4 DEF Next, Producer, AllGone

(* What Run returns of a schedule nobody cancelled is its last word, of as *)
(* many jobs as were fixed before, although Run does not join the producer.*)
THEOREM ReadsTheLastWord == Spec => []ReadsAreFinal
<1>1. ScheduleInv /\ TelemetryInv /\ ReadInv => ReadsAreFinal
  BY DEF ScheduleInv, ExactDispatch, Sent, TelemetryInv, SentOK, ReadInv, ReadsAreFinal
<1>2. ScheduleInv => TypeOK
  BY DEF ScheduleInv
<1> QED
  BY ScheduleInit, ScheduleStep, TelemetryInit, TelemetryStep, ReadInit, ReadStep, <1>1, <1>2, PTL
     DEF Spec

-----------------------------------------------------------------------------
(* The arithmetic, in integers and in machine words.                       *)

LEMMA TimesCancels ==
    ASSUME NEW a \in Nat, NEW b \in Nat, NEW c \in Nat, a * c < b * c
    PROVE  a < b
<1>1. b <= a => b * c <= a * c
  BY TimesMonotone
<1>2. a * c \in Nat /\ b * c \in Nat
  OBVIOUS
<1> QED
  BY <1>1, <1>2

(* The quotient is the largest number that, taken back, is at most a.      *)
LEMMA DivIsFloor ==
    ASSUME NEW a \in Nat, NEW b \in Nat, b > 0, NEW k \in Nat
    PROVE  /\ k * b <= a <=> k <= a \div b
           /\ a = (a \div b) * b + (a % b) /\ (a % b) \in 0 .. b - 1 /\ a \div b \in Nat
<1> DEFINE q == a \div b
<1>1. q \in Nat /\ q * b <= a
  BY DivBounds
<1>2. a = q * b + (a % b) /\ (a % b) \in 0 .. b - 1
  OBVIOUS
<1>3. (q + 1) * b = q * b + b
  <2>1. \A x, y \in Nat : (x + 1) * y = x * y + y
    OBVIOUS
  <2> QED
    BY <1>1, <2>1
<1> HIDE DEF q
<1>4. \A x, y \in Nat : x * y \in Nat
  OBVIOUS
<1>5. q * b \in Nat /\ k * b \in Nat
  BY <1>1, <1>4
<1>6. ASSUME k * b <= a PROVE k <= q
  <2>1. k * b < (q + 1) * b
    BY <1>2, <1>3, <1>5, <1>6
  <2>2. q + 1 \in Nat
    BY <1>1
  <2>3. k < q + 1
    BY ONLY <2>1, <2>2, TimesCancels, k \in Nat, b \in Nat
  <2> QED
    BY <1>1, <2>3
<1>7. ASSUME k <= q PROVE k * b <= a
  <2>1. k * b <= q * b
    BY <1>1, <1>7, TimesMonotone
  <2> QED
    BY <1>1, <1>5, <2>1
<1> QED
  BY <1>1, <1>2, <1>6, <1>7 DEF q

LEMMA RatesArePositive == \A r \in Rates : r \in Nat /\ r > 0
  BY InputsAssumption DEF Rates

(* "slot j is due" by index and by offset (arrival.go:14-27). *)
LEMMA DueMeets == now \in Nat => DueMeetsOffset
<1> SUFFICES ASSUME now \in Nat, NEW r \in Nat, r > 0, NEW s \in Nat
             PROVE  /\ s <= DueIndex(now, r) => now * r >= s * NsPerSec /\ SlotOffset(s, r) <= now
                    /\ now > SlotOffset(s, r) => s <= DueIndex(now, r)
  BY InputsAssumption DEF DueMeetsOffset, Rates, Slots
<1>0. \A x, y \in Nat : x * y \in Nat
  OBVIOUS
<1>1. /\ now * r \in Nat /\ s * NsPerSec \in Nat
      /\ NsPerSec \in Nat /\ NsPerSec > 0
  BY <1>0, NsPerSecAssumption
<1>2. DueIndex(now, r) = (now * r) \div NsPerSec
  <2>1. CASE now <= 0
    <3>1. now * r = 0
      BY <2>1
    <3>2. 0 \div NsPerSec = 0
      BY <1>1
    <3> QED
      BY <2>1, <3>1, <3>2 DEF DueIndex
  <2>2. CASE now > 0
    BY <2>2 DEF DueIndex
  <2> QED
    BY <2>1, <2>2
<1>3. s <= DueIndex(now, r) <=> s * NsPerSec <= now * r
  BY <1>1, <1>2, DivIsFloor
<1>4. \A k \in Nat : k <= SlotOffset(s, r) <=> k * r <= s * NsPerSec
  BY <1>1, DivIsFloor DEF SlotOffset
<1>5. SlotOffset(s, r) \in Nat /\ now + 1 \in Nat
  BY <1>1, DivBounds DEF SlotOffset
<1>6. (now + 1) * r = now * r + r
  <2>1. \A x, y \in Nat : (x + 1) * y = x * y + y
    OBVIOUS
  <2> QED
    BY <2>1
<1>7. now + 1 <= SlotOffset(s, r) <=> now * r + r <= s * NsPerSec
  BY <1>4, <1>5, <1>6
<1>8. now <= SlotOffset(s, r) <=> now * r <= s * NsPerSec
  BY <1>4
<1> DEFINE p == now * r
           m == s * NsPerSec
           o == SlotOffset(s, r)
<1>9. p \in Nat /\ m \in Nat /\ o \in Nat
  BY <1>1, <1>5
<1> HIDE DEF p, m, o
<1>10. /\ m <= p => o <= now
       /\ now > o => m <= p
  BY <1>7, <1>8, <1>9 DEF p, m, o
<1> QED
  BY <1>3, <1>9, <1>10 DEF p, m, o

(* "the slots strictly before the end" (arrival.go:29-42). *)
LEMMA LimitCounts == now \in Nat => LimitCountsSlots
<1> SUFFICES ASSUME now \in Nat, NEW r \in Nat, r > 0
             PROVE  ArrivalLimit(now, r) = Cardinality({s \in 0 .. now * r : s * NsPerSec < now * r})
  BY RatesArePositive DEF LimitCountsSlots
<1> DEFINE p == now * r
           q == p \div NsPerSec
           n == q + (IF p % NsPerSec > 0 THEN 1 ELSE 0)
<1>1. p \in Nat /\ NsPerSec \in Nat /\ NsPerSec > 0
  <2>1. \A x, y \in Nat : x * y \in Nat
    OBVIOUS
  <2> QED
    BY <2>1, NsPerSecAssumption
<1>2. ArrivalLimit(now, r) = n
  <2>1. CASE now <= 0
    <3>1. p = 0
      BY <2>1
    <3>2. 0 \div NsPerSec = 0 /\ 0 % NsPerSec = 0
      BY <1>1
    <3> QED
      BY <2>1, <3>1, <3>2 DEF ArrivalLimit
  <2>2. CASE now > 0
    BY <2>2 DEF ArrivalLimit
  <2> QED
    BY <2>1, <2>2
<1>3. \A s \in Nat : s * NsPerSec <= p <=> s <= q
  BY <1>1, DivIsFloor
<1>4. p = q * NsPerSec + (p % NsPerSec) /\ (p % NsPerSec) \in 0 .. NsPerSec - 1 /\ q \in Nat
  BY <1>1, DivIsFloor
<1> HIDE DEF p, q
<1>5. ASSUME NEW s \in Nat PROVE s * NsPerSec < p <=> s < n
  <2>1. s * NsPerSec \in Nat /\ q * NsPerSec \in Nat
    <3>1. \A x, y \in Nat : x * y \in Nat
      OBVIOUS
    <3> QED
      BY <1>1, <1>4, <3>1
  <2>2. s * NsPerSec = q * NsPerSec => s = q
    <3>1. \A x, y, z \in Nat : z > 0 /\ x * z = y * z => x = y
      OBVIOUS
    <3> QED
      BY <1>1, <1>4, <3>1
  <2>3. s = q => s * NsPerSec = q * NsPerSec
    OBVIOUS
  <2> DEFINE m == s * NsPerSec
             l == q * NsPerSec
             e == p % NsPerSec
  <2>4. m \in Nat /\ l \in Nat /\ e \in Nat /\ p = l + e /\ (m <= p <=> s <= q) /\ (m = l <=> s = q)
    BY <1>3, <1>4, <2>1, <2>2, <2>3
  <2> HIDE DEF m, l, e
  <2>5. m < p <=> s < q + (IF e > 0 THEN 1 ELSE 0)
    <3>1. CASE e = 0
      BY <1>1, <1>4, <2>4, <3>1
    <3>2. CASE e > 0
      <4>1. q \in Nat /\ (s < q + 1 <=> s <= q)
        BY <1>4
      <4>2. m < p <=> m <= p
        <5>1. m = p => s * NsPerSec = q * NsPerSec + e /\ s <= q
          BY <2>4 DEF m, l
        <5>2. m # p
          <6>1. SUFFICES ASSUME m = p PROVE FALSE
            OBVIOUS
          <6>2. s * NsPerSec <= q * NsPerSec
            BY <1>1, <4>1, <5>1, <6>1, TimesMonotone
          <6> QED
            BY <2>1, <2>4, <3>2, <5>1, <6>1, <6>2
        <5> QED
          BY <2>4, <5>2
      <4> QED
        BY <2>4, <3>2, <4>1, <4>2
    <3> QED
      BY <2>4, <3>1, <3>2
  <2> QED
    BY <2>5 DEF m, e
<1>6. n \in Nat /\ n <= p
  <2>1. n \in Nat
    BY <1>4
  <2>2. CASE p = 0
    <3>1. 0 * NsPerSec = 0
      BY <1>1
    <3>2. ~ (0 < n)
      BY <1>5, <2>2, <3>1
    <3> QED
      BY <2>1, <2>2, <3>2
  <2>3. CASE p > 0
    <3>1. n > 0 => n - 1 \in Nat /\ (n - 1) * NsPerSec < p
      BY <1>5, <2>1
    <3>2. \A x, y \in Nat : y > 0 => x <= x * y /\ x * y \in Nat
      OBVIOUS
    <3> HIDE DEF n
    <3>3. n > 0 => n - 1 < p
      BY <1>1, <3>1, <3>2
    <3> QED
      BY <1>1, <2>1, <3>3
  <2> QED
    BY <1>1, <2>1, <2>2, <2>3
<1> HIDE DEF n
<1>7. {s \in 0 .. p : s * NsPerSec < p} = 0 .. n - 1
  BY <1>1, <1>5, <1>6
<1>8. Cardinality(0 .. n - 1) = n
  BY <1>6, FS_Interval
<1> QED
  BY <1>2, <1>7, <1>8 DEF p

(* A quotient that fits in an int64 leaves the high word below the divisor. *)
LEMMA FitsWord ==
    ASSUME NEW a \in Nat, NEW b \in Nat, b > 0, (a \div b) <= MaxInt
    PROVE  /\ ~ ((a \div Word) >= b)
           /\ (a \div b) \in Nat
<1>1. Word \in Nat /\ Word > 0 /\ MaxInt < Word /\ MaxInt \in Int
  BY WordAssumption DEF MaxInt
<1>2. (a \div b) \in Nat /\ (a \div Word) \in Nat
  BY <1>1, DivBounds
<1>3. ~ (Word <= (a \div b))
  BY <1>1, <1>2
<1>4. ~ (Word * b <= a)
  BY <1>1, <1>3, DivIsFloor
<1>5. b * Word = Word * b
  BY <1>1
<1>6. ~ (b <= (a \div Word))
  BY <1>1, <1>4, <1>5, DivIsFloor
<1> QED
  BY <1>2, <1>6

(* int64(q) is q where q fits. *)
LEMMA ToIntKeeps ==
    ASSUME NEW q \in Nat, q <= MaxInt
    PROVE  ToInt(q) = q
<1>1. Word \in Nat /\ Word > 0 /\ MaxInt < Word /\ MaxInt \in Int
  BY WordAssumption DEF MaxInt
<1>2. \A x, w \in Nat : x < w => x % w = x
  OBVIOUS
<1>3. q % Word = q
  BY <1>1, <1>2
<1> QED
  BY <1>1, <1>3 DEF ToInt

LEMMA DivFits ==
    ASSUME NEW a \in Nat, NEW b \in Nat, b > 0, (a \div b) <= MaxInt
    PROVE  Div(a, b) = a \div b
  BY FitsWord, ToIntKeeps DEF Div

(* The machine's functions where their results fit (arrival.go:14-42).     *)
LEMMA WordsMeet == now \in Nat => WordsAgree
<1> SUFFICES ASSUME now \in Nat, NEW r \in Nat, r > 0
             PROVE  /\ DueIndex(now, r) <= MaxInt => DueIndexW(now, r) = DueIndex(now, r)
                    /\ ArrivalLimit(now, r) <= MaxInt => ArrivalLimitW(now, r) = ArrivalLimit(now, r)
                    /\ \A s \in Slots : SlotOffset(s, r) <= MaxInt => SlotOffsetW(s, r) = SlotOffset(s, r)
  BY RatesArePositive DEF WordsAgree
<1>1. NsPerSec \in Nat /\ NsPerSec > 0 /\ now * r \in Nat
  <2>1. \A x, y \in Nat : x * y \in Nat
    OBVIOUS
  <2> QED
    BY <2>1, NsPerSecAssumption
<1>2. DueIndex(now, r) <= MaxInt => DueIndexW(now, r) = DueIndex(now, r)
  <2>1. CASE now <= 0
    BY <2>1 DEF DueIndex, DueIndexW
  <2>2. CASE now > 0
    BY <2>2, <1>1, DivFits DEF DueIndex, DueIndexW
  <2> QED
    BY <2>1, <2>2
<1>3. ASSUME NEW s \in Slots, SlotOffset(s, r) <= MaxInt PROVE SlotOffsetW(s, r) = SlotOffset(s, r)
  <2>1. s \in Nat
    BY InputsAssumption DEF Slots
  <2>2. s * NsPerSec \in Nat
    BY <1>1, <2>1
  <2>3. (s * NsPerSec) \div r <= MaxInt
    BY <1>3 DEF SlotOffset
  <2> QED
    BY <2>2, <2>3, FitsWord, DivFits DEF SlotOffset, SlotOffsetW
<1>4. ASSUME ArrivalLimit(now, r) <= MaxInt PROVE ArrivalLimitW(now, r) = ArrivalLimit(now, r)
  <2>1. CASE now <= 0
    BY <2>1 DEF ArrivalLimit, ArrivalLimitW
  <2>2. CASE now > 0
    <3> DEFINE p == now * r
               q == p \div NsPerSec
               e == IF p % NsPerSec > 0 THEN 1 ELSE 0
    <3>1. ~ (now <= 0 \/ r = 0)
      BY <2>2
    <3>2. ArrivalLimit(now, r) = q + e
      BY <3>1 DEF ArrivalLimit
    <3>3. ArrivalLimitW(now, r) = IF p \div Word >= NsPerSec THEN Panic ELSE ToInt(q + e)
      BY <3>1 DEF ArrivalLimitW
    <3>4. q \in Nat /\ e \in 0 .. 1 /\ MaxInt \in Int /\ p \in Nat
      BY <1>1, DivBounds, WordAssumption DEF MaxInt
    <3> HIDE DEF p, e
    <3>5. q <= MaxInt
      <4> HIDE DEF q
      <4> QED BY <1>4, <3>2, <3>4
    <3>6. ~ (p \div Word >= NsPerSec)
      BY <1>1, <3>4, <3>5, FitsWord
    <3> HIDE DEF q
    <3>7. ToInt(q + e) = q + e
      BY <1>4, <3>2, <3>4, ToIntKeeps
    <3> QED
      BY <3>2, <3>3, <3>6, <3>7
  <2> QED
    BY <2>1, <2>2
<1> QED
  BY <1>2, <1>3, <1>4

(* The producer's three functions mean what their comments say - due only  *)
(* when the exact time has come, the limit the number of slots strictly    *)
(* inside the window - and the words compute them wherever the results     *)
(* fit, at every time, rate and slot.                                      *)
THEOREM ArithmeticIsExact == Spec => []MathIsExact
<1>1. TypeOK => MathIsExact
  BY DueMeets, LimitCounts, WordsMeet DEF TypeOK, MathIsExact
<1> QED
  BY TypeCorrect, <1>1, PTL
=============================================================================
