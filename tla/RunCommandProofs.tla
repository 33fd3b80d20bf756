-------------------------- MODULE RunCommandProofs --------------------------
(***************************************************************************)
(* Proofs about RunCommand and the estimate in it, for any workload, any   *)
(* number of probes and goroutines, and any size of the ring of samples.   *)
(***************************************************************************)
EXTENDS RunCommand, FiniteSetTheorems, SequenceTheorems, TLAPS

LEMMA ConstantsType ==
    /\ SampleSize \in Nat /\ SampleSize > 0 /\ Probers \in Nat /\ Probers > 0
    /\ Retained \in Nat /\ Retained >= 4 /\ Interval \in Nat /\ Interval > 0
    /\ Fallback \in Nat /\ Fallback > 0 /\ MaxTime \in Nat
    /\ TotalReqs \in Nat /\ TotalReqs > 0 /\ MaxP95 \in Nat /\ MaxP95 > 0
BY CapacityAssumption, RunCommandAssumption

-----------------------------------------------------------------------------
(* The estimate: the probes.                                               *)

(* Every probe is in the channel, under way or done, and a goroutine       *)
(* leaves only an empty channel.                                           *)
ProbeInv ==
    /\ epc \in {"off", "wait", "stop", "cut", "settled", "failed"}
    /\ timedOut \in BOOLEAN /\ drained \in BOOLEAN
    /\ jobsLeft \in Nat /\ completed \in Nat /\ workerWg \in 0 .. Probers /\ probing \in 0 .. workerWg
    /\ jobsLeft + probing + completed <= SampleSize
    /\ epc \in {"wait", "stop", "cut", "settled"} => jobsLeft + probing + completed = SampleSize
    /\ Begun /\ workerWg < Probers => jobsLeft = 0
    /\ drained => workerWg = 0
    /\ epc \in {"stop", "settled"} => drained
    /\ pc = "args" => epc = "off" /\ probing = 0 /\ completed = 0 /\ ~ drained /\ ~ timedOut

LEMMA ProbeStep == ProbeInv /\ [Next]_vars => ProbeInv'
<1> SUFFICES ASSUME ProbeInv, [Next]_vars PROVE ProbeInv'
  OBVIOUS
<1> USE ConstantsType DEF ProbeInv, Begun, Running
<1>1. CASE UNCHANGED <<epc, timedOut, probeVars>> /\ pc' # "args"
  BY <1>1 DEF probeVars
<1>2. CASE Estimate
  BY <1>2 DEF Estimate, StartEstimate, samplerVars
<1>3. ASSUME EstimateStep PROVE ProbeInv'
  <2>1. UNCHANGED pc /\ Begun /\ pc # "args"
    BY <1>3 DEF EstimateStep, runVars
  <2>2. CASE SendProbe
    BY <2>1, <2>2 DEF SendProbe, samplerVars
  <2>3. CASE EndProbe
    BY <2>1, <2>3 DEF EndProbe, samplerVars
  <2>4. CASE RejectProbe
    BY <2>1, <2>4 DEF RejectProbe, samplerVars
  <2>5. CASE LeaveProber
    BY <2>1, <2>5 DEF LeaveProber, samplerVars
  <2>6. CASE SeeDrained
    BY <2>1, <2>6 DEF SeeDrained, samplerVars
  <2>7. CASE FirstSample \/ TickSample \/ LeaveSampler \/ Tick \/ FireTicker
    BY <2>1, <2>7 DEF FirstSample, TickSample, LeaveSampler, Tick, FireTicker, probeVars
  <2>8. CASE Expire
    BY <2>1, <2>8 DEF Expire, probeVars, samplerVars
  <2>9. CASE StopMonitor
    BY <2>1, <2>9 DEF StopMonitor, probeVars, samplerVars
  <2>10. CASE LastSample
    BY <2>1, <2>10 DEF LastSample, probeVars
  <2> QED
    BY <1>3, <2>2, <2>3, <2>4, <2>5, <2>6, <2>7, <2>8, <2>9, <2>10 DEF EstimateStep, EstimateNext
<1>4. CASE EndEstimate
  BY <1>4 DEF EndEstimate
<1>5. CASE Interrupt
  BY <1>5 DEF Interrupt, probeVars, samplerVars
<1>6. CASE UNCHANGED vars
  BY <1>6 DEF vars, capVars, probeVars, samplerVars, runVars
<1>7. CASE RejectArgs \/ PreRunE \/ RejectConfig \/ StartRun \/ EngineStep \/ EndRun \/ EndDist
           \/ FailDist \/ SkipFile \/ SaveFile \/ FailToSave \/ PrintResults
           \/ FormatHealthReport \/ Gate \/ Abort \/ Kill \/ InterruptEarly
  <2>1. UNCHANGED <<epc, timedOut, probeVars>>
    BY <1>7 DEF RejectArgs, PreRunE, RejectConfig, StartRun, EngineStep, EndRun, EndDist,
       FailDist, SkipFile, SaveFile, FailToSave, PrintResults, FormatHealthReport, Gate, Abort,
       Kill, InterruptEarly, capVars, samplerVars
  <2>2. pc' # "args"
    BY <1>7 DEF RejectArgs, PreRunE, RejectConfig, StartRun, EngineStep, EndRun, EndDist,
       FailDist, SkipFile, SaveFile, FailToSave, PrintResults, FormatHealthReport, Gate, Abort,
       Kill, InterruptEarly, Exit
  <2> QED
    BY <1>1, <2>1, <2>2
<1> QED
  BY <1>2, <1>3, <1>4, <1>5, <1>6, <1>7 DEF Next, Command, Others, Rest

LEMMA ProbeInit == Init => ProbeInv
<1> SUFFICES ASSUME Init PROVE ProbeInv
  OBVIOUS
<1>1. epc = "off"
  BY DEF Init, CapInit
<1>3. timedOut \in BOOLEAN /\ ~ timedOut /\ drained \in BOOLEAN /\ ~ drained
  BY DEF Init, CapInit
<1>2. jobsLeft = 0 /\ probing = 0 /\ workerWg = 0 /\ completed = 0
  BY DEF Init, CapInit
<1> QED
  BY <1>1, <1>2, <1>3, ConstantsType DEF ProbeInv, Begun

-----------------------------------------------------------------------------
(* The estimate: the samples.                                              *)

Span(m) == m * Interval

LEMMA Spans == \A m \in Nat : Span(m) \in Nat /\ Span(m + 1) = Span(m) + Interval
<1> SUFFICES ASSUME NEW m \in Nat PROVE m * Interval \in Nat /\ (m + 1) * Interval = m * Interval + Interval
  BY DEF Span
<1> QED
  BY CapacityAssumption

(* Counting from the sample that is d before the last one, a sample is as  *)
(* many intervals before b as there are samples in between.                *)
Gap(s, b, d) == \A k \in 1 .. Len(s) : k + d <= Len(s) => s[k] + Span(Len(s) - k - d) < b

(* What is left in the ring begins with the first sample unless the ring   *)
(* is full.  A sample is at any time after its tick, and the last two may  *)
(* coincide; an earlier one is an interval or more before, for there is a  *)
(* tick in between.                                                        *)
Ring(s, first, now) ==
    /\ Len(s) > 0
    /\ s[1] = first \/ Len(s) = Retained
    /\ \A i \in 1 .. Len(s) : first <= s[i] /\ s[i] <= now
    /\ Gap(s, s[Len(s)], 2)

Ticks(s, due, pending, now) ==
    /\ Gap(s, due, 1)
    /\ pending => Gap(s, due, 0) /\ Gap(s, now, 1)

(* After the sample that Stop takes.                                       *)
Final(s, first) ==
    /\ Len(s) > 0 /\ first <= s[1] /\ s[1] <= s[Len(s)]
    /\ s[1] = first \/ Span(Retained - 4) < s[Len(s)] - s[1]

RingInv ==
    /\ clock \in 0 .. MaxTime /\ firstAt \in 0 .. MaxTime
    /\ nextTick \in 0 .. MaxTime + Interval /\ tick \in BOOLEAN
    /\ samples \in Seq(0 .. MaxTime) /\ Len(samples) <= Retained
    /\ mpc \in {"first", "loop", "done"}
    /\ pc = "args" => epc = "off" /\ samples = <<>> /\ mpc = "first"
    /\ epc \in {"settled", "failed"} => mpc = "done"
    /\ mpc = "loop" => Running
    /\ Running => (mpc = "first" <=> samples = <<>>)
    /\ mpc = "first" => ~ tick
    /\ Running /\ samples # <<>> => Ring(samples, firstAt, clock)
    /\ mpc = "loop" => Ticks(samples, nextTick, tick, clock)
    /\ epc = "settled" => Final(samples, firstAt)

(* The ring r is s with t put to it.                                       *)
Shape(r, s, t) ==
    /\ r \in Seq(Nat) /\ Len(r) > 0 /\ Len(r) <= Retained /\ r[Len(r)] = t
    /\ \/ Len(r) = Len(s) + 1 /\ \A i \in 1 .. Len(s) : r[i] = s[i]
       \/ /\ Len(s) = Retained /\ Len(r) = Retained
          /\ \A i \in 1 .. Len(s) - 1 : r[i] = s[i + 1]

LEMMA KeepShape ==
    ASSUME NEW s \in Seq(Nat), Len(s) <= Retained, NEW t \in Nat
    PROVE  Shape(Keep(Append(s, t)), s, t)
<1> DEFINE n == Len(s)
           a == Append(s, t)
           r == Keep(a)
<1> USE ConstantsType
<1>1. /\ a \in Seq(Nat) /\ Len(a) = n + 1 /\ a[n + 1] = t /\ a # <<>>
      /\ \A i \in 1 .. n : a[i] = s[i]
  OBVIOUS
<1>2. r = (IF Len(a) > Retained THEN Tail(a) ELSE a) /\ n \in Nat /\ n <= Retained
  BY DEF Keep
<1>5. n = Len(s)
  OBVIOUS
<1> HIDE DEF n, a, r
<1>3. CASE Len(a) > Retained
  <2>1. r \in Seq(Nat) /\ Len(r) = Len(a) - 1 /\ \A i \in 1 .. Len(r) : r[i] = a[i + 1]
    BY <1>1, <1>2, <1>3, HeadTailProperties
  <2>2. n = Retained /\ Len(r) = n
    BY <1>1, <1>2, <1>3, <2>1
  <2>3. r[n] = t
    BY <1>1, <2>1, <2>2
  <2>4. ASSUME NEW i \in 1 .. n - 1 PROVE r[i] = s[i + 1]
    <3>1. i \in 1 .. n /\ i + 1 \in 1 .. n
      BY <1>2
    <3> QED
      BY <1>1, <2>1, <2>2, <3>1
  <2>6. \A i \in 1 .. Len(s) - 1 : r[i] = s[i + 1]
    BY <1>5, <2>4
  <2>7. r[Len(r)] = t /\ Len(r) = Retained /\ Len(s) = Retained /\ Len(r) > 0 /\ Len(r) <= Retained
    BY <1>5, <2>2, <2>3
  <2>5. Shape(r, s, t)
    BY <2>1, <2>6, <2>7, Zenon DEF Shape
  <2> QED
    BY <2>5 DEF r, a
<1>4. CASE ~ (Len(a) > Retained)
  <2>1. r = a /\ Len(r) = n + 1 /\ Len(r) <= Retained
    BY <1>1, <1>2, <1>4
  <2>3. /\ r \in Seq(Nat) /\ Len(r) = Len(s) + 1 /\ r[Len(r)] = t /\ Len(r) > 0
        /\ \A i \in 1 .. Len(s) : r[i] = s[i]
    BY <1>1, <1>2, <1>5, <2>1
  <2>2. Shape(r, s, t)
    BY <2>1, <2>3, Zenon DEF Shape
  <2> QED
    BY <2>2 DEF r, a
<1> QED
  BY <1>3, <1>4

LEMMA KeepType == ASSUME NEW S, NEW s \in Seq(S), NEW t \in S
                  PROVE  Keep(Append(s, t)) \in Seq(S)
<1>1. Append(s, t) \in Seq(S) /\ Append(s, t) # <<>>
  BY AppendProperties
<1> QED
  BY <1>1, HeadTailProperties DEF Keep

(* With one more sample, what held of the sample d before the last holds   *)
(* of the one d + 1 before it.                                             *)
LEMMA GapGrows ==
    ASSUME NEW s \in Seq(Nat), NEW r, NEW t, Shape(r, s, t), NEW b \in Nat, NEW d \in Nat, Gap(s, b, d)
    PROVE  Gap(r, b, d + 1)
<1> SUFFICES ASSUME NEW k \in 1 .. Len(r), k + (d + 1) <= Len(r)
             PROVE  r[k] + Span(Len(r) - k - (d + 1)) < b
  BY DEF Gap
<1>3. r \in Seq(Nat)
  BY DEF Shape
<1>0. Len(r) \in Nat /\ Len(s) \in Nat /\ k \in Nat /\ k >= 1
  BY <1>3
<1>1. CASE Len(r) = Len(s) + 1 /\ \A i \in 1 .. Len(s) : r[i] = s[i]
  <2>1. k \in 1 .. Len(s) /\ k + d <= Len(s) /\ Len(r) - k - (d + 1) = Len(s) - k - d
    BY <1>0, <1>1
  <2>2. s[k] + Span(Len(s) - k - d) < b
    BY <2>1 DEF Gap
  <2> QED
    BY <1>1, <2>1, <2>2
<1>2. CASE Len(r) = Len(s) /\ \A i \in 1 .. Len(s) - 1 : r[i] = s[i + 1]
  <2>1. /\ k \in 1 .. Len(s) - 1 /\ k + 1 \in 1 .. Len(s) /\ (k + 1) + d <= Len(s)
        /\ Len(r) - k - (d + 1) = Len(s) - (k + 1) - d
    BY <1>0, <1>2
  <2>2. s[k + 1] + Span(Len(s) - (k + 1) - d) < b
    BY <2>1 DEF Gap
  <2>3. r[k] = s[k + 1]
    BY <1>2, <2>1
  <2> QED
    BY <2>1, <2>2, <2>3
<1> QED
  BY <1>1, <1>2 DEF Shape

(* A bound may be raised.                                                  *)
LEMMA GapRises ==
    ASSUME NEW s \in Seq(Nat), NEW d \in Nat, NEW b \in Nat, NEW c \in Nat, b <= c, Gap(s, b, d)
    PROVE  Gap(s, c, d)
<1> SUFFICES ASSUME NEW k \in 1 .. Len(s), k + d <= Len(s)
             PROVE  s[k] + Span(Len(s) - k - d) < c
  BY DEF Gap
<1>1. s[k] + Span(Len(s) - k - d) < b
  BY DEF Gap
<1>2. Len(s) - k - d \in Nat /\ s[k] \in Nat
  OBVIOUS
<1> DEFINE sp == Span(Len(s) - k - d)
           sk == s[k]
<1>3. sp \in Nat /\ sk \in Nat /\ sk + sp < b
  BY <1>1, <1>2, Spans
<1> HIDE DEF sp, sk
<1>4. sk + sp < c
  BY <1>3
<1> QED
  BY <1>4 DEF sp, sk

(* The ticker fires, at a time when it is due.                             *)
LEMMA Fires ==
    ASSUME NEW s \in Seq(Nat), NEW first \in Nat, NEW now \in Nat, Ring(s, first, now),
           NEW due \in Nat, Gap(s, due, 1), due <= now,
           NEW next \in Nat, due + Interval <= next, now < next
    PROVE  Ticks(s, next, TRUE, now)
<1> USE ConstantsType
<1>1. Gap(s, next, 1) /\ Gap(s, now, 1)
  <2>1. due <= next
    OBVIOUS
  <2> QED
    BY <2>1, GapRises
<1>2. Gap(s, next, 0)
  <2> SUFFICES ASSUME NEW k \in 1 .. Len(s), k + 0 <= Len(s)
               PROVE  s[k] + Span(Len(s) - k - 0) < next
    BY DEF Gap
  <2> DEFINE m == Len(s) - k - 1
  <2>0. s[k] \in Nat
    OBVIOUS
  <2>1. CASE k < Len(s)
    <3>1. m \in Nat /\ Len(s) - k - 0 = m + 1 /\ k + 1 <= Len(s)
      BY <2>1
    <3>2. s[k] + Span(m) < due
      BY <3>1 DEF Gap
    <3> HIDE DEF m
    <3>3. Span(m + 1) = Span(m) + Interval /\ Span(m) \in Nat
      BY <3>1, Spans
    <3> DEFINE sp == Span(m)
               sk == s[k]
    <3>4. Span(Len(s) - k - 0) = sp + Interval /\ sp \in Nat /\ sk \in Nat /\ sk + sp < due
      BY <2>0, <3>1, <3>2, <3>3
    <3> HIDE DEF sp, sk
    <3>5. sk + (sp + Interval) < next
      BY <3>4
    <3> QED
      BY <3>4, <3>5 DEF sk
  <2>2. CASE k = Len(s)
    <3>1. Len(s) - k - 0 = 0 /\ s[k] <= now
      BY <2>2 DEF Ring
    <3>2. Span(0) = 0
      BY DEF Span
    <3> QED
      BY <2>0, <3>1, <3>2
  <2> QED
    BY <2>1, <2>2
<1> QED
  BY <1>1, <1>2 DEF Ticks

(* A sample is taken of the tick in the channel.                           *)
LEMMA TickGrows ==
    ASSUME NEW s \in Seq(Nat), NEW first \in Nat, NEW now \in Nat, Ring(s, first, now),
           NEW due \in Nat, Ticks(s, due, TRUE, now), NEW r, Shape(r, s, now)
    PROVE  Ring(r, first, now) /\ Ticks(r, due, FALSE, now)
<1>1. Gap(r, due, 1)
  <2>1. Gap(r, due, 0 + 1)
    BY GapGrows DEF Ticks
  <2> QED
    BY <2>1
<1>2. Gap(r, now, 2)
  <2>1. Gap(r, now, 1 + 1)
    BY GapGrows DEF Ticks
  <2> QED
    BY <2>1
<1>3. r[Len(r)] = now /\ Len(r) > 0
  BY DEF Shape
<1>4. \A i \in 1 .. Len(r) : first <= r[i] /\ r[i] <= now
  <2> SUFFICES ASSUME NEW i \in 1 .. Len(r) PROVE first <= r[i] /\ r[i] <= now
    OBVIOUS
  <2>1. first <= now
    <3>1. first <= s[1] /\ s[1] <= now /\ s[1] \in Nat
      BY DEF Ring
    <3> QED
      BY <3>1
  <2>4. Len(s) \in Nat
    OBVIOUS
  <2>2. CASE Len(r) = Len(s) + 1 /\ \A j \in 1 .. Len(s) : r[j] = s[j]
    <3>1. CASE i \in 1 .. Len(s)
      BY <2>2, <3>1 DEF Ring
    <3>2. CASE i = Len(s) + 1
      <4>1. r[i] = now
        BY <1>3, <2>2, <3>2
      <4> QED
        BY <2>1, <4>1
    <3> QED
      BY <2>2, <2>4, <3>1, <3>2
  <2>3. CASE Len(r) = Len(s) /\ \A j \in 1 .. Len(s) - 1 : r[j] = s[j + 1]
    <3>1. CASE i < Len(s)
      <4>1. i \in 1 .. Len(s) - 1 /\ i + 1 \in 1 .. Len(s)
        BY <2>3, <3>1
      <4> QED
        BY <2>3, <4>1 DEF Ring
    <3>2. CASE i = Len(s)
      BY <1>3, <2>1, <2>3, <3>2
    <3> QED
      BY <2>3, <3>1, <3>2
  <2> QED
    BY <2>2, <2>3 DEF Shape
<1>5. r[1] = first \/ Len(r) = Retained
  <2>1. CASE Len(r) = Len(s) + 1 /\ \A j \in 1 .. Len(s) : r[j] = s[j]
    <3>1. r[1] = s[1] /\ Len(s) \in Nat /\ (s[1] = first \/ Len(s) = Retained) /\ Len(r) <= Retained
      BY <2>1 DEF Ring, Shape
    <3> QED
      BY <2>1, <3>1, ConstantsType
  <2> QED
    BY <2>1 DEF Shape
<1> QED
  BY <1>1, <1>2, <1>3, <1>4, <1>5 DEF Ring, Ticks

(* The last sample waits for no tick.                                      *)
LEMMA FinalGrows ==
    ASSUME NEW s \in Seq(Nat), NEW first \in Nat, NEW now \in Nat, Ring(s, first, now),
           NEW r, Shape(r, s, now)
    PROVE  Final(r, first)
<1> USE ConstantsType
<1>1. r[Len(r)] = now /\ Len(r) > 0 /\ Len(s) > 0 /\ Len(s) \in Nat
  BY DEF Shape, Ring
<1>2. CASE Len(r) = Len(s) + 1 /\ \A j \in 1 .. Len(s) : r[j] = s[j]
  <2>1. r[1] = s[1] /\ Len(r) <= Retained /\ first <= s[1] /\ s[1] <= now
    BY <1>1, <1>2 DEF Shape, Ring
  <2>2. s[1] = first
    BY <1>1, <1>2, <2>1 DEF Ring
  <2> QED
    BY <1>1, <2>1, <2>2 DEF Final
<1>3. CASE Len(s) = Retained /\ Len(r) = Retained /\ \A j \in 1 .. Len(s) - 1 : r[j] = s[j + 1]
  <2>1. r[1] = s[2]
    BY <1>3
  <2>9. 2 \in 1 .. Len(s) /\ Len(s) \in 1 .. Len(s)
    BY <1>1, <1>3
  <2>10. s[2] \in Nat /\ s[Len(s)] \in Nat
    BY <2>9
  <2>2. first <= s[2] /\ s[Len(s)] <= now /\ s[2] \in Nat /\ s[Len(s)] \in Nat
    BY <2>9, <2>10 DEF Ring
  <2>3. s[2] + Span(Len(s) - 2 - 2) < s[Len(s)]
    BY <1>1, <1>3 DEF Ring, Gap
  <2>4. Len(s) - 2 - 2 = Retained - 4 /\ Retained - 4 \in Nat
    BY <1>3
  <2>5. Span(Retained - 4) \in Nat
    BY <2>4, Spans
  <2>6. s[2] + Span(Retained - 4) < s[Len(s)]
    BY <2>3, <2>4
  <2> DEFINE p == s[2]
             l == s[Len(s)]
             w == Span(Retained - 4)
  <2>7. p \in Nat /\ l \in Nat /\ w \in Nat /\ p + w < l /\ l <= now
    BY <2>2, <2>5, <2>6
  <2> HIDE DEF p, l, w
  <2>8. w < now - p /\ p <= now
    BY <2>7
  <2> QED
    BY <1>1, <2>1, <2>2, <2>8 DEF Final, p, w
<1> QED
  BY <1>2, <1>3 DEF Shape

LEMMA TimePasses ==
    ASSUME NEW s \in Seq(Nat), NEW first \in Nat, NEW now \in Nat, Ring(s, first, now),
           NEW due \in Nat, NEW pending \in BOOLEAN
    PROVE  /\ Ring(s, first, now + 1)
           /\ Ticks(s, due, pending, now) => Ticks(s, due, pending, now + 1)
<1>1. \A i \in 1 .. Len(s) : first <= s[i] /\ s[i] <= now + 1
  <2> SUFFICES ASSUME NEW i \in 1 .. Len(s) PROVE first <= s[i] /\ s[i] <= now + 1
    OBVIOUS
  <2>1. first <= s[i] /\ s[i] <= now
    BY DEF Ring
  <2>2. s[i] \in Nat
    OBVIOUS
  <2> QED
    BY <2>1, <2>2
<1>2. Gap(s, now, 1) => Gap(s, now + 1, 1)
  <2>1. now <= now + 1 /\ now + 1 \in Nat
    OBVIOUS
  <2> QED
    BY <2>1, GapRises
<1> QED
  BY <1>1, <1>2 DEF Ring, Ticks

LEMMA SamplesType == RingInv => /\ samples \in Seq(Nat) /\ Len(samples) <= Retained
                                /\ clock \in Nat /\ firstAt \in Nat /\ nextTick \in Nat
BY ConstantsType DEF RingInv

(* The ring of one sample more.                                            *)
LEMMA SampleShape ==
    ASSUME RingInv, samples' = Keep(Append(samples, clock))
    PROVE  /\ samples' \in Seq(0 .. MaxTime) /\ Len(samples') <= Retained /\ samples' # <<>>
           /\ Shape(samples', samples, clock)
<1>1. samples' \in Seq(0 .. MaxTime)
  BY KeepType DEF RingInv
<1>2. Shape(samples', samples, clock)
  BY SamplesType, KeepShape
<1> QED
  BY <1>1, <1>2 DEF Shape

LEMMA RingStep == RingInv /\ [Next]_vars => RingInv'
<1> SUFFICES ASSUME RingInv, [Next]_vars PROVE RingInv'
  OBVIOUS
<1> USE ConstantsType DEF RingInv, Running
<1>1. ASSUME UNCHANGED <<clock, samplerVars>>, pc' # "args",
             epc' = epc \/ (epc \in {"wait", "stop", "cut"} /\ epc' \in {"wait", "stop", "cut"})
      PROVE  RingInv'
  BY <1>1 DEF samplerVars
<1>2. CASE Estimate
  <2>1. /\ epc' = "wait" /\ pc' = "estimate" /\ UNCHANGED <<clock, samplerVars>>
        /\ samples = <<>> /\ mpc = "first"
    BY <1>2 DEF Estimate, StartEstimate
  <2> QED
    BY <2>1 DEF samplerVars
<1>3. CASE FirstSample /\ UNCHANGED runVars
  <2>1. /\ Running /\ samples = <<>> /\ UNCHANGED <<epc, clock, tick, pc>> /\ firstAt' = clock
        /\ mpc' = "loop" /\ nextTick' = clock + Interval /\ samples' = Keep(Append(samples, clock))
    BY <1>3 DEF FirstSample, Sample, runVars
  <2>2. samples' = <<clock>>
    BY <2>1 DEF Keep
  <2>3. Len(samples') = 1 /\ samples'[1] = clock /\ samples' \in Seq(0 .. MaxTime) /\ samples' # <<>>
    BY <2>2
  <2>4. clock \in Nat
    OBVIOUS
  <2>10. \A b, d : d \in {1, 2} => Gap(samples', b, d)
    BY ONLY <2>3 DEF Gap
  <2>5. Ring(samples', firstAt', clock)
    <3>1. Gap(samples', samples'[Len(samples')], 2)
      BY <2>10
    <3>2. firstAt' = clock
      BY <2>1
    <3> QED
      BY ONLY <2>3, <2>4, <3>1, <3>2 DEF Ring
  <2>9. ~ tick'
    <3>1. mpc = "first"
      BY <1>3 DEF FirstSample
    <3> QED
      BY <2>1, <3>1
  <2>6. Ticks(samples', nextTick', tick', clock)
    BY <2>9, <2>10 DEF Ticks
  <2>7. nextTick' \in 0 .. MaxTime + Interval
    BY <2>1
  <2>8. epc' = epc /\ clock' = clock /\ pc' = pc /\ firstAt' \in 0 .. MaxTime /\ tick' \in BOOLEAN
        /\ epc \in {"wait", "stop", "cut"} /\ mpc' = "loop" /\ pc # "args"
    BY <2>1
  <2> QED
    BY <2>3, <2>5, <2>6, <2>7, <2>8
<1>4. CASE TickSample /\ UNCHANGED runVars
  <2>1. /\ mpc = "loop" /\ tick /\ Running /\ UNCHANGED <<epc, clock, pc, mpc, nextTick, firstAt>>
        /\ tick' = FALSE /\ samples' = Keep(Append(samples, clock))
    BY <1>4 DEF TickSample, Sample, runVars
  <2>2. /\ Ring(samples, firstAt, clock) /\ Ticks(samples, nextTick, TRUE, clock)
    <3>1. tick = TRUE
      BY <2>1
    <3> QED
      BY <2>1, <3>1
  <2>3. /\ samples' \in Seq(0 .. MaxTime) /\ Len(samples') <= Retained /\ samples' # <<>>
        /\ Shape(samples', samples, clock)
    BY <2>1, SampleShape
  <2>4. Ring(samples', firstAt, clock) /\ Ticks(samples', nextTick, FALSE, clock)
    BY <2>2, <2>3, SamplesType, TickGrows
  <2> QED
    BY <2>1, <2>3, <2>4
<1>5. CASE LeaveSampler /\ UNCHANGED runVars
  BY <1>5 DEF LeaveSampler, runVars
<1>6. CASE Tick /\ UNCHANGED runVars
  <2>1. /\ Running /\ clock' = clock + 1 /\ clock < MaxTime
        /\ UNCHANGED <<epc, pc, samplerVars>>
    BY <1>6 DEF Tick, runVars
  <2>2. samples # <<>> => Ring(samples, firstAt, clock + 1)
    BY <2>1, SamplesType, TimePasses
  <2>3. mpc = "loop" => Ticks(samples, nextTick, tick, clock + 1)
    BY <2>1, SamplesType, TimePasses
  <2> QED
    BY <2>1, <2>2, <2>3 DEF samplerVars
<1>12. CASE FireTicker /\ UNCHANGED runVars
  <2>1. /\ mpc = "loop" /\ nextTick <= clock /\ tick' = TRUE
        /\ UNCHANGED <<epc, clock, pc, mpc, samples, firstAt>>
    BY <1>12 DEF FireTicker, runVars
  <2>2. nextTick' \in nextTick + Interval .. clock + Interval /\ clock < nextTick'
    BY <1>12 DEF FireTicker
  <2>3. nextTick' \in 0 .. MaxTime + Interval /\ nextTick' \in Nat /\ nextTick + Interval <= nextTick'
    BY <2>2
  <2>4. Ring(samples, firstAt, clock) /\ Gap(samples, nextTick, 1)
    BY <2>1 DEF Ticks
  <2>5. Ticks(samples, nextTick', TRUE, clock)
    BY <2>1, <2>2, <2>3, <2>4, SamplesType, Fires
  <2> QED
    BY <2>1, <2>3, <2>5
<1>7. CASE LastSample /\ UNCHANGED runVars
  <2>1. /\ epc \in {"stop", "cut"} /\ mpc = "done" /\ UNCHANGED <<clock, pc, mpc, tick, nextTick, firstAt>>
        /\ epc' \in {"settled", "failed"} /\ samples' = Keep(Append(samples, clock))
    BY <1>7 DEF LastSample, Sample, runVars
  <2>2. samples # <<>> /\ Running /\ pc # "args" /\ Ring(samples, firstAt, clock)
    BY <2>1
  <2>3. /\ samples' \in Seq(0 .. MaxTime) /\ Len(samples') <= Retained /\ samples' # <<>>
        /\ Shape(samples', samples, clock)
    BY <2>1, SampleShape
  <2>4. Final(samples', firstAt)
    BY <2>2, <2>3, SamplesType, FinalGrows
  <2> QED
    BY <2>1, <2>2, <2>3, <2>4
<1>8. CASE /\ SendProbe \/ EndProbe \/ RejectProbe \/ LeaveProber \/ SeeDrained \/ Expire \/ StopMonitor
           /\ Begun /\ UNCHANGED runVars
  <2>1. /\ UNCHANGED <<clock, samplerVars, pc>>
        /\ epc' = epc \/ (epc \in {"wait", "stop", "cut"} /\ epc' \in {"wait", "stop", "cut"})
    BY <1>8 DEF SendProbe, EndProbe, RejectProbe, LeaveProber, SeeDrained, Expire, StopMonitor,
                runVars
  <2> QED
    BY <1>1, <1>8, <2>1 DEF Begun
<1>9. CASE EndEstimate
  <2>1. /\ samples' = <<>> /\ clock' = 0 /\ firstAt' = 0 /\ mpc' = mpc /\ mpc = "done"
        /\ tick' = FALSE /\ nextTick' = 0
        /\ epc' \in {"off", "failed"} /\ pc' = "validate"
    BY <1>9 DEF EndEstimate
  <2>2. tick' \in BOOLEAN
    BY <2>1
  <2> QED
    BY <2>1, <2>2
<1>10. CASE UNCHANGED vars
  BY <1>10 DEF vars, capVars, samplerVars, runVars
<1>11. CASE RejectArgs \/ PreRunE \/ RejectConfig \/ StartRun \/ EngineStep \/ EndRun \/ EndDist
            \/ FailDist \/ SkipFile \/ SaveFile \/ FailToSave \/ PrintResults
            \/ FormatHealthReport \/ Gate \/ Abort \/ Kill \/ Interrupt \/ InterruptEarly
  <2>1. UNCHANGED <<epc, clock, samplerVars>>
    BY <1>11 DEF RejectArgs, PreRunE, RejectConfig, StartRun, EngineStep, EndRun, EndDist,
       FailDist, SkipFile, SaveFile, FailToSave, PrintResults, FormatHealthReport, Gate, Abort,
       Kill, Interrupt, InterruptEarly, capVars
  <2>2. pc' # "args"
    BY <1>11 DEF RejectArgs, PreRunE, RejectConfig, StartRun, EngineStep, EndRun, EndDist,
       FailDist, SkipFile, SaveFile, FailToSave, PrintResults, FormatHealthReport, Gate, Abort,
       Kill, Interrupt, InterruptEarly, Exit
  <2> QED
    BY <1>1, <2>1, <2>2
<1> QED
  BY <1>2, <1>3, <1>4, <1>5, <1>6, <1>7, <1>8, <1>9, <1>10, <1>11, <1>12
     DEF Next, Command, Others, Rest, EstimateStep, EstimateNext

LEMMA RingInit == Init => RingInv
<1> SUFFICES ASSUME Init PROVE RingInv
  OBVIOUS
<1>1. /\ epc = "off" /\ clock = 0 /\ firstAt = 0 /\ mpc = "first" /\ samples = <<>>
      /\ nextTick = 0 /\ tick = FALSE
  BY DEF Init, CapInit
<1>2. tick \in BOOLEAN
  BY <1>1
<1> QED
  BY <1>1, <1>2, ConstantsType DEF RingInv, Running

(* "Wait for workers to finish" (capacity.go:101-133): a result is of all  *)
(* probes, none of which disturbs the run.  The rate is divided by the     *)
(* whole time between the first sample and the last, or by the fallback,   *)
(* or, when the ring has lost samples, by a part of it that is more than   *)
(* Retained - 4 intervals, however late the ticks are.                     *)
THEOREM EstimatesBounded == Spec => []EstimateIsBounded
<1>1. ProbeInv /\ RingInv => EstimateIsBounded
  <2> SUFFICES ASSUME ProbeInv, RingInv, epc = "settled"
               PROVE  LET whole == samples[Len(samples)] - firstAt
                      IN  /\ completed = SampleSize /\ probing = 0 /\ workerWg = 0
                          /\ \/ Window = IF whole > 0 THEN whole ELSE Fallback
                             \/ (Retained - 4) * Interval < Window /\ Window <= whole
    BY DEF EstimateIsBounded
  <2>1. completed = SampleSize /\ probing = 0 /\ workerWg = 0
    BY ConstantsType DEF ProbeInv, Begun
  <2>2. Final(samples, firstAt) /\ samples \in Seq(Nat) /\ firstAt \in Nat
    BY SamplesType DEF RingInv
  <2> DEFINE last == samples[Len(samples)]
             oldest == samples[1]
             bound == (Retained - 4) * Interval
  <2>3. last \in Nat /\ oldest \in Nat /\ firstAt <= oldest /\ oldest <= last
    BY <2>2 DEF Final
  <2>4. oldest = firstAt \/ bound < last - oldest
    BY <2>2 DEF Final, Span
  <2>5. bound \in Nat
    <3>1. Retained - 4 \in Nat
      BY ConstantsType
    <3> QED
      BY <3>1, Spans DEF Span
  <2>6. Window = IF last - oldest > 0 THEN last - oldest ELSE Fallback
    BY DEF Window
  <2> HIDE DEF last, oldest, bound
  <2>7. CASE oldest = firstAt
    BY <2>1, <2>6, <2>7 DEF last, oldest
  <2>8. CASE bound < last - oldest
    <3>1. last - oldest > 0 /\ last - oldest <= last - firstAt
      BY <2>2, <2>3, <2>5, <2>8
    <3> QED
      BY <2>1, <2>6, <2>8, <3>1 DEF last, bound
  <2> QED
    BY <2>4, <2>7, <2>8
<1> QED
  BY <1>1, ProbeInit, ProbeStep, RingInit, RingStep, PTL DEF Spec

-----------------------------------------------------------------------------
(* The engine, up to the report that Run returns.                          *)

Early == {"args", "estimate", "validate"}
Late == {"save", "print", "health", "gate"}
Ended == pc \in Late \/ exit \in {0, 2}

(* Requests are thrown away only after the run is cancelled, and a report  *)
(* of one that was not is of all of them.  Nothing of the engine happens   *)
(* before the run.                                                         *)
EngineInv ==
    /\ sent \in 0 .. TotalReqs /\ begun \in 0 .. sent
    /\ counted \subseteq 1 .. begun /\ lost \subseteq 1 .. begun /\ counted \cap lost = {}
    /\ bad \subseteq counted
    /\ cancelled \in BOOLEAN /\ returned \in BOOLEAN /\ interrupted \in BOOLEAN
    /\ lost # {} => cancelled
    /\ pc \in Early => lost = {} /\ begun = 0
    /\ exit # -1 => pc = "exited"
    /\ exit \in {-1, 0, 1, 2, 130}
    /\ Ended /\ command = "run" /\ ~ cancelled => counted = 1 .. TotalReqs

LEMMA EngineInit == Init => EngineInv
<1> SUFFICES ASSUME Init PROVE EngineInv
  OBVIOUS
<1>1. cancelled = FALSE /\ returned = FALSE /\ interrupted = FALSE
  BY DEF Init, E!Init
<1>2. sent = 0 /\ begun = 0 /\ counted = {} /\ lost = {} /\ bad = {} /\ pc = "args" /\ exit = -1
  BY DEF Init, E!Init
<1>3. cancelled \in BOOLEAN /\ returned \in BOOLEAN /\ interrupted \in BOOLEAN
  BY <1>1
<1> QED
  BY <1>2, <1>3, ConstantsType DEF EngineInv, Ended, Late, Early

LEMMA EngineKeeps == EngineInv /\ [Next]_vars => EngineInv'
<1> SUFFICES ASSUME EngineInv, [Next]_vars PROVE EngineInv'
  OBVIOUS
<1> USE ConstantsType DEF EngineInv, Ended, Late, Early
<1>1. CASE EngineStep
  <2>1. UNCHANGED <<pc, command, exit, interrupted>> /\ pc = "run"
    BY <1>1 DEF EngineStep
  <2>2. CASE E!Dispatch /\ UNCHANGED bad
    BY <2>1, <2>2 DEF E!Dispatch, Timed
  <2>3. CASE E!Begin /\ UNCHANGED bad
    BY <2>1, <2>3 DEF E!Begin
  <2>4. ASSUME NEW r \in E!Running, E!Lose(r), UNCHANGED bad PROVE EngineInv'
    BY <2>1, <2>4 DEF E!Lose, E!Running
  <2>5. ASSUME NEW r \in E!Running, E!Count(r), bad' \in {bad, bad \cup {r}} PROVE EngineInv'
    BY <2>1, <2>5 DEF E!Count, E!Running
  <2> QED
    BY <1>1, <2>2, <2>3, <2>4, <2>5 DEF EngineStep
<1>2. CASE Abort \/ Kill
  BY <1>2 DEF Abort, Kill, E!Cancel
<1>3. CASE EndRun
  <2>1. /\ E!Return /\ pc' = "save" /\ pc = "run" /\ UNCHANGED <<command, exit, bad, interrupted>>
    BY <1>3 DEF EndRun
  <2>2. ~ cancelled => counted = 1 .. TotalReqs
    BY <2>1 DEF E!Return, E!Running, Timed
  <2> QED
    BY <2>1, <2>2 DEF E!Return
<1>4. CASE Interrupt
  BY <1>4 DEF Interrupt
<1>5. CASE StartRun
  <2>1. cancelled' = interrupted /\ lost' = {} /\ pc' = "run"
    BY <1>5 DEF StartRun
  <2> QED
    BY <1>5, <2>1 DEF StartRun
<1>6. CASE \/ RejectArgs \/ PreRunE \/ Estimate \/ EstimateStep \/ EndEstimate \/ RejectConfig
           \/ EndDist \/ FailDist \/ SkipFile \/ SaveFile \/ FailToSave \/ PrintResults
           \/ FormatHealthReport \/ Gate \/ InterruptEarly \/ UNCHANGED vars
  <2>1. UNCHANGED <<engineVars, command, interrupted>>
    BY <1>6 DEF RejectArgs, PreRunE, Estimate, EstimateStep, EndEstimate, RejectConfig,
       EndDist, FailDist, SkipFile, SaveFile, FailToSave, PrintResults,
       FormatHealthReport, Gate, InterruptEarly, vars, runVars
  <2>2. /\ exit' # -1 => pc' = "exited"
        /\ exit' \in {-1, 0, 1, 2, 130}
        /\ pc' \in Early => pc \in Early
        /\ Ended' => Ended \/ command = "run-dist"
    BY <1>6 DEF RejectArgs, PreRunE, Estimate, EstimateStep, EndEstimate, RejectConfig,
       EndDist, FailDist, SkipFile, SaveFile, FailToSave, PrintResults,
       FormatHealthReport, Gate, InterruptEarly, vars, runVars, Exit
  <2> QED
    BY <2>1, <2>2 DEF engineVars
<1> QED
  BY <1>1, <1>2, <1>3, <1>4, <1>5, <1>6 DEF Next, Command, Others, Rest

-----------------------------------------------------------------------------
(* The report and the gate.                                                *)

LEMMA ShownType == ASSUME NEW f \in Format
                   PROVE  /\ {"failed", "p95"} \subseteq Printed(f)
                          /\ Printed(f) \subseteq ReportFacts
<1>1. /\ {"failed", "p95"} \subseteq Shown[f]
      /\ Shown[f] \subseteq ReportFacts
  <2>1. Shown[f] \in {PrintStatsTable, PrintStatsReport, ReportJSON}
    BY DEF Shown, Format, PrintStatsQuiet, PrintStatsCSV, PrintStatsTable
  <2> QED
    BY <2>1 DEF PrintStatsTable, PrintStatsReport, ReportJSON, ReportFacts
<1>2. /\ {"failed", "p95"} \subseteq Shown["text"]
      /\ Shown["text"] \subseteq ReportFacts
  <2>1. Shown["text"] = PrintStatsReport
    BY DEF Shown
  <2> QED
    BY <2>1 DEF PrintStatsReport, ReportFacts
<1> QED
  BY <1>1, <1>2 DEF Printed

LEMMA Counts ==
    ASSUME EngineInv
    PROVE  /\ Cardinality(counted) \in 0 .. TotalReqs /\ Cardinality(bad) \in 0 .. Cardinality(counted)
           /\ bad # counted => Cardinality(bad) < Cardinality(counted)
           /\ counted = 1 .. TotalReqs => Cardinality(counted) = TotalReqs
<1>1. IsFiniteSet(1 .. TotalReqs) /\ Cardinality(1 .. TotalReqs) = TotalReqs
  BY ConstantsType, FS_Interval
<1>2. counted \subseteq 1 .. TotalReqs /\ bad \subseteq counted
  BY ConstantsType DEF EngineInv
<1>3. IsFiniteSet(counted) /\ Cardinality(counted) <= TotalReqs /\ Cardinality(counted) \in Nat
  BY <1>1, <1>2, FS_Subset, FS_CardinalityType
<1>4. /\ Cardinality(bad) <= Cardinality(counted) /\ Cardinality(bad) \in Nat
      /\ bad # counted => Cardinality(bad) < Cardinality(counted)
  <2>1. bad \in SUBSET counted
    BY <1>2
  <2>2. /\ IsFiniteSet(bad) /\ Cardinality(bad) <= Cardinality(counted)
        /\ Cardinality(counted) = Cardinality(bad) => counted = bad
    BY <1>3, <2>1, FS_Subset
  <2>3. Cardinality(bad) \in Nat
    BY <2>2, FS_CardinalityType
  <2> QED
    BY <1>3, <2>2, <2>3
<1> QED
  BY <1>1, <1>3, <1>4, ConstantsType

LEMMA StatsType ==
    ASSUME NEW total \in 0 .. TotalReqs, NEW failed \in 0 .. total, NEW s \in StatsOf(total, failed)
    PROVE  /\ s \in [total : 0 .. TotalReqs, failed : 0 .. TotalReqs, p95 : 0 .. MaxP95]
           /\ s.failed = failed
           /\ failed < total => s.p95 \in 1 .. MaxP95
<1>1. PICK p \in 0 .. MaxP95 : /\ s = [total |-> total, failed |-> failed, p95 |-> p]
                               /\ failed < total => p \in 1 .. MaxP95
  BY ConstantsType DEF StatsOf
<1> QED
  BY <1>1, ConstantsType

(* What the command holds and shows from the report to the exit.           *)
ReportInv ==
    /\ command \in {"run", "run-dist"}
    /\ pc \in {"args", "estimate", "validate", "run", "save", "print", "health", "gate", "exited"}
    /\ killEvent \in BOOLEAN /\ saturation \in {"off", "warn", "kill"}
    /\ stats \in [total : 0 .. TotalReqs, failed : 0 .. TotalReqs, p95 : 0 .. MaxP95]
    /\ format \in Format /\ screen \subseteq ReportFacts /\ saved \in {"none", "written", "lost"}
    /\ limits \in [errors : -1 .. TotalReqs, p95 : -1 .. MaxP95]
    /\ saved = "lost" => exit = 1
    /\ exit = 1 => screen = {} /\ (command = "run" => begun = 0 \/ saved = "lost")
    /\ pc \in {"args", "estimate", "validate", "run", "save", "print"} => screen = {}
    /\ pc \in {"estimate", "validate"} => command = "run"
    /\ pc \in {"health", "gate"} \/ exit \in {0, 2} => {"failed", "p95"} \subseteq screen
    /\ Ended /\ command = "run" => stats \in StatsOf(Cardinality(counted), Cardinality(bad))
    /\ exit = 2 => evaluateThresholds(stats, limits)
    /\ exit = 0 => ~ evaluateThresholds(stats, limits)

LEMMA ReportInit == Init => ReportInv
<1> SUFFICES ASSUME Init PROVE ReportInv
  OBVIOUS
<1>1. /\ command \in {"run", "run-dist"} /\ pc = "args" /\ exit = -1 /\ saturation = "off"
      /\ format = "text" /\ screen = {} /\ saved = "none"
  BY DEF Init
<1>2. killEvent \in BOOLEAN
  <2>1. killEvent = FALSE
    BY DEF Init
  <2> QED
    BY <2>1
<1>3. /\ stats \in [total : 0 .. TotalReqs, failed : 0 .. TotalReqs, p95 : 0 .. MaxP95]
      /\ limits \in [errors : -1 .. TotalReqs, p95 : -1 .. MaxP95]
  BY ConstantsType DEF Init, NoStats, NoLimits
<1> QED
  BY <1>1, <1>2, <1>3 DEF ReportInv, Format, Ended, Late

LEMMA ReportKeeps == EngineInv /\ ReportInv /\ [Next]_vars => ReportInv'
<1> SUFFICES ASSUME EngineInv, ReportInv, [Next]_vars PROVE ReportInv'
  OBVIOUS
<1>0. exit # -1 => pc = "exited"
  BY DEF EngineInv
<1> USE DEF ReportInv, Ended, Late
<1>1. CASE EndRun
  <2>1. /\ pc = "run" /\ pc' = "save" /\ E!Return
        /\ stats' \in StatsOf(Cardinality(counted), Cardinality(bad))
        /\ UNCHANGED <<command, exit, saturation, bad, killEvent, format, screen, saved, limits>>
    BY <1>1 DEF EndRun
  <2>2. counted' = counted
    BY <2>1 DEF E!Return
  <2>3. stats' \in [total : 0 .. TotalReqs, failed : 0 .. TotalReqs, p95 : 0 .. MaxP95]
    BY <2>1, Counts, StatsType
  <2>4. exit = -1
    BY <1>0, <2>1
  <2> HIDE DEF evaluateThresholds
  <2> QED
    BY <2>1, <2>2, <2>3, <2>4
<1>2. CASE EndDist
  <2>1. PICK failed \in 0 .. TotalReqs : stats' \in StatsOf(TotalReqs, failed)
    BY <1>2 DEF EndDist
  <2>2. /\ pc = "run" /\ pc' = "save" /\ command = "run-dist"
        /\ UNCHANGED <<command, exit, saturation, killEvent, format, screen, saved, limits>>
    BY <1>2 DEF EndDist, engineVars
  <2>3. stats' \in [total : 0 .. TotalReqs, failed : 0 .. TotalReqs, p95 : 0 .. MaxP95]
    BY <2>1, StatsType, ConstantsType
  <2>4. exit = -1
    BY <1>0, <2>2
  <2> QED
    BY <2>2, <2>3, <2>4
<1>3. CASE PrintResults
  <2>1. /\ pc = "print" /\ format' \in Format /\ screen' = Printed(format')
        /\ pc' \in {"health", "gate"}
        /\ UNCHANGED <<command, exit, saturation, engineVars, stats, saved, limits>>
    BY <1>3 DEF PrintResults
  <2>2. {"failed", "p95"} \subseteq screen' /\ screen' \subseteq ReportFacts
    BY <2>1, ShownType
  <2>3. exit = -1
    BY <1>0, <2>1
  <2> QED
    BY <2>1, <2>2, <2>3 DEF engineVars
<1>4. CASE FormatHealthReport
  <2>1. /\ pc = "health" /\ pc' = "gate"
        /\ screen' = screen \cup {"health"} \cup (IF killEvent THEN {"kill"} ELSE {})
        /\ UNCHANGED <<command, exit, saturation, engineVars, stats, format, saved, limits>>
    BY <1>4 DEF FormatHealthReport
  <2>2. "health" \in ReportFacts /\ "kill" \in ReportFacts
    BY DEF ReportFacts
  <2>3. exit = -1
    BY <1>0, <2>1
  <2> QED
    BY <2>1, <2>2, <2>3 DEF engineVars
<1>5. CASE Gate
  <2>1. /\ pc = "gate" /\ limits' \in [errors : -1 .. TotalReqs, p95 : -1 .. MaxP95]
        /\ pc' = "exited"
        /\ exit' = IF evaluateThresholds(stats, limits') THEN 2 ELSE 0
        /\ UNCHANGED <<command, saturation, engineVars, stats, format, screen, saved>>
    BY <1>5 DEF Gate, Exit
  <2>2. exit = -1
    BY <1>0, <2>1
  <2>3. saved' # "lost"
    BY <2>1, <2>2
  <2>4. stats' = stats /\ UNCHANGED <<counted, bad, killEvent>>
    BY <2>1 DEF engineVars
  <2>5. /\ exit' = 2 => evaluateThresholds(stats', limits')
        /\ exit' = 0 => ~ evaluateThresholds(stats', limits')
    BY <2>1, <2>4 DEF evaluateThresholds
  <2> QED
    BY <2>1, <2>3, <2>4, <2>5
<1>6. CASE StartRun
  <2>1. pc = "validate" /\ pc' = "run" /\ saturation' \in {"off", "warn", "kill"}
        /\ UNCHANGED <<command, exit, killEvent, outputVars>>
    BY <1>6 DEF StartRun
  <2>2. exit = -1
    BY <1>0, <2>1
  <2> QED
    BY <2>1, <2>2 DEF outputVars
<1>7. CASE EngineStep \/ Abort \/ Kill
  <2>1. pc = "run" /\ killEvent' \in BOOLEAN /\ UNCHANGED <<command, pc, exit, saturation, outputVars>>
    <3>1. CASE EngineStep \/ Abort
      BY <3>1 DEF EngineStep, Abort
    <3>2. CASE Kill
      <4>1. killEvent' = TRUE
        BY <3>2 DEF Kill
      <4> QED
        BY <3>2, <4>1 DEF Kill
    <3> QED
      BY <1>7, <3>1, <3>2
  <2>2. exit = -1
    BY <1>0, <2>1
  <2> QED
    BY <2>1, <2>2 DEF outputVars
<1>8. CASE SaveFile \/ FailToSave
  <2>1. /\ pc = "save" /\ UNCHANGED <<command, saturation, engineVars, stats, format, screen, limits>>
        /\ \/ pc' = "print" /\ exit' = exit /\ saved' = "written"
           \/ pc' = "exited" /\ exit' = 1 /\ saved' = "lost"
    BY <1>8 DEF SaveFile, FailToSave, Exit
  <2>2. exit = -1
    BY <1>0, <2>1
  <2> QED
    BY <2>1, <2>2 DEF engineVars
<1>9. CASE RejectArgs \/ InterruptEarly \/ RejectConfig \/ FailDist
  <2>1. /\ pc \in {"args", "validate", "run"} /\ pc' = "exited" /\ exit' \in {1, 130}
        /\ pc = "run" => command = "run-dist"
        /\ UNCHANGED <<command, saturation, engineVars, outputVars>>
    BY <1>9 DEF RejectArgs, InterruptEarly, RejectConfig, FailDist, Exit
  <2>2. exit = -1
    BY <1>0, <2>1
  <2>3. screen = {} /\ (command = "run" => begun = 0)
    BY <2>1 DEF EngineInv, Early
  <2> QED
    BY <2>1, <2>2, <2>3 DEF engineVars, outputVars
<1>10. CASE \/ PreRunE \/ Estimate \/ EstimateStep \/ EndEstimate \/ SkipFile \/ Interrupt
            \/ UNCHANGED vars
  <2>1. UNCHANGED <<command, exit, saturation, begun, counted, bad, killEvent, outputVars>>
    BY <1>10 DEF PreRunE, Estimate, EstimateStep, EndEstimate, SkipFile, Interrupt,
       vars, runVars, engineVars
  <2>2. \/ pc' = pc
        \/ pc \in {"args", "estimate"} /\ pc' = "run"
        \/ pc \in {"args", "estimate"} /\ pc' \in {"estimate", "validate"} /\ command = "run"
        \/ pc = "save" /\ pc' = "print"
    BY <1>10 DEF PreRunE, Estimate, EstimateStep, EndEstimate, SkipFile, Interrupt, vars, runVars
  <2>3. pc' # pc => exit = -1
    BY <1>0, <2>2
  <2> QED
    BY <2>1, <2>2, <2>3 DEF outputVars
<1> QED
  BY <1>1, <1>2, <1>3, <1>4, <1>5, <1>6, <1>7, <1>8, <1>9, <1>10 DEF Next, Command, Others, Rest

(* Status 0 and 2 are what README.md:280-284 says of them: the gate judges *)
(* the report of the requests that were made, all of them unless the run   *)
(* was cut short, and the report is on the screen (run.go:262-275).        *)
THEOREM GatesHonestly == Spec => []GateIsHonest
<1>1. EngineInv /\ ReportInv => GateIsHonest
  <2> SUFFICES ASSUME EngineInv, ReportInv PROVE GateIsHonest
    OBVIOUS
  <2>1. ASSUME exit = 2
        PROVE  /\ evaluateThresholds(stats, limits)
               /\ {"failed", "p95"} \subseteq screen /\ saved # "lost"
    BY <2>1 DEF ReportInv
  <2>3. ASSUME exit = 1
        PROVE  screen = {} /\ (command = "run" => begun = 0 \/ saved = "lost")
    BY <2>3 DEF ReportInv
  <2>2. ASSUME exit = 0, command = "run"
        PROVE  /\ ~ cancelled => Cardinality(counted) = TotalReqs
               /\ limits.errors >= 0 => Cardinality(bad) <= limits.errors
               /\ limits.p95 >= 0 /\ bad # counted => stats.p95 \in 1 .. limits.p95
               /\ saved # "lost" /\ {"failed", "p95"} \subseteq screen
    <3>1. ~ cancelled => Cardinality(counted) = TotalReqs
      BY <2>2, Counts DEF EngineInv, Ended
    <3>2. stats \in StatsOf(Cardinality(counted), Cardinality(bad)) /\ ~ evaluateThresholds(stats, limits)
      BY <2>2 DEF ReportInv, Ended
    <3>3. /\ stats.failed = Cardinality(bad) /\ Cardinality(bad) \in Nat
          /\ bad # counted => stats.p95 \in 1 .. MaxP95
      BY <3>2, Counts, StatsType
    <3>4. limits.errors \in -1 .. TotalReqs /\ limits.p95 \in -1 .. MaxP95
      BY DEF ReportInv
    <3>5. saved # "lost" /\ {"failed", "p95"} \subseteq screen
      BY <2>2 DEF ReportInv
    <3> QED
      BY <3>1, <3>2, <3>3, <3>4, <3>5, ConstantsType DEF evaluateThresholds
  <2> QED
    BY <2>1, <2>2, <2>3 DEF GateIsHonest
<1> QED
  BY <1>1, EngineInit, EngineKeeps, ReportInit, ReportKeeps, PTL DEF Spec

(* Every variable keeps its range, for any workload and any estimate.      *)
THEOREM TypeCorrect == Spec => []TypeOK
<1>1. ProbeInv /\ RingInv => CapTypeOK
  <2> SUFFICES ASSUME ProbeInv, RingInv PROVE CapTypeOK
    OBVIOUS
  <2>1. jobsLeft \in 0 .. SampleSize /\ completed \in 0 .. SampleSize
    <3>1. workerWg \in Nat /\ probing \in Nat
      BY ConstantsType DEF ProbeInv
    <3> QED
      BY <3>1, ConstantsType DEF ProbeInv
  <2> QED
    BY <2>1 DEF CapTypeOK, ProbeInv, RingInv
<1>2. CapTypeOK /\ EngineInv /\ ReportInv => TypeOK
  BY DEF TypeOK, EngineInv, ReportInv
<1> QED
  BY <1>1, <1>2, ProbeInit, ProbeStep, RingInit, RingStep, EngineInit, EngineKeeps,
     ReportInit, ReportKeeps, PTL DEF Spec
=============================================================================
