----------------------------- MODULE Collector -----------------------------
(***************************************************************************)
(* The streaming statistics of a local run (pkg/storm/collector.go) next   *)
(* to the batch statistics of a distributed one (aggregate.go): the        *)
(* collector sees one result at a time and keeps counters, Aggregate has   *)
(* all of them.  errorCount and errorSamples, which nothing reads, are     *)
(* left out.                                                               *)
(***************************************************************************)
EXTENDS LogHistogram, Sequences

CONSTANTS
    StatusCode,        \* the status codes of responses
    Duration,          \* the durations of responses
    TTFB,              \* their times to first byte; 0 is none
    MaxStoredErrors,   \* maxStoredErrors: 100 in the code
    MaxResults         \* BOUND on the number of results

ASSUME CollectorAssumption ==
    /\ StatusCode \subseteq Nat /\ Duration \subseteq Nat /\ TTFB \subseteq Nat
    /\ MaxStoredErrors \in Nat /\ MaxResults \in Nat

(* A result is a response, or an error with no status and no times.        *)
Response == [error : {FALSE}, status : StatusCode, duration : Duration, ttfb : TTFB]
Failure == [error |-> TRUE, status |-> 0, duration |-> 0, ttfb |-> 0]
Result == Response \cup {Failure}
Good(status) == 200 <= status /\ status < 400

VARIABLES
    collector,    \* the counters
    results       \* history: the results so far, job k the k-th

vars == <<collector, results>>

NewCollector ==
    [count |-> 0, successCount |-> 0, failCount |-> 0,
     totalDuration |-> 0, minDuration |-> 0, maxDuration |-> 0, firstResult |-> TRUE,
     statusCodes |-> [s \in StatusCode |-> 0], errors |-> <<>>,
     hist |-> NewLogHistogram,
     ttfbTotal |-> 0, ttfbCount |-> 0, ttfbHist |-> NewLogHistogram]

Init == collector = NewCollector /\ results = <<>>

-----------------------------------------------------------------------------
(* Add. *)

AddError(c, id) ==
    [c EXCEPT !.count = @ + 1, !.failCount = @ + 1,
              !.errors = IF Len(@) < MaxStoredErrors THEN Append(@, id) ELSE @]

Lesser(a, b) == IF a < b THEN a ELSE b
Greater(a, b) == IF a > b THEN a ELSE b

\* Fault: the first response is not told from the later ones.
ExtremesFromZero(c, d) ==
    [c EXCEPT !.minDuration = Lesser(@, d), !.maxDuration = Greater(@, d), !.firstResult = FALSE]

Extremes(c, d) ==
    [c EXCEPT !.minDuration = IF c.firstResult THEN d ELSE Lesser(@, d),
              !.maxDuration = IF c.firstResult THEN d ELSE Greater(@, d),
              !.firstResult = FALSE]

AddTTFB(c, t) ==
    IF t = 0 THEN c
    ELSE [c EXCEPT !.ttfbTotal = @ + t, !.ttfbCount = @ + 1, !.ttfbHist = Observe(@, t)]

AddResponse(c, r) ==
    LET counted == [c EXCEPT !.count = @ + 1,
                             !.statusCodes[r.status] = @ + 1,
                             !.successCount = IF Good(r.status) THEN @ + 1 ELSE @,
                             !.failCount = IF Good(r.status) THEN @ ELSE @ + 1,
                             !.totalDuration = @ + r.duration,
                             !.hist = Observe(@, r.duration)]
    IN  Extremes(AddTTFB(counted, r.ttfb), r.duration)

Add(r) ==
    /\ Len(results) < MaxResults
    /\ results' = Append(results, r)
    /\ collector' = IF r.error THEN AddError(collector, Len(results) + 1)
                    ELSE AddResponse(collector, r)

Next == \E r \in Result : Add(r)
Spec == Init /\ [][Next]_vars

-----------------------------------------------------------------------------
(* Stats, streaming and batch. *)

Reported == {500, 900, 950, 990, 999}    \* P50 to P999, in thousandths
ReportedTTFB == Reported \ {999}
Average(sum, n) == IF n > 0 THEN sum \div n ELSE 0

Stats(c) ==
    [TotalRequests |-> c.count, Successful |-> c.successCount, Failed |-> c.failCount,
     MinResponseTime |-> c.minDuration, MaxResponseTime |-> c.maxDuration,
     AvgResponseTime |-> Average(c.totalDuration, c.count),
     StatusCodes |-> c.statusCodes, Errors |-> c.errors,
     P |-> [p \in Reported |-> Percentile(c.hist, p)],
     TtfbAvg |-> Average(c.ttfbTotal, c.ttfbCount),
     TtfbP |-> [p \in ReportedTTFB |-> Percentile(c.ttfbHist, p)]]

(* percentile: the value at the nearest rank of the sorted values, which   *)
(* is the least value that as many as the rank do not exceed.              *)
Exact(values, p) ==
    LET UpTo(v) == {k \in DOMAIN values : values[k] <= v}
    IN  IF values = <<>> THEN 0
        ELSE Min({v \in Range(values) :
                    Cardinality(UpTo(v)) >= Rank(Cardinality(DOMAIN values), p)})

Aggregate ==
    LET failures == {k \in DOMAIN results : results[k].error}
        responses == DOMAIN results \ failures
        good == {k \in responses : Good(results[k].status)}
        durations == [k \in responses |-> results[k].duration]
        ttfs == [k \in {i \in responses : results[i].ttfb > 0} |-> results[k].ttfb]
        (* the errors in the order of the results *)
        Ordered(S) == [i \in 1 .. Cardinality(S) |-> CHOOSE k \in S : Cardinality(S \cap (1 .. k)) = i]
    IN  [TotalRequests |-> Len(results),
         Successful |-> Cardinality(good),
         Failed |-> Len(results) - Cardinality(good),
         MinResponseTime |-> IF responses = {} THEN 0 ELSE Min(Range(durations)),
         MaxResponseTime |-> IF responses = {} THEN 0 ELSE Max(Range(durations)),
         AvgResponseTime |-> Average(SumFunction(durations), Len(results)),
         StatusCodes |-> [s \in StatusCode |-> Cardinality({k \in responses : results[k].status = s})],
         Errors |-> Ordered(failures),
         P |-> [p \in Reported |-> Exact(durations, p)],
         TtfbAvg |-> Average(SumFunction(ttfs), Cardinality(DOMAIN ttfs)),
         TtfbP |-> [p \in ReportedTTFB |-> Exact(ttfs, p)]]

-----------------------------------------------------------------------------
(* Properties. *)

(* A run has the same statistics whether its results were streamed through *)
(* a Collector or kept for Aggregate, but for the percentiles and for the  *)
(* errors beyond the first MaxStoredErrors.                                *)
StreamingIsBatch ==
    LET s == Stats(collector)
        a == Aggregate
    IN  /\ \A field \in DOMAIN a \ {"Errors", "P", "TtfbP"} : s[field] = a[field]
        /\ s.Errors = SubSeq(a.Errors, 1, Lesser(Len(a.Errors), MaxStoredErrors))

(* "The result carries at most histRelErr relative error against the true  *)
(* nearest-rank value" (loghistogram.go:83-85) inside the range; below it  *)
(* the estimate is off by less than the first bucket's upper bound, beyond *)
(* it the ceiling is reported (20-23).  And the percentiles of a report    *)
(* never decrease from P50 to P999, although each is interpolated on its   *)
(* own.                                                                    *)
Close(estimate, true) ==
    \/ true < Sub /\ estimate \in Lower(0) .. Upper(0)
    \/ true \in Sub .. Ceiling - 1 /\ Sub * (estimate - true) \in -true .. true
    \/ true >= Ceiling /\ estimate = Ceiling
    \/ true = 0 /\ estimate = 0
PercentilesAreClose ==
    LET s == Stats(collector)
        a == Aggregate
    IN  /\ \A p \in Reported : Close(s.P[p], a.P[p])
        /\ \A p \in ReportedTTFB : Close(s.TtfbP[p], a.TtfbP[p])
        /\ \A p, q \in Reported : p <= q => s.P[p] <= s.P[q]
=============================================================================
