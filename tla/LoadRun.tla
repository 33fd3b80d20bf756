------------------------------ MODULE LoadRun ------------------------------
(***************************************************************************)
(* What LoadTester.Run promises its caller, with the goroutines, channels  *)
(* and counters left out.  Requests are numbered in the order in which     *)
(* they are generated.  Each one is started at most once, in that order,   *)
(* and a started request is either counted in the final report or thrown   *)
(* away - and throwing one away takes a cancelled run.  A run that was not *)
(* cancelled returns only when everything generated has been counted, and  *)
(* in count mode only when the whole workload has been generated.          *)
(***************************************************************************)
EXTENDS Integers

CONSTANTS
    TotalReqs,   \* Config.TotalReqs: the workload of count mode
    Timed        \* Config.Duration > 0: generate until a deadline instead

VARIABLES
    sent,        \* requests generated
    begun,       \* requests started: 1..begun
    counted,     \* requests the report accounts for
    lost,        \* requests started and thrown away
    cancelled,   \* the run was told to stop early
    returned     \* the caller has the report

vars == <<sent, begun, counted, lost, cancelled, returned>>

(* Started, and not yet accounted for one way or the other. *)
Running == (1 .. begun) \ (counted \cup lost)

Init ==
    /\ sent = 0
    /\ begun = 0
    /\ counted = {}
    /\ lost = {}
    /\ cancelled = FALSE
    /\ returned = FALSE

Dispatch ==
    /\ returned => cancelled
    /\ Timed \/ sent < TotalReqs
    /\ sent' = sent + 1
    /\ UNCHANGED <<begun, counted, lost, cancelled, returned>>

Begin ==
    /\ ~ returned
    /\ begun < sent
    /\ begun' = begun + 1
    /\ UNCHANGED <<sent, counted, lost, cancelled, returned>>

Count(r) ==
    /\ ~ returned
    /\ counted' = counted \cup {r}
    /\ UNCHANGED <<sent, begun, lost, cancelled, returned>>

Lose(r) ==
    /\ ~ returned
    /\ lost' = lost \cup {r}
    /\ cancelled' = TRUE
    /\ UNCHANGED <<sent, begun, counted, returned>>

Cancel ==
    /\ cancelled' = TRUE
    /\ UNCHANGED <<sent, begun, counted, lost, returned>>

Return ==
    /\ ~ returned
    /\ Running = {}
    /\ cancelled \/ (begun = sent /\ (Timed \/ sent = TotalReqs))
    /\ returned' = TRUE
    /\ UNCHANGED <<sent, begun, counted, lost, cancelled>>

Next ==
    \/ Dispatch
    \/ Begin
    \/ \E r \in Running : Count(r) \/ Lose(r)
    \/ Cancel
    \/ Return

Spec == Init /\ [][Next]_vars
=============================================================================
