----------------------------- MODULE MCTransport -----------------------------
(***************************************************************************)
(* The two kinds of connection statistics.  They share nothing: a          *)
(* behaviour moves one of them.                                            *)
(***************************************************************************)
EXTENDS ConnTrace, TransportStats, TLC

VARIABLE moving

Init == TraceInit /\ StatsInit /\ moving \in {"trace", "stats"}

Next ==
    \/ moving = "trace" /\ TraceNext /\ UNCHANGED <<statsVars, moving>>
    \/ moving = "stats" /\ StatsNext /\ UNCHANGED <<vars, moving>>

Spec == Init /\ [][Next]_<<vars, statsVars, moving>>
TypeOK == TraceTypeOK /\ StatsTypeOK

(* Recorders are alike; requests are started in their order. *)
Symmetry == Permutations(Recorder)
=============================================================================
