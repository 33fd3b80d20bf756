----------------------------- MODULE MCWatchdog -----------------------------
(***************************************************************************)
(* Samples and limits for model checking Watchdog.                         *)
(***************************************************************************)
EXTENDS Watchdog

Calm == [cpu |-> 20, memoryMB |-> 20, gcPause |-> 0, goroutines |-> 4, fds |-> 10]
HotCPU == [Calm EXCEPT !.cpu = 99]
GCStorm == [Calm EXCEPT !.gcPause = 600]

Spikes == {Calm, HotCPU, GCStorm}
Footprint == {[Calm EXCEPT !.memoryMB = 80]}
=============================================================================
