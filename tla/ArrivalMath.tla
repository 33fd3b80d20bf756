---------------------------- MODULE ArrivalMath ----------------------------
(***************************************************************************)
(* The arithmetic of the arrival schedule (pkg/storm/arrival.go).  Slot j  *)
(* of a schedule at rate r is due j * NsPerSec / r nanoseconds after its   *)
(* start.  The first three operators are what the code computes as long as *)
(* its 128-bit product and its 64-bit result suffice; the operators ending *)
(* in W compute with words of Word values, as bits.Mul64, bits.Div64 and   *)
(* the conversion to int64 do.                                             *)
(***************************************************************************)
EXTENDS Integers

CONSTANTS
    NsPerSec,    \* nsPerSec: 10^9 in the code
    Word         \* 2^64 in the code

ASSUME NsPerSecAssumption == NsPerSec \in Nat \ {0}
ASSUME WordAssumption == Word \in Nat \ {0} /\ Word % 2 = 0

\* Fault: every slot that has begun counts as elapsed.
DueIndexCeil(elapsed, rate) ==
    IF elapsed <= 0 THEN 0 ELSE (elapsed * rate + NsPerSec - 1) \div NsPerSec

\* How many slots after slot 0 have come due.
DueIndex(elapsed, rate) ==
    IF elapsed <= 0 THEN 0 ELSE (elapsed * rate) \div NsPerSec

\* Fault: the slot width rounded once and then multiplied: the error adds up.
SlotOffsetDrifts(j, rate) == j * (NsPerSec \div rate)

\* When slot j is due.
SlotOffset(j, rate) == (j * NsPerSec) \div rate

\* Fault: floor where the code has ceil (the r > 0 branch forgotten).
ArrivalLimitFloor(dur, rate) ==
    IF dur <= 0 \/ rate = 0 THEN 0 ELSE (dur * rate) \div NsPerSec

\* How many slots lie strictly inside a window: ceil(dur * rate / NsPerSec).
ArrivalLimit(dur, rate) ==
    IF dur <= 0 \/ rate = 0 THEN 0
    ELSE (dur * rate) \div NsPerSec + (IF (dur * rate) % NsPerSec > 0 THEN 1 ELSE 0)

-----------------------------------------------------------------------------
(* The same in machine words. *)

MaxInt == Word \div 2 - 1
Panic == "panic"

\* int64(q): two's complement.
ToInt(q) == LET u == q % Word IN IF u > MaxInt THEN u - Word ELSE u

\* Fault: a 64-bit product instead of a 128-bit one.
DivNarrow(product, d) == ToInt((product % Word) \div d)

\* bits.Div64 panics when the quotient does not fit in a word.
Div(product, d) == IF product \div Word >= d THEN Panic ELSE ToInt(product \div d)

DueIndexW(elapsed, rate) ==
    IF elapsed <= 0 THEN 0 ELSE Div(elapsed * rate, NsPerSec)

SlotOffsetW(j, rate) ==
    IF (j * NsPerSec) \div Word >= rate THEN MaxInt ELSE Div(j * NsPerSec, rate)

ArrivalLimitW(dur, rate) ==
    IF dur <= 0 \/ rate = 0 THEN 0
    ELSE IF (dur * rate) \div Word >= NsPerSec THEN Panic
    ELSE ToInt((dur * rate) \div NsPerSec + (IF (dur * rate) % NsPerSec > 0 THEN 1 ELSE 0))
=============================================================================
