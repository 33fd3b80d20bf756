----------------------------- MODULE MCArrival -----------------------------
(***************************************************************************)
(* ArrivalSchedule for model checking, and the arithmetic it rests on      *)
(* against its definition: at every time the clock shows, for every small  *)
(* rate and slot.                                                          *)
(***************************************************************************)
EXTENDS ArrivalSchedule, FiniteSets

CONSTANTS MaxRate, MaxSlot    \* BOUNDS on the inputs of the arithmetic

ASSUME InputsAssumption == {MaxRate, MaxSlot} \subseteq Nat

Rates == 1 .. MaxRate
Slots == 0 .. MaxSlot

(* What the producer's arithmetic promises at every time the clock shows.  *)
(* A slot counts as due only when its exact time has come, and so has the  *)
(* rounded offset the producer sleeps until; past that offset, rounded     *)
(* down like the due index, it does count.  The dispatch count of a window,*)
(* fixed before the run starts, is the number of slots that begin strictly *)
(* inside it.  Where the results fit in an int64 the machine computes the  *)
(* same functions, however long the product in between.                    *)
DueMeetsOffset ==
    \A r \in Rates, s \in Slots :
        /\ s <= DueIndex(now, r) => now * r >= s * NsPerSec /\ SlotOffset(s, r) <= now
        /\ now > SlotOffset(s, r) => s <= DueIndex(now, r)
LimitCountsSlots ==
    \A r \in Rates :
        ArrivalLimit(now, r) = Cardinality({s \in 0 .. now * r : s * NsPerSec < now * r})
WordsAgree ==
    \A r \in Rates :
        /\ DueIndex(now, r) <= MaxInt => DueIndexW(now, r) = DueIndex(now, r)
        /\ ArrivalLimit(now, r) <= MaxInt => ArrivalLimitW(now, r) = ArrivalLimit(now, r)
        /\ \A s \in Slots : SlotOffset(s, r) <= MaxInt => SlotOffsetW(s, r) = SlotOffset(s, r)
MathIsExact == DueMeetsOffset /\ LimitCountsSlots /\ WordsAgree
=============================================================================
