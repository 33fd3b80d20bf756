--------------------------- MODULE LogHistogram ---------------------------
(***************************************************************************)
(* The latency histogram (pkg/storm/loghistogram.go).  Binade b, the       *)
(* durations from Sub * 2^b up to Sub * 2^(b+1), is cut into Sub buckets   *)
(* of equal width.  The unit of time is the width of the narrowest bucket, *)
(* so that every bound is an integer: the floor of the range, 2^-10 ms in  *)
(* the code, is Sub.  Durations are not negative, as the program's are.    *)
(***************************************************************************)
EXTENDS Integers, FiniteSets, FiniteSetsExt, Functions

CONSTANTS
    Sub,        \* histSub: 128 in the code
    Binades     \* histBinades: 31 in the code

ASSUME HistogramAssumption == {Sub, Binades} \subseteq Nat \ {0}

Overflow == Sub * Binades
Ceiling == Sub * 2 ^ Binades
NewLogHistogram == [counts |-> [g \in 0 .. Overflow |-> 0], total |-> 0]

(* The exponent and the leading bits of the mantissa.                      *)
Index(d) ==
    IF d < Sub THEN 0
    ELSE IF d >= Ceiling THEN Overflow
    ELSE LET b == CHOOSE e \in 0 .. Binades - 1 : Sub * 2 ^ e <= d /\ d < Sub * 2 ^ (e + 1)
         IN  b * Sub + (d \div 2 ^ b - Sub)

Lower(g) == (Sub + (g % Sub)) * 2 ^ (g \div Sub)
Upper(g) == (Sub + (g % Sub) + 1) * 2 ^ (g \div Sub)

Observe(h, d) ==
    [counts |-> [h.counts EXCEPT ![Index(d)] = @ + 1], total |-> h.total + 1]

(* The nearest rank: ceil(n * p / 1000), for p in thousandths.             *)
Rank(n, p) == LET k == (n * p + 999) \div 1000 IN IF k < 1 THEN 1 ELSE k

(* How many durations lie in the buckets before g.                         *)
Below(h, g) == SumFunctionOnSet(h.counts, 0 .. g - 1)

\* Fault: the bucket is taken only when it goes past the rank.
PercentileStrict(h, p) ==
    LET target == Rank(h.total, p)
        Reaching == {g \in 0 .. Overflow - 1 :
                        h.counts[g] > 0 /\ Below(h, g) + h.counts[g] > target}
    IN  IF h.total = 0 THEN 0
        ELSE IF Reaching = {} THEN Ceiling
        ELSE Lower(Min(Reaching))

(* The first bucket in which the counts add up to the rank, and in it the  *)
(* place of the rank among the bucket's own; the result is truncated.      *)
Percentile(h, p) ==
    LET target == Rank(h.total, p)
        Reaching == {g \in 0 .. Overflow - 1 :
                        h.counts[g] > 0 /\ Below(h, g) + h.counts[g] >= target}
        g == Min(Reaching)
    IN  IF h.total = 0 THEN 0
        ELSE IF Reaching = {} THEN Ceiling
        ELSE Lower(g) + ((target - Below(h, g)) * (Upper(g) - Lower(g))) \div h.counts[g]
=============================================================================
