------------------------------ MODULE Metrics ------------------------------
(***************************************************************************)
(* The numbers of a scenario run: the 95th percentile of its latencies     *)
(* (backend/app/services/ping_metrics.py) and the verdict on its           *)
(* requirements (requirements_evaluation.py).  A threshold or a            *)
(* measurement that is None is {}, any other is {number}.                  *)
(***************************************************************************)
EXTENDS Naturals, Sequences, FiniteSets

CONSTANT Unit   \* success rates are multiples of 1 / Unit

ASSUME UnitAssumption == Unit \in Nat \ {0}

\* Mutant: the rank is rounded down.
Floor95(n) == (95 * n) \div 100

\* math.ceil(0.95 * len(s)): the rounding of the product never moves it over an integer.
Rank95(n) == (95 * n + 99) \div 100

\* sorted: what is equal keeps its order.
Place(s, i) == Cardinality({j \in DOMAIN s : s[j] < s[i] \/ (s[j] = s[i] /\ j <= i)})
Sorted(s) == [k \in 1..Len(s) |-> s[CHOOSE i \in DOMAIN s : Place(s, i) = k]]

\* p95_latency_ms: the index is kept within the list.
P95(latencies) ==
    LET s == Sorted(latencies)
        i == Rank95(Len(s))
    IN  IF latencies = <<>> THEN {}
        ELSE {s[IF i < 1 THEN 1 ELSE IF i > Len(s) THEN Len(s) ELSE i]}

-----------------------------------------------------------------------------
(* evaluate_requirements *)

\* The rate is 1 when nothing was tested.
Availability(min, m) ==
    \A rate \in min : IF m.total = 0 THEN Unit >= rate ELSE m.passed * Unit >= rate * m.total

Within(limit, measure) == limit = {} \/ \E l \in limit, x \in measure : x <= l

\* Mutant: the second threshold of the latency decides alone.
LastLatency(spec, m) == IF spec.p95 = {} THEN Within(spec.avg, m.avg) ELSE Within(spec.p95, m.p95)

Latency(spec, m) == Within(spec.avg, m.avg) /\ Within(spec.p95, m.p95)

Recovery(limit, m) == Within(limit, m.recovery)

Met(spec, m) ==
    /\ Availability(spec.rate, m)
    /\ Latency(spec, m)
    /\ Recovery(spec.recovery, m)

=============================================================================
