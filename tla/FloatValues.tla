----------------------------- MODULE FloatValues -----------------------------
(***************************************************************************)
(* The float values the stress-process command computes with: exact       *)
(* rationals n/d for finite values, NaN, and signed infinity.  Means and   *)
(* degradation percentages of integer QoS samples are rationals, so a      *)
(* finite float is represented exactly; rounding is not modelled.          *)
(***************************************************************************)
EXTENDS Integers, FiniteSets, FiniteSetsExt

Num(n, d) == [kind |-> "num", n |-> n, d |-> d]
Zero == Num(0, 1)
NaN == [kind |-> "nan", n |-> 0, d |-> 1]
Inf(sign) == [kind |-> "inf", n |-> sign, d |-> 1]
\* The ZeroDivisionError a Python float division by zero raises.
DivError == [kind |-> "error", n |-> 0, d |-> 1]

\* Two floats are equal as values (NaN is told apart from every number).
SameValue(x, y) ==
    /\ x.kind = y.kind
    /\ x.kind = "num" => x.n * y.d = y.n * x.d
    /\ x.kind = "inf" => x.n = y.n

IsZero(x) == x.kind = "num" /\ x.n = 0

\* np.mean(qos_table[begin:end]["qos"]): the mean of the samples whose
\* (1-based) positions form S; the mean of no sample is NaN.
MeanOver(samples, S) ==
    IF S = {} THEN NaN
    ELSE Num(MapThenSumSet(LAMBDA i : samples[i].qos, S), Cardinality(S))

(***************************************************************************)
(* 100 * (avg - base) / base, the degradation percentage.  A NaN operand   *)
(* gives NaN, except that a division by a zero baseline depends on the    *)
(* float type of the row values: a Python float raises ZeroDivisionError  *)
(* (DivError), a numpy float gives NaN for 0/0 or NaN/0 and a signed      *)
(* infinity otherwise.  Both are outcomes the command can produce, so the *)
(* operator returns the set of them.                                      *)
(***************************************************************************)
Degradation(avg, base) ==
    CASE base.kind = "nan" -> {NaN}
      [] IsZero(base) /\ (avg.kind = "nan" \/ IsZero(avg)) -> {DivError, NaN}
      [] IsZero(base) -> {DivError, Inf(IF avg.n * avg.d > 0 THEN 1 ELSE -1)}
      [] avg.kind = "nan" -> {NaN}
      [] OTHER -> {Num(100 * (avg.n * base.d - base.n * avg.d), avg.d * base.n)}

=============================================================================
