-------------------------- MODULE WindowedAggregation --------------------------
(***************************************************************************)
(* What the aggregation of the stress-process command promises (spec,     *)
(* 4.4): intervals are reported in their order, each with the mean of the  *)
(* QoS samples whose timestamp t satisfies begin <= t < end.  A window     *)
(* without samples is reported as NaN or 0.  Nothing says here whether    *)
(* every interval is reported: that is checked separately.                 *)
(***************************************************************************)
EXTENDS Integers, Sequences, FloatValues

VARIABLES
    intervals,  \* the input: sequence of [begin, end, stress] records
    samples,    \* the input: sequence of [ts, qos] records
    rows        \* the averages reported so far

\* Positions of the samples inside the half-open window of interval iv.
Window(iv) == {i \in DOMAIN samples : iv.begin <= samples[i].ts /\ samples[i].ts < iv.end}

WindowValues(iv) ==
    IF Window(iv) = {} THEN {NaN, Zero} ELSE {MeanOver(samples, Window(iv))}

Init == rows = <<>>

\* The next interval is reported.
Report ==
    /\ Len(rows) < Len(intervals)
    /\ \E v \in WindowValues(intervals[Len(rows) + 1]) : rows' = Append(rows, v)
    /\ UNCHANGED <<intervals, samples>>

\* The inputs never change.
Spec == Init /\ [][Report]_<<intervals, samples, rows>>

=============================================================================
