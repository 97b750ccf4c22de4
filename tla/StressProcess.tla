---------------------------- MODULE StressProcess ----------------------------
(***************************************************************************)
(* The "stress-process" command of interferenceanalysis (preprocess.py,   *)
(* class StressProcess).  For every stress interval, in file order, it     *)
(* averages the QoS samples inside [begin, end) with a cursor qos_index    *)
(* that is kept across intervals (__get_rangetime_qos), stops at the first *)
(* interval met with the QoS table exhausted, then scans the rows once     *)
(* more to express each average as a degradation percentage against the   *)
(* latest zero-stress row.                                                 *)
(*                                                                         *)
(* Timestamps are the seconds __compare_stimestamp_gt parses them to; the  *)
(* type and command columns are copied or ignored and are left out.        *)
(***************************************************************************)
EXTENDS Integers, Sequences, SequencesExt, FloatValues

CONSTANTS
    Times,          \* the seconds a timestamp may denote
    QosValues,      \* the values a QoS sample may have
    StressLevels,   \* the stress intensities of an interval
    MaxRows,        \* the most samples the QoS file has
    MaxIntervals,   \* the most intervals the stress file has
    QosReadFixed    \* whether the read_table call on the QoS file is
                    \* spelled sep="," (TRUE) or seq="," as in the code

ASSUME /\ Times \subseteq Nat /\ QosValues \subseteq Nat
       /\ StressLevels \subseteq Nat /\ 0 \in StressLevels
       /\ QosReadFixed \in BOOLEAN

VARIABLES
    stressFile, qosFile,    \* the two input files
    stress_table, qos_table,
    qos_index,              \* the cursor into qos_table, kept across intervals
    k,                      \* index of the stress row being processed
    begin_index,            \* start of the current window
    output_list,            \* [stress, avg] per reported interval
    output_table,           \* [stress, avg, deg] rows being normalised
    n,                      \* index of the output row being normalised
    no_stress_qos,          \* the current baseline average
    pc

vars == <<stressFile, qosFile, stress_table, qos_table, qos_index, k,
          begin_index, output_list, output_table, n, no_stress_qos, pc>>

IntervalRecs ==
    {iv \in [begin : Times, end : Times, stress : StressLevels] : iv.begin <= iv.end}

\* Stress files as the stress tool writes them: intervals in time order,
\* none starting before the previous one ended.
StressFiles ==
    {s \in SeqOf(IntervalRecs, MaxIntervals) :
        \A j \in 1..Len(s) - 1 : s[j].end <= s[j + 1].begin}

\* QoS files: samples in time order, timestamps possibly repeated.
QosFiles ==
    {s \in SeqOf([ts : Times, qos : QosValues], MaxRows) :
        \A j \in 1..Len(s) - 1 : s[j].ts <= s[j + 1].ts}

\* Mutant of CompareGt: >= for >.
CompareGtOrEqual(t1, t2) == t1 >= t2

\* __compare_stimestamp_gt on two parsed timestamps.
CompareGt(t1, t2) == t1 > t2

\* qos_table.at[i, 'timestamp'] for the 0-based row i.
TsAt(i) == qos_table[i + 1].ts

\* The stress row of the current loop iteration.
Interval == stress_table[k + 1]

\* Mutant of Exhausted: off by one.
ExhaustedEarly == qos_index >= Len(qos_table) - 1

\* The test at the head of the loop over stress rows (and of
\* __get_rangetime_qos).
Exhausted == qos_index >= Len(qos_table)

\* abs(row['stress']) <= 1e-5, for the integer stress levels.
IsBaseline(stress) == stress = 0

\* __get_rangetime_qos returns avg; the loop appends the row for it.
Record(avg) ==
    /\ output_list' = Append(output_list, [stress |-> Interval.stress, avg |-> avg])
    /\ k' = k + 1
    /\ pc' = "loop"

Init ==
    /\ stressFile \in StressFiles
    /\ qosFile \in QosFiles
    /\ stress_table = <<>> /\ qos_table = <<>>
    /\ qos_index = 0 /\ k = 0 /\ begin_index = 0
    /\ output_list = <<>> /\ output_table = <<>>
    /\ n = 0 /\ no_stress_qos = Num(-1, 1)
    /\ pc = "load"

\* Both files are read; read_table(..., seq=",") raises TypeError.
Load ==
    /\ pc = "load"
    /\ IF QosReadFixed
         THEN /\ stress_table' = stressFile
              /\ qos_table' = qosFile
              /\ pc' = "loop"
         ELSE /\ pc' = "failed"
              /\ UNCHANGED <<stress_table, qos_table>>
    /\ UNCHANGED <<stressFile, qosFile, qos_index, k, begin_index,
                   output_list, output_table, n, no_stress_qos>>

\* A stress row is left and the QoS table is not exhausted: call
\* __get_rangetime_qos for it.
NextInterval ==
    /\ pc = "loop"
    /\ k < Len(stress_table)
    /\ ~Exhausted
    /\ pc' = "begin"
    /\ UNCHANGED <<stressFile, qosFile, stress_table, qos_table, qos_index, k,
                   begin_index, output_list, output_table, n, no_stress_qos>>

\* Mutant of EndIntervals: from_records without the degradation-percent
\* column.
EndIntervalsNoDegColumn ==
    /\ pc = "loop"
    /\ k >= Len(stress_table) \/ Exhausted
    /\ output_table' = [j \in DOMAIN output_list |->
                           [stress |-> output_list[j].stress, avg |-> output_list[j].avg]]
    /\ n' = 0
    /\ no_stress_qos' = Num(-1, 1)
    /\ pc' = "normalize"
    /\ UNCHANGED <<stressFile, qosFile, stress_table, qos_table, qos_index, k,
                   begin_index, output_list>>

\* The loop ends (no row left, or break on an exhausted table); the rows
\* become a table whose degradation-percent column, absent from every
\* record, is NaN, and the baseline is -1.
EndIntervals ==
    /\ pc = "loop"
    /\ k >= Len(stress_table) \/ Exhausted
    /\ output_table' = [j \in DOMAIN output_list |->
                           [stress |-> output_list[j].stress,
                            avg |-> output_list[j].avg, deg |-> NaN]]
    /\ n' = 0
    /\ no_stress_qos' = Num(-1, 1)
    /\ pc' = "normalize"
    /\ UNCHANGED <<stressFile, qosFile, stress_table, qos_table, qos_index, k,
                   begin_index, output_list>>

\* Skip a sample before the window; past the last sample return 0.
SkipBefore ==
    /\ pc = "begin"
    /\ CompareGt(Interval.begin, TsAt(qos_index))
    /\ qos_index' = qos_index + 1
    /\ IF qos_index + 1 >= Len(qos_table)
         THEN Record(Zero)
         ELSE UNCHANGED <<k, output_list, pc>>
    /\ UNCHANGED <<stressFile, qosFile, stress_table, qos_table, begin_index,
                   output_table, n, no_stress_qos>>

\* The window starts at the first sample not before begin.
WindowStart ==
    /\ pc = "begin"
    /\ ~CompareGt(Interval.begin, TsAt(qos_index))
    /\ begin_index' = qos_index
    /\ pc' = "end"
    /\ UNCHANGED <<stressFile, qosFile, stress_table, qos_table, qos_index, k,
                   output_list, output_table, n, no_stress_qos>>

\* Take a sample before end into the window; past the last sample the
\* window ends at the end of the table.
SkipInside ==
    /\ pc = "end"
    /\ CompareGt(Interval.end, TsAt(qos_index))
    /\ qos_index' = qos_index + 1
    /\ IF qos_index + 1 >= Len(qos_table)
         THEN Record(MeanOver(qos_table, begin_index + 1..qos_index + 1))
         ELSE UNCHANGED <<k, output_list, pc>>
    /\ UNCHANGED <<stressFile, qosFile, stress_table, qos_table, begin_index,
                   output_table, n, no_stress_qos>>

\* The window ends before the first sample not before end: its mean,
\* np.mean(qos_table[begin_index:end_index]["qos"]), is returned.
WindowEnd ==
    /\ pc = "end"
    /\ ~CompareGt(Interval.end, TsAt(qos_index))
    /\ Record(MeanOver(qos_table, begin_index + 1..qos_index))
    /\ UNCHANGED <<stressFile, qosFile, stress_table, qos_table, qos_index,
                   begin_index, output_table, n, no_stress_qos>>

\* Mutant of RowBaseline: the percentage is computed before the baseline
\* is updated (and the update is lost).
RowBaselineStale(row) == no_stress_qos

\* The baseline a row is compared with: its own average when it is a
\* zero-stress row (set before the percentage is computed), else the last.
RowBaseline(row) == IF IsBaseline(row.stress) THEN row.avg ELSE no_stress_qos

\* One iteration of the degradation loop; a ZeroDivisionError ends the
\* command.
Normalize ==
    /\ pc = "normalize"
    /\ n < Len(output_table)
    /\ LET row == output_table[n + 1]
       IN /\ no_stress_qos' = RowBaseline(row)
          /\ \E d \in Degradation(row.avg, RowBaseline(row)) :
                IF d = DivError
                  THEN /\ pc' = "failed"
                       /\ UNCHANGED <<output_table, n>>
                  ELSE /\ output_table' = [output_table EXCEPT ![n + 1].deg = d]
                       /\ n' = n + 1
                       /\ UNCHANGED pc
    /\ UNCHANGED <<stressFile, qosFile, stress_table, qos_table, qos_index, k,
                   begin_index, output_list>>

\* Every row has its percentage: the table is written.
WriteOutput ==
    /\ pc = "normalize"
    /\ n >= Len(output_table)
    /\ pc' = "done"
    /\ UNCHANGED <<stressFile, qosFile, stress_table, qos_table, qos_index, k,
                   begin_index, output_list, output_table, n, no_stress_qos>>

Next ==
    \/ Load \/ NextInterval \/ EndIntervals
    \/ SkipBefore \/ WindowStart \/ SkipInside \/ WindowEnd
    \/ Normalize \/ WriteOutput

\* One process runs the command to its end: weak fairness on its steps.
Spec == Init /\ [][Next]_vars /\ WF_vars(Next)

-----------------------------------------------------------------------------

FloatRecs ==
    {Zero, NaN, Inf(1), Inf(-1)} \cup
    [kind : {"num"}, n : Int, d : Int \ {0}]

TypeOK ==
    /\ stressFile \in Seq(IntervalRecs)
    /\ qosFile \in Seq([ts : Times, qos : QosValues])
    /\ stress_table \in Seq(IntervalRecs)
    /\ qos_table \in Seq([ts : Times, qos : QosValues])
    /\ qos_index \in 0..MaxRows /\ k \in 0..MaxIntervals
    /\ begin_index \in 0..MaxRows /\ n \in 0..MaxIntervals
    /\ output_list \in Seq([stress : StressLevels, avg : FloatRecs])
    /\ output_table \in Seq([stress : StressLevels, avg : FloatRecs, deg : FloatRecs])
    /\ no_stress_qos \in FloatRecs
    /\ pc \in {"load", "loop", "begin", "end", "normalize", "done", "failed"}

\* The promise of the aggregation, with the files as its inputs and the
\* averages reported so far as its rows.
Aggregation == INSTANCE WindowedAggregation
    WITH intervals <- stressFile, samples <- qosFile,
         rows <- [j \in DOMAIN output_list |-> output_list[j].avg]

(***************************************************************************)
(* The cursor qos_index, carried from one interval to the next and only   *)
(* ever moved forward, yields for each interval in turn the mean of        *)
(* exactly the samples with begin <= t < end (NaN or 0 when there are     *)
(* none): the loop of __load_and_generate_output with                      *)
(* __get_rangetime_qos implements WindowedAggregation.                     *)
(***************************************************************************)
AggregationRefined == Aggregation!Spec

(***************************************************************************)
(* The break on an exhausted QoS table (and the early return 0) leaves    *)
(* out only intervals whose window holds no sample: once the cursor has    *)
(* passed the last sample, no later interval can contain one.             *)
(***************************************************************************)
OnlyEmptyWindowsUnreported ==
    pc \in {"normalize", "done"} =>
        \A j \in Len(output_list) + 1..Len(stress_table) :
            Aggregation!Window(stress_table[j]) = {}

\* The average of the latest zero-stress row among the first j rows, or
\* the initial -1 when there is none.
LatestBaseline(j) ==
    LET B == {i \in 1..j : IsBaseline(output_table[i].stress)}
    IN IF B = {} THEN Num(-1, 1) ELSE output_table[Max(B)].avg

(***************************************************************************)
(* Each normalised row's percentage is computed against the latest        *)
(* zero-stress row at or before it, itself included: the loop updates      *)
(* no_stress_qos before computing the row's degradation-percent.          *)
(***************************************************************************)
DegradationAgainstLatestBaseline ==
    \A j \in 1..n :
        output_table[j].deg \in Degradation(output_table[j].avg, LatestBaseline(j))

(***************************************************************************)
(* A row met before any zero-stress row has no baseline and must carry    *)
(* the "no baseline" marker, not a computed number (spec 4.5 and 7,       *)
(* UndefinedBaseline).                                                     *)
(***************************************************************************)
NoDegradationBeforeBaseline ==
    \A j \in 1..n :
        (\A i \in 1..j : ~IsBaseline(output_table[i].stress))
            => output_table[j].deg.kind = "nan"

=============================================================================
