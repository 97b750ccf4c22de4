--------------------------- MODULE MachineProcess ---------------------------
(***************************************************************************)
(* The "machine-process" command of interferenceanalysis (preprocess.py,  *)
(* class MachineProcess).  The same scan as stress-process: for every      *)
(* stress interval, in file order, it averages the cpu-usage of the        *)
(* machine samples inside [begin, end) with a cursor machine_index kept    *)
(* across intervals (__get_rangetime_cpu_usage), stops at the first        *)
(* interval met with the machine table exhausted, and writes the averages  *)
(* as they are, without a degradation percentage.                         *)
(*                                                                         *)
(* Timestamps are the seconds __compare_stimestamp_gt parses them to.  Of *)
(* the nine metric columns only cpu-usage is read; the others are left     *)
(* out, as are the copied type and command columns.                        *)
(***************************************************************************)
EXTENDS Integers, Sequences, SequencesExt, FloatValues

CONSTANTS
    Times,          \* the seconds a timestamp may denote
    CpuValues,      \* the values a cpu-usage sample may have
    StressLevels,   \* the stress intensities of an interval
    MaxRows,        \* the most samples the machine file has
    MaxIntervals,   \* the most intervals the stress file has
    AnyIntervalOrder \* whether the stress file may break the time order

ASSUME Times \subseteq Nat /\ CpuValues \subseteq Nat /\ StressLevels \subseteq Nat

VARIABLES
    stressFile, machineFile,    \* the two input files
    stress_table, machine_table,
    machine_index,              \* the cursor into machine_table
    k,                          \* index of the stress row being processed
    begin_index,                \* start of the current window
    output_list,                \* [stress, avg] per reported interval
    output_table,               \* the table written by to_csv
    pc

vars == <<stressFile, machineFile, stress_table, machine_table, machine_index,
          k, begin_index, output_list, output_table, pc>>

IntervalRecs ==
    {iv \in [begin : Times, end : Times, stress : StressLevels] : iv.begin <= iv.end}

\* Intervals in time order, none starting before the previous one ended:
\* what the stress file is assumed to hold, never checked by the code.
\* With AnyIntervalOrder the file may hold them in any order.
StressFiles ==
    {s \in SeqOf(IntervalRecs, MaxIntervals) :
        AnyIntervalOrder \/ \A j \in 1..Len(s) - 1 : s[j].end <= s[j + 1].begin}

\* Machine samples in time order, timestamps possibly repeated.
MachineFiles ==
    {s \in SeqOf([ts : Times, cpu : CpuValues], MaxRows) :
        \A j \in 1..Len(s) - 1 : s[j].ts <= s[j + 1].ts}

\* The cpu-usage column as the samples MeanOver averages.
CpuSamples(t) == [j \in DOMAIN t |-> [ts |-> t[j].ts, qos |-> t[j].cpu]]

\* Mutant of CompareGt: >= for >.
CompareGtOrEqual(t1, t2) == t1 >= t2

\* __compare_stimestamp_gt on two parsed timestamps.
CompareGt(t1, t2) == t1 > t2

\* machine_table.at[i, 'timestamp'] for the 0-based row i.
TsAt(i) == machine_table[i + 1].ts

Interval == stress_table[k + 1]

\* Mutant of Exhausted: off by one.
ExhaustedEarly == machine_index >= Len(machine_table) - 1

\* The test at the head of the loop over stress rows (and of
\* __get_rangetime_cpu_usage).
Exhausted == machine_index >= Len(machine_table)

\* Mutant of Record: the appended dict lacks the stress key.
RecordNoStress(avg) ==
    /\ output_list' = Append(output_list, [avg |-> avg])
    /\ k' = k + 1
    /\ pc' = "loop"

\* __get_rangetime_cpu_usage returns avg; the loop appends the row for it.
Record(avg) ==
    /\ output_list' = Append(output_list, [stress |-> Interval.stress, avg |-> avg])
    /\ k' = k + 1
    /\ pc' = "loop"

\* Both files are read by read_table before the loop.
Init ==
    /\ stressFile \in StressFiles
    /\ machineFile \in MachineFiles
    /\ stress_table = stressFile /\ machine_table = machineFile
    /\ machine_index = 0 /\ k = 0 /\ begin_index = 0
    /\ output_list = <<>> /\ output_table = <<>>
    /\ pc = "loop"

NextInterval ==
    /\ pc = "loop"
    /\ k < Len(stress_table)
    /\ ~Exhausted
    /\ pc' = "begin"
    /\ UNCHANGED <<stressFile, machineFile, stress_table, machine_table,
                   machine_index, k, begin_index, output_list, output_table>>

\* The loop ends (no row left, or break on an exhausted table); the rows
\* become the output table, which to_csv writes.
EndIntervals ==
    /\ pc = "loop"
    /\ k >= Len(stress_table) \/ Exhausted
    /\ output_table' = output_list
    /\ pc' = "done"
    /\ UNCHANGED <<stressFile, machineFile, stress_table, machine_table,
                   machine_index, k, begin_index, output_list>>

\* Mutant of SkipBefore: self.machine_index += 1 forgotten in the while
\* loop, which then spins on the same sample.
SkipBeforeNoAdvance ==
    /\ pc = "begin"
    /\ CompareGt(Interval.begin, TsAt(machine_index))
    /\ machine_index' = machine_index
    /\ IF machine_index >= Len(machine_table)
         THEN Record(Zero)
         ELSE UNCHANGED <<k, output_list, pc>>
    /\ UNCHANGED <<stressFile, machineFile, stress_table, machine_table,
                   begin_index, output_table>>

\* Skip a sample before the window; past the last sample return 0.
SkipBefore ==
    /\ pc = "begin"
    /\ CompareGt(Interval.begin, TsAt(machine_index))
    /\ machine_index' = machine_index + 1
    /\ IF machine_index + 1 >= Len(machine_table)
         THEN Record(Zero)
         ELSE UNCHANGED <<k, output_list, pc>>
    /\ UNCHANGED <<stressFile, machineFile, stress_table, machine_table,
                   begin_index, output_table>>

\* Mutant of WindowStart: begin_index left at the previous window's start.
WindowStartStale ==
    /\ pc = "begin"
    /\ ~CompareGt(Interval.begin, TsAt(machine_index))
    /\ pc' = "end"
    /\ UNCHANGED <<stressFile, machineFile, stress_table, machine_table,
                   machine_index, k, begin_index, output_list, output_table>>

\* The begin loop stops at the first sample at or after begin.
WindowStart ==
    /\ pc = "begin"
    /\ ~CompareGt(Interval.begin, TsAt(machine_index))
    /\ begin_index' = machine_index
    /\ pc' = "end"
    /\ UNCHANGED <<stressFile, machineFile, stress_table, machine_table,
                   machine_index, k, output_list, output_table>>

\* Take a sample before end into the window; past the last sample the
\* window ends at the end of the table.
SkipInside ==
    /\ pc = "end"
    /\ CompareGt(Interval.end, TsAt(machine_index))
    /\ machine_index' = machine_index + 1
    /\ IF machine_index + 1 >= Len(machine_table)
         THEN Record(MeanOver(CpuSamples(machine_table), begin_index + 1..machine_index + 1))
         ELSE UNCHANGED <<k, output_list, pc>>
    /\ UNCHANGED <<stressFile, machineFile, stress_table, machine_table,
                   begin_index, output_table>>

\* np.mean(machine_table[begin_index:end_index]["cpu-usage"]).
WindowEnd ==
    /\ pc = "end"
    /\ ~CompareGt(Interval.end, TsAt(machine_index))
    /\ Record(MeanOver(CpuSamples(machine_table), begin_index + 1..machine_index))
    /\ UNCHANGED <<stressFile, machineFile, stress_table, machine_table,
                   machine_index, begin_index, output_table>>

Next ==
    \/ NextInterval \/ EndIntervals
    \/ SkipBefore \/ WindowStart \/ SkipInside \/ WindowEnd

\* One process runs the command to its end: weak fairness on its steps.
Spec == Init /\ [][Next]_vars /\ WF_vars(Next)

-----------------------------------------------------------------------------

FloatRecs ==
    {Zero, NaN} \cup [kind : {"num"}, n : Int, d : Int \ {0}]

TypeOK ==
    /\ stressFile \in Seq(IntervalRecs)
    /\ machineFile \in Seq([ts : Times, cpu : CpuValues])
    /\ stress_table = stressFile /\ machine_table = machineFile
    /\ machine_index \in 0..MaxRows /\ k \in 0..MaxIntervals
    /\ begin_index \in 0..MaxRows
    /\ output_list \in Seq([stress : StressLevels, avg : FloatRecs])
    /\ output_table \in Seq([stress : StressLevels, avg : FloatRecs])
    /\ pc \in {"loop", "begin", "end", "done"}

\* The intervals before the first one that starts before its predecessor
\* ended: the code treats them as it would an ordered file.
OutOfOrderAt(s) == {j \in 1..Len(s) - 1 : s[j].end > s[j + 1].begin}
OrderedLen(s) == IF OutOfOrderAt(s) = {} THEN Len(s) ELSE Min(OutOfOrderAt(s))

Usage == INSTANCE WindowedAggregation
    WITH intervals <- SubSeq(stressFile, 1, OrderedLen(stressFile)),
         samples <- CpuSamples(machineFile),
         rows <- [j \in 1..Min({Len(output_list), OrderedLen(stressFile)}) |->
                    output_list[j].avg]

(***************************************************************************)
(* The cursor machine_index, carried from one interval to the next, yields *)
(* for each interval in turn the mean cpu-usage of exactly the samples     *)
(* with begin <= t < end (NaN or 0 when there are none): the loop of       *)
(* MachineProcess.__load_and_generate_output with                          *)
(* __get_rangetime_cpu_usage implements WindowedAggregation, over the      *)
(* whole file when its intervals are in order and otherwise up to the      *)
(* first interval that starts before its predecessor ended.                *)
(***************************************************************************)
UsageRefined == Usage!Spec

(***************************************************************************)
(* The break on an exhausted machine table (and the early return 0) leaves *)
(* out only intervals whose window holds no sample, and every reported     *)
(* interval is in the written table.  Past an interval out of time order *)
(* the cursor cannot retreat and nothing is promised.                      *)
(***************************************************************************)
OnlyEmptyWindowsUnreported ==
    pc = "done" =>
        /\ output_table = output_list
        /\ \A j \in Len(output_list) + 1..OrderedLen(stress_table) :
              Usage!Window(stress_table[j]) = {}

(***************************************************************************)
(* Whatever the order of the intervals, a reported average is 0 (table     *)
(* exhausted) or the mean of a run of consecutive samples all inside its   *)
(* interval: an interval out of order loses samples the cursor has passed, *)
(* but the code never averages a sample of another window into it.         *)
(***************************************************************************)
WindowsStayInside ==
    \A j \in DOMAIN output_list :
        \/ output_list[j].avg = Zero
        \/ \E lo, hi \in 1..Len(machine_table) + 1 :
              /\ lo..hi - 1 \subseteq Usage!Window(stress_table[j])
              /\ output_list[j].avg = MeanOver(CpuSamples(machine_table), lo..hi - 1)

(***************************************************************************)
(* Unlike stress-process, whose QoS read raises, machine-process always    *)
(* ends by writing its table: every loop of the scan reaches a break.      *)
(***************************************************************************)
OutputWritten == <>(pc = "done")

=============================================================================
