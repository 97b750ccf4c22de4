------------------------------ MODULE Preprocess ------------------------------
(***************************************************************************)
(* The "preprocess" command of interferenceanalysis (preprocess.py, class  *)
(* Preprocess).  It loads the metrics table and the QoS table, drops the   *)
(* rows whose timestamp repeats an earlier one, pairs rows of the two      *)
(* tables whose timestamps are at most max_diff seconds apart with a       *)
(* two-cursor scan (__match_and_filter), and writes the metrics rows of    *)
(* the pairs with the QoS value appended.                                  *)
(*                                                                         *)
(* A column holds local-time text (TimestampCodec): the probe writes the  *)
(* wall clock, load_table compares the text, and the scan compares the     *)
(* seconds mktime gives back.  Across the end of daylight-saving time the *)
(* parsed seconds of a file in time order need not increase.  Cursors are  *)
(* 0-based, as in the code, and At(s, i) reads the row with index i.       *)
(***************************************************************************)
EXTENDS Integers, Sequences, SequencesExt, TimestampCodec

CONSTANTS
    Times,      \* the instants a probe may take a sample at
    MaxRows,    \* the most rows an input file has
    MaxDiff     \* max_diff: the tolerance, in seconds, of a match

ASSUME Times \subseteq Nat /\ MaxRows \in Nat /\ MaxDiff \in Nat

VARIABLES
    metricsFile, qosFile,     \* first column of each input file, in file order
    metrics, qos,             \* that column after load_table
    qos_index, metric_index,  \* the two cursors
    qos_ts, metric_ts,        \* the timestamps last read through the cursors
    qos_tss, metric_tss,      \* the matched index lists being built
    output,                   \* merged table: <<metrics ts, qos ts>> per row
    pc                        \* where the command is

vars == <<metricsFile, qosFile, metrics, qos, qos_index, metric_index,
          qos_ts, metric_ts, qos_tss, metric_tss, output, pc>>

\* The files a probe writes: the local time of samples taken in time order,
\* an instant possibly repeated.
InputFiles ==
    {[j \in DOMAIN s |-> LocalText(s[j])] : s \in {s \in SeqOf(Times, MaxRows) : IsSorted(s, <=)}}

\* The wall-clock texts and the seconds they parse to.
Walls == {LocalText(t) : t \in Times}
Seconds == {Mktime(w) : w \in Walls}

\* get_qos_ts / get_metrix_ts: the parsed timestamp of the row at index i.
At(s, i) == Mktime(s[i + 1])

\* load_table: drop_duplicates(keep="first") on the first column, then
\* reset_index, which renumbers the kept rows 0, 1, ...
DropDuplicates(s) ==
    FoldLeft(LAMBDA acc, t : IF Contains(acc, t) THEN acc ELSE Append(acc, t),
             <<>>, s)

\* The condition of the inner while loop.
Far(t1, t2) == IF t1 >= t2 THEN t1 - t2 > MaxDiff ELSE t2 - t1 > MaxDiff

OutOfRange(qi, mi) == qi >= Len(qos) \/ mi >= Len(metrics)

Init ==
    /\ metricsFile \in InputFiles
    /\ qosFile \in InputFiles
    /\ metrics = <<>> /\ qos = <<>>
    /\ qos_index = 0 /\ metric_index = 0
    /\ qos_ts = 0 /\ metric_ts = 0
    /\ qos_tss = <<>> /\ metric_tss = <<>>
    /\ output = <<>>
    /\ pc = "load"

\* __load_and_generate_output: both tables are loaded before matching.
Load ==
    /\ pc = "load"
    /\ metrics' = DropDuplicates(metricsFile)
    /\ qos' = DropDuplicates(qosFile)
    /\ pc' = "start"
    /\ UNCHANGED <<metricsFile, qosFile, qos_index, metric_index, qos_ts,
                   metric_ts, qos_tss, metric_tss, output>>

\* Both cursors at 0 and the first timestamps read; an empty table makes
\* the read raise IndexError.
MatchStart ==
    /\ pc = "start"
    /\ IF Len(qos) = 0 \/ Len(metrics) = 0
         THEN /\ pc' = "failed"
              /\ UNCHANGED <<qos_ts, metric_ts>>
         ELSE /\ qos_ts' = At(qos, 0)
              /\ metric_ts' = At(metrics, 0)
              /\ pc' = "scan"
    /\ UNCHANGED <<metricsFile, qosFile, metrics, qos, qos_index,
                   metric_index, qos_tss, metric_tss, output>>

\* Mutants of CursorsAfterSkip: the cursor at the later timestamp advances;
\* the metrics cursor is not advanced.
CursorsAfterSkipLater ==
    IF qos_ts > metric_ts THEN <<qos_index + 1, metric_index>>
                          ELSE <<qos_index, metric_index + 1>>

CursorsAfterSkipNoMetric ==
    IF qos_ts < metric_ts THEN <<qos_index + 1, metric_index>>
                          ELSE <<qos_index, metric_index>>

\* The cursor at the earlier timestamp advances; on a tie the metrics one.
CursorsAfterSkip ==
    IF qos_ts < metric_ts THEN <<qos_index + 1, metric_index>>
                          ELSE <<qos_index, metric_index + 1>>

\* One iteration of the inner loop: advance a cursor, then break when a
\* cursor has left its table, else read both timestamps again.
Skip ==
    /\ pc = "scan"
    /\ Far(qos_ts, metric_ts)
    /\ LET qi == CursorsAfterSkip[1]
           mi == CursorsAfterSkip[2]
       IN /\ qos_index' = qi
          /\ metric_index' = mi
          /\ IF OutOfRange(qi, mi)
               THEN /\ pc' = "check"
                    /\ UNCHANGED <<qos_ts, metric_ts>>
               ELSE /\ qos_ts' = At(qos, qi)
                    /\ metric_ts' = At(metrics, mi)
                    /\ pc' = "scan"
    /\ UNCHANGED <<metricsFile, qosFile, metrics, qos, qos_tss, metric_tss,
                   output>>

\* The inner loop ends because the last timestamps read are close.
Near ==
    /\ pc = "scan"
    /\ ~Far(qos_ts, metric_ts)
    /\ pc' = "check"
    /\ UNCHANGED <<metricsFile, qosFile, metrics, qos, qos_index,
                   metric_index, qos_ts, metric_ts, qos_tss, metric_tss,
                   output>>

\* A cursor is past its table: leave the outer loop.
Stop ==
    /\ pc = "check"
    /\ OutOfRange(qos_index, metric_index)
    /\ pc' = "output"
    /\ UNCHANGED <<metricsFile, qosFile, metrics, qos, qos_index,
                   metric_index, qos_ts, metric_ts, qos_tss, metric_tss,
                   output>>

\* Mutant of Emit: the bound test is off by one (> for >=).
EmitPastEnd ==
    /\ pc = "check"
    /\ ~(qos_index > Len(qos) \/ metric_index > Len(metrics))
    /\ qos_tss' = Append(qos_tss, qos_index)
    /\ metric_tss' = Append(metric_tss, metric_index)
    /\ qos_index' = qos_index + 1
    /\ metric_index' = metric_index + 1
    /\ pc' = "scan"
    /\ UNCHANGED <<metricsFile, qosFile, metrics, qos, qos_ts, metric_ts,
                   output>>

\* Mutant of Emit: the metrics cursor is not advanced after a match.
EmitKeepsMetricCursor ==
    /\ pc = "check"
    /\ ~OutOfRange(qos_index, metric_index)
    /\ qos_tss' = Append(qos_tss, qos_index)
    /\ metric_tss' = Append(metric_tss, metric_index)
    /\ qos_index' = qos_index + 1
    /\ metric_index' = metric_index
    /\ pc' = "scan"
    /\ UNCHANGED <<metricsFile, qosFile, metrics, qos, qos_ts, metric_ts,
                   output>>

\* Append the pair and advance both cursors.  The timestamps are not read
\* again: the inner loop of the next round tests the ones just matched.
Emit ==
    /\ pc = "check"
    /\ ~OutOfRange(qos_index, metric_index)
    /\ qos_tss' = Append(qos_tss, qos_index)
    /\ metric_tss' = Append(metric_tss, metric_index)
    /\ qos_index' = qos_index + 1
    /\ metric_index' = metric_index + 1
    /\ pc' = "scan"
    /\ UNCHANGED <<metricsFile, qosFile, metrics, qos, qos_ts, metric_ts,
                   output>>

\* Mutant of Output: the index lists are written instead of the rows.
OutputIndexLists ==
    /\ pc = "output"
    /\ output' = [k \in DOMAIN metric_tss |-> <<metric_tss[k], qos_tss[k]>>]
    /\ pc' = "done"
    /\ UNCHANGED <<metricsFile, qosFile, metrics, qos, qos_index,
                   metric_index, qos_ts, metric_ts, qos_tss, metric_tss>>

\* The assert on the two lengths, metrics.loc / qos.loc on the index lists
\* (KeyError for an index that is not a row), and the merged table.
Output ==
    /\ pc = "output"
    /\ IF /\ Len(qos_tss) = Len(metric_tss)
          /\ \A k \in DOMAIN qos_tss : qos_tss[k] < Len(qos)
          /\ \A k \in DOMAIN metric_tss : metric_tss[k] < Len(metrics)
         THEN /\ output' = [k \in DOMAIN metric_tss |->
                              <<At(metrics, metric_tss[k]), At(qos, qos_tss[k])>>]
              /\ pc' = "done"
         ELSE /\ pc' = "failed"
              /\ UNCHANGED output
    /\ UNCHANGED <<metricsFile, qosFile, metrics, qos, qos_index,
                   metric_index, qos_ts, metric_ts, qos_tss, metric_tss>>

Next == Load \/ MatchStart \/ Skip \/ Near \/ Stop \/ Emit \/ Output

\* One process runs the command to its end: weak fairness on its steps.
Spec == Init /\ [][Next]_vars /\ WF_vars(Next)

\* The refinement mapping to AlignedPairs: the matched index lists read as
\* pairs <<metrics row, QoS row>>, and the stage of the command.
Pairs == [k \in DOMAIN qos_tss |-> <<metric_tss[k], qos_tss[k]>>]

Phase == CASE pc = "load"   -> "load"
           [] pc = "done"   -> "written"
           [] pc = "failed" -> "failed"
           [] OTHER         -> "match"

-----------------------------------------------------------------------------

TypeOK ==
    /\ metricsFile \in Seq(Walls) /\ qosFile \in Seq(Walls)
    /\ metrics \in Seq(Walls) /\ qos \in Seq(Walls)
    /\ qos_index \in 0..MaxRows + 1 /\ metric_index \in 0..MaxRows + 1
    /\ qos_ts \in Seconds \cup {0} /\ metric_ts \in Seconds \cup {0}
    /\ qos_tss \in Seq(0..MaxRows) /\ metric_tss \in Seq(0..MaxRows)
    /\ output \in Seq(Seconds \X Seconds)
    /\ pc \in {"load", "start", "scan", "check", "output", "done", "failed"}

\* Rows of a table behind its cursor that were not matched, and the rows
\* of a table that are not (yet) matched.
Dropped(table, index, tss) == {i \in 0..Len(table) - 1 : i < index /\ ~Contains(tss, i)}
Unmatched(table, tss) == {j \in 0..Len(table) - 1 : ~Contains(tss, j)}

(***************************************************************************)
(* The scan drops a row (passes it by its cursor without matching it)      *)
(* only when no row of the other table that is still unmatched lies within *)
(* max_diff of it: the advance of the cursor at the earlier timestamp in   *)
(* the inner loop of __match_and_filter never throws away a row that could *)
(* still be paired.  The scan relies on parsed timestamps that increase   *)
(* (spec 4.3: A and B sorted ascending); a table that crosses the end of  *)
(* daylight-saving time is outside this promise.                          *)
(***************************************************************************)
\* Two parsed timestamps more than max_diff seconds apart, stated apart from
\* the loop condition Far so that a slip in that condition shows.
Apart(t1, t2) == t1 - t2 > MaxDiff \/ t2 - t1 > MaxDiff

Increasing(table) == IsSorted([j \in DOMAIN table |-> Mktime(table[j])], <)

DroppedRowsHaveNoPartner ==
    Increasing(qos) /\ Increasing(metrics) =>
    /\ \A i \in Dropped(qos, qos_index, qos_tss), j \in Unmatched(metrics, metric_tss) :
          Apart(At(qos, i), At(metrics, j))
    /\ \A j \in Dropped(metrics, metric_index, metric_tss), i \in Unmatched(qos, qos_tss) :
          Apart(At(qos, i), At(metrics, j))

(***************************************************************************)
(* Spec 8: when both files hold the same timestamp sequence, the command   *)
(* writes exactly min(|A|, |B|) pairs (i, i).  The code reaches this by    *)
(* its lockstep Emit: after a match the next round tests the timestamps   *)
(* just matched, so the pairs go down the diagonal, across a daylight-    *)
(* saving fold too.                                                        *)
(***************************************************************************)
IdenticalInputsPairedDiagonally ==
    metricsFile = qosFile /\ metricsFile # <<>> /\ pc \in {"done", "failed"} =>
    /\ pc = "done"
    /\ Pairs = [k \in 1..Len(metrics) |-> <<k - 1, k - 1>>]

(***************************************************************************)
(* Every row of the merged table joins a metrics row and a QoS row whose   *)
(* timestamps are at most max_diff apart (the comment at max_diff and the  *)
(* module docstring: rows are "merged according to time stamp proximity"). *)
(***************************************************************************)
MatchedPairsWithinTolerance ==
    \A k \in DOMAIN output : ~Apart(output[k][1], output[k][2])

=============================================================================
