--------------------------- MODULE MetricSelection ---------------------------
(***************************************************************************)
(* The correlation section of the dashboard (analysis.py, lines 353-405): *)
(* the Pearson correlation matrix of the metrics table, the columns        *)
(* ranked by the absolute correlation in the last row of the matrix       *)
(* (iloc[-1]), those whose absolute correlation with the qos column       *)
(* exceeds 0.3 kept, qos itself removed, and the first five shown, one    *)
(* st.columns cell each.  The table is what preprocess writes (the metric *)
(* columns, then qos) or an uploaded file with its columns in any order.  *)
(*                                                                         *)
(* A correlation r is kept as r^2 = cov^2 / (var_x * var_y), exact in     *)
(* integers, so |r| > 0.3 is 100 * cov^2 > 9 * var_x * var_y.  A constant *)
(* column has NaN correlations.  The timestamp column is text, which      *)
(* DataFrame.corr leaves out (pandas 1.x).                                 *)
(***************************************************************************)
EXTENDS Integers, Sequences, SequencesExt, FloatValues

CONSTANTS
    Metrics,        \* the metric columns of the table
    Levels,         \* the values a cell may hold
    NRows,          \* the rows of the table
    MaxShown,       \* the 5 of vaild_metrics[:5]
    AnyColumnOrder, \* whether an uploaded table may have its columns in any order
    Modes,          \* the choices of the mode radio button the model explores
    NaNCells        \* whether a cell may be empty (read as NaN)

ASSUME "qos" \notin Metrics /\ Levels \subseteq Nat /\ NRows \in Nat \ {0, 1}
ASSUME Modes \subseteq {"origin", "normalization", "standardization"}

Cols == Metrics \cup {"qos"}

\* A cell: an integer, or NaN when the field is empty.
Cells == {Num(l, 1) : l \in Levels} \cup (IF NaNCells THEN {NaN} ELSE {})

VARIABLES
    columns,        \* the numeric columns, in table order
    loaded,         \* column -> its cells, as read from the file
    uploaded,       \* whether a metrics file was uploaded
    mode,           \* the mode radio button
    data,           \* column -> its cells, after the mode is applied
    metrics_correlation,  \* <<column, column>> -> r^2, or NaN
    sorted,         \* sorted_metrics_correlation, as column names
    vaild_metrics,
    pc

vars == <<columns, loaded, uploaded, mode, data, metrics_correlation, sorted,
          vaild_metrics, pc>>

\* The orders the columns of the table can have: a dataset preprocess wrote
\* (qos appended last), or an uploaded table with its columns in any order.
Layouts(up) ==
    IF up /\ AnyColumnOrder THEN SetToSeqs(Cols)
    ELSE {p \o <<"qos">> : p \in SetToSeqs(Metrics)}

\* The rows where both columns have a value: DataFrame.corr takes each pair
\* of columns over these rows only.
Both(a, b) == {i \in 1..NRows : a[i].kind = "num" /\ b[i].kind = "num"}

Total(a, R) == MapThenSumSet(LAMBDA i : a[i].n, R)
Dot(a, b, R) == MapThenSumSet(LAMBDA i : a[i].n * b[i].n, R)

\* Mutant of Cov: the sum of products not scaled by the number of rows.
CovUnscaled(a, b, R) == Dot(a, b, R) - Total(a, R) * Total(b, R)

\* |R|^2 times the covariance of two columns over the rows R.
Cov(a, b, R) == Cardinality(R) * Dot(a, b, R) - Total(a, R) * Total(b, R)

\* The Pearson correlation of two columns, squared, over the rows where
\* both have a value: NaN for a column constant on those rows (or with
\* fewer than two of them).
Pearson(a, b) ==
    LET R == Both(a, b) IN
    IF Cov(a, a, R) = 0 \/ Cov(b, b, R) = 0 THEN NaN
    ELSE Num(Cov(a, b, R) * Cov(a, b, R), Cov(a, a, R) * Cov(b, b, R))

(***************************************************************************)
(* normalize_table and standardize_table, per numeric column.  Pearson's  *)
(* r is unchanged by a positive factor common to a column, so a column is *)
(* kept up to that factor: normalisation maps x to x - min (the factor    *)
(* 100 / (max - min) > 0 dropped) and standardisation x to                 *)
(* n * x - sum(x) (the division by n * std > 0 dropped).  np.max, np.min,  *)
(* np.mean and np.std of a column holding a NaN are NaN; NaN != NaN and    *)
(* bool(NaN) hold, so every cell of such a column becomes NaN.             *)
(***************************************************************************)
HasNaN(col) == \E i \in 1..NRows : col[i].kind = "nan"
AllNaN == [i \in 1..NRows |-> NaN]
Low(col) == Min({col[i].n : i \in 1..NRows})
High(col) == Max({col[i].n : i \in 1..NRows})

Normalize(col) ==
    IF HasNaN(col) THEN AllNaN
    ELSE IF High(col) # Low(col)
         THEN [i \in 1..NRows |-> Num(col[i].n - Low(col), 1)]
         ELSE col

Standardize(col) ==
    IF HasNaN(col) THEN AllNaN
    ELSE IF Cov(col, col, 1..NRows) # 0
         THEN [i \in 1..NRows |-> Num(NRows * col[i].n - Total(col, 1..NRows), 1)]
         ELSE col

Corr(c1, c2) == metrics_correlation[c1, c2]

\* |r| of x at least that of y (both numbers).
AtLeast(x, y) == x.n * y.d >= y.n * x.d

\* abs(r) > 0.3; False for NaN.
Above(x) == x.kind = "num" /\ 100 * x.n > 9 * x.d

\* The last row of the matrix: the correlations with the last column.
LastRow(c) == Corr(columns[Len(columns)], c)

\* Mutant of Ranked: sort_values without ascending=False.
RankedAscending(s) ==
    \A i \in 1..Len(s) - 1 : AtLeast(LastRow(s[i + 1]), LastRow(s[i]))

\* sort_values(ascending=False): non-increasing |r|; ties in any order.
Ranked(s) ==
    \A i \in 1..Len(s) - 1 : AtLeast(LastRow(s[i]), LastRow(s[i + 1]))

\* Mutant of NoColumns: off by one.
NoColumnsOffByOne(v) == Len(v) <= 1

\* st.columns(len(vaild_metrics)) raises for 0 columns.
NoColumns(v) == Len(v) = 0

\* The analysed table is the chosen dataset or, when a file is uploaded, the
\* uploaded one; the radio buttons may hold any choice.
Init ==
    /\ uploaded \in BOOLEAN
    /\ columns \in Layouts(uploaded)
    /\ loaded \in [Cols -> [1..NRows -> Cells]]
    /\ mode \in Modes
    /\ data = loaded
    /\ metrics_correlation = [p \in Cols \X Cols |-> NaN]
    /\ sorted = <<>> /\ vaild_metrics = <<>>
    /\ pc = "mode"

\* The mode is applied to the dataset read from the default files; an
\* uploaded file is read after it and replaces that table as it is.
ApplyMode ==
    /\ pc = "mode"
    /\ data' = CASE uploaded \/ mode = "origin" -> data
                  [] mode = "normalization"   -> [c \in Cols |-> Normalize(data[c])]
                  [] mode = "standardization" -> [c \in Cols |-> Standardize(data[c])]
    /\ pc' = "corr"
    /\ UNCHANGED <<columns, loaded, uploaded, mode, metrics_correlation, sorted,
                   vaild_metrics>>

\* data.corr(method="pearson"), the default of the radio button.
Correlate ==
    /\ pc = "corr"
    /\ metrics_correlation' = [p \in Cols \X Cols |-> Pearson(data[p[1]], data[p[2]])]
    /\ pc' = "rank"
    /\ UNCHANGED <<columns, loaded, uploaded, mode, data, sorted, vaild_metrics>>

\* abs(metrics_correlation.iloc[-1]).sort_values(ascending=False)
\* .dropna(): the columns with a numeric |r| with the last column.
Rank ==
    /\ pc = "rank"
    /\ \E s \in SetToSeqs({c \in ToSet(columns) : LastRow(c).kind = "num"}) :
          /\ Ranked(s)
          /\ sorted' = s
    /\ pc' = "filter"
    /\ UNCHANGED <<columns, loaded, uploaded, mode, data, metrics_correlation,
                   vaild_metrics>>

\* The columns of the ranking whose |r| with qos exceeds 0.3, then
\* remove("qos"), which raises ValueError when qos is not among them.
Filter ==
    /\ pc = "filter"
    /\ LET kept == SelectSeq(sorted, LAMBDA c : Above(Corr(c, "qos"))) IN
       IF Contains(kept, "qos")
         THEN /\ vaild_metrics' = RemoveFirst(kept, "qos")
              /\ pc' = "show"
         ELSE /\ pc' = "failed"
              /\ UNCHANGED vaild_metrics
    /\ UNCHANGED <<columns, loaded, uploaded, mode, data, metrics_correlation,
                   sorted>>

\* The first five are kept and get a cell each; with none left the message
\* is shown and st.columns(0) raises.
Show ==
    /\ pc = "show"
    /\ vaild_metrics' = SubSeq(vaild_metrics, 1, Min({MaxShown, Len(vaild_metrics)}))
    /\ pc' = IF NoColumns(vaild_metrics) THEN "failed" ELSE "done"
    /\ UNCHANGED <<columns, loaded, uploaded, mode, data, metrics_correlation,
                   sorted>>

Next == ApplyMode \/ Correlate \/ Rank \/ Filter \/ Show

\* The script runs to its end once started: weak fairness on its steps.
Spec == Init /\ [][Next]_vars /\ WF_vars(Next)

-----------------------------------------------------------------------------

TypeOK ==
    /\ columns \in SetToSeqs(Cols)
    /\ loaded \in [Cols -> [1..NRows -> Cells]]
    /\ uploaded \in BOOLEAN /\ mode \in Modes
    /\ \A c \in Cols, i \in 1..NRows : data[c][i].kind \in {"num", "nan"}
    /\ sorted \in Seq(Cols) /\ vaild_metrics \in Seq(Cols)
    /\ \A p \in Cols \X Cols :
          LET r2 == metrics_correlation[p] IN
          r2 = NaN \/ (r2.kind = "num" /\ 0 <= r2.n /\ r2.n <= r2.d)
    /\ pc \in {"mode", "corr", "rank", "filter", "show", "done", "failed"}

\* The correlation of two columns of the table as it was read.
LoadedCorr(c1, c2) == Pearson(loaded[c1], loaded[c2])

(***************************************************************************)
(* The metrics shown are the ones most correlated with qos in the table   *)
(* as read: no metric whose |r| with qos exceeds 0.3 is left out while a  *)
(* shown one has a smaller |r| with qos.  The ranking is by the last row  *)
(* of the matrix, the filter by the qos column, and both are computed     *)
(* after the display mode has rescaled the columns.                       *)
(***************************************************************************)
ShownAreMostQosCorrelated ==
    pc = "done" =>
        \A i \in DOMAIN vaild_metrics, d \in Metrics :
            Above(LoadedCorr(d, "qos")) /\ ~Contains(vaild_metrics, d) =>
                AtLeast(LoadedCorr(vaild_metrics[i], "qos"), LoadedCorr(d, "qos"))

(***************************************************************************)
(* The section fails only when no metric is correlated with qos beyond    *)
(* 0.3 in the table as read (which includes a constant qos column):        *)
(* remove("qos") and st.columns never raise while there is a metric to    *)
(* show.                                                                   *)
(***************************************************************************)
FailsOnlyWithoutCorrelatedMetric ==
    pc = "failed" => ~\E c \in Metrics : Above(LoadedCorr(c, "qos"))

=============================================================================
