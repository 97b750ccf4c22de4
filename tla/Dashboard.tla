------------------------------ MODULE Dashboard ------------------------------
(***************************************************************************)
(* The resource-sensitivity and resource-usage sections of the Streamlit   *)
(* dashboard (analysis.py, lines 235-350).  One run of the script, top to  *)
(* bottom: it reads the table stress-process writes, lists the stress      *)
(* symbols (types mapped through symbol_transform, "none" left out), draws *)
(* one chart per selected symbol from the rows of that symbol plus the     *)
(* no-stress rows relabelled, ranks the stressed types by their largest    *)
(* degradation-percent and classifies them (stress_sensitivity); then the  *)
(* same listing and charts for the table machine-process writes.           *)
(*                                                                         *)
(* A row keeps its type and one value (degradation-percent, or            *)
(* avg-cpu-usage); stress and avg-qos only travel with the row.  The      *)
(* order of the charts and of the ranking table is layout and is left out. *)
(***************************************************************************)
EXTENDS Integers, Sequences, SequencesExt, FloatValues

CONSTANTS
    Types,          \* the values the type column may hold, "none" included
    Percents,       \* the degradation-percent values a row may hold
    CpuValues,      \* the avg-cpu-usage values a row may hold
    MaxRows,        \* the most rows the stress table has
    MaxUsageRows    \* the most rows the usage table has

VARIABLES
    stressFile, usageFile,      \* the two CSV files, as stress-process and
                                \* machine-process wrote them
    stress, usage,              \* the tables read from them
    stress_numeric,             \* whether degradation-percent was read as numbers
    stress_symbols, usage_symbols,
    stress_selected, usage_selected,  \* what the multiselect returns
    stress_charts, usage_charts,      \* symbol -> rows of its chart
    stress_degrade,             \* type -> [max, sensitivity], the ranking
    pc

vars == <<stressFile, usageFile, stress, usage, stress_numeric, stress_symbols,
          usage_symbols, stress_selected, usage_selected, stress_charts,
          usage_charts, stress_degrade, pc>>

\* symbol_transform, in its dict order.
TransformOrder == <<"icache", "L1 cache", "L2 cache", "L3 cache", "network in", "network out">>
SymbolTransform ==
    [t \in ToSet(TransformOrder) |-> IF t \in {"network in", "network out"}
                                     THEN "network" ELSE "cache"]

Transform(t) == IF t \in DOMAIN SymbolTransform THEN SymbolTransform[t] ELSE t

\* get_key(symbol_transform, symbol): the types mapped to the symbol.
Keys(sym) == SelectSeq(TransformOrder, LAMBDA t : SymbolTransform[t] = sym)

\* One iteration of the loop over type.unique(): map, skip "none", append
\* if not yet listed.
ListSymbol(acc, t) ==
    IF Transform(t) = "none" \/ Contains(acc, Transform(t)) THEN acc
    ELSE Append(acc, Transform(t))

\* type.unique() in order of appearance, then the loop.
Symbols(table) ==
    FoldLeft(ListSymbol, <<>>,
             FoldLeft(LAMBDA acc, r : IF Contains(acc, r.type) THEN acc
                                      ELSE Append(acc, r.type), <<>>, table))

\* Mutant of Options: the raw types are offered instead of the symbols.
OptionsRawTypes(table) == {table[i].type : i \in DOMAIN table}

\* The options of st.multiselect: the listed symbols.
Options(table) == ToSet(Symbols(table))

RowsOfType(table, Ts) == SelectSeq(table, LAMBDA r : r.type \in Ts)

\* Mutant of Relabel: the no-stress rows are concatenated unchanged.
RelabelMissing(rows, key) == rows

\* nstress.replace("none", key): the no-stress rows shown as rows of key.
Relabel(rows, key) == [i \in DOMAIN rows |-> [rows[i] EXCEPT !.type = key]]

\* The data of the chart of one symbol: the rows of its types, then the
\* no-stress rows once per type.
Source(table, sym) ==
    LET nrows == RowsOfType(table, {"none"}) IN
    IF sym \in Range(SymbolTransform)
      THEN FoldLeft(LAMBDA acc, key : acc \o Relabel(nrows, key),
                    RowsOfType(table, ToSet(Keys(sym))), Keys(sym))
      ELSE RowsOfType(table, {sym}) \o Relabel(nrows, sym)

\* x <= c for a float read from the CSV and an integer c (False for NaN).
LessEq(x, c) ==
    CASE x.kind = "num" -> IF x.d > 0 THEN x.n <= c * x.d ELSE x.n >= c * x.d
      [] x.kind = "inf" -> x.n < 0
      [] OTHER -> FALSE

\* x < y for two floats that are not NaN.
FloatLess(x, y) ==
    CASE x.kind = "inf" -> x.n < 0 /\ ~(y.kind = "inf" /\ y.n < 0)
      [] y.kind = "inf" -> y.n > 0
      [] OTHER -> LET a == x.n * y.d  b == y.n * x.d IN
                  IF x.d * y.d > 0 THEN a < b ELSE a > b

\* Mutant of GroupMax: the first value of the group (.first()).
GroupMaxFirst(table, t) ==
    LET i == Min({j \in DOMAIN table : table[j].type = t}) IN table[i].val

\* groupby('type').max(): the largest value of the group, NaN skipped; a
\* group of NaN only has the maximum NaN.
GroupMax(table, t) ==
    LET V == {table[j].val : j \in {i \in DOMAIN table : table[i].type = t}}
        F == {v \in V : v.kind # "nan"}
    IN IF F = {} THEN NaN ELSE CHOOSE m \in F : \A v \in F : ~FloatLess(m, v)

\* stress_sensitivity.
Sensitivity(x) ==
    CASE LessEq(x, 5) -> "no"
      [] LessEq(x, 10) -> "low"
      [] LessEq(x, 20) -> "medium"
      [] OTHER -> "high"

Init ==
    /\ stressFile \in SeqOf([type : Types, val : Percents], MaxRows)
    /\ usageFile \in SeqOf([type : Types, val : CpuValues], MaxUsageRows)
    /\ stress = <<>> /\ usage = <<>> /\ stress_numeric = TRUE
    /\ stress_symbols = <<>> /\ usage_symbols = <<>>
    /\ stress_selected = {} /\ usage_selected = {}
    /\ stress_charts = <<>> /\ usage_charts = <<>>
    /\ stress_degrade = <<>>
    /\ pc = "stress_load"

(***************************************************************************)
(* The stress table is read from the default file with                    *)
(* keep_default_na=False, or from an uploaded file with the defaults.  An *)
(* empty field (how to_csv writes NaN) then stays the text "", and a       *)
(* column holding one is read as text; the symbols are listed and the     *)
(* user picks any subset of them (by default all).                        *)
(***************************************************************************)
StressLoad ==
    /\ pc = "stress_load"
    /\ \E uploaded \in BOOLEAN :
          stress_numeric' = (uploaded \/ \A i \in DOMAIN stressFile : stressFile[i].val.kind # "nan")
    /\ stress' = stressFile
    /\ stress_symbols' = Symbols(stressFile)
    /\ \E sel \in SUBSET Options(stressFile) : stress_selected' = sel
    /\ pc' = "stress_charts"
    /\ UNCHANGED <<stressFile, usageFile, usage, usage_symbols, usage_selected,
                   stress_charts, usage_charts, stress_degrade>>

\* One iteration of the loop over the selected symbols.
StressChart ==
    /\ pc = "stress_charts"
    /\ \E sym \in stress_selected \ DOMAIN stress_charts :
          stress_charts' = stress_charts @@ (sym :> Source(stress, sym))
    /\ UNCHANGED <<stressFile, usageFile, stress, usage, stress_numeric,
                   stress_symbols, usage_symbols, stress_selected,
                   usage_selected, usage_charts, stress_degrade, pc>>

(***************************************************************************)
(* The ranking: the "none" rows dropped, the maximum per type, and        *)
(* stress_sensitivity applied to it.  On a column read as text the maximum *)
(* is a string and "<=" between a string and 5 raises TypeError, which    *)
(* stops the script.                                                       *)
(***************************************************************************)
StressRank ==
    /\ pc = "stress_charts"
    /\ DOMAIN stress_charts = stress_selected
    /\ IF stress_numeric
         THEN /\ stress_degrade' =
                   [t \in {stress[i].type : i \in DOMAIN stress} \ {"none"} |->
                      [max |-> GroupMax(stress, t),
                       sensitivity |-> Sensitivity(GroupMax(stress, t))]]
              /\ pc' = "usage_load"
         ELSE /\ pc' = "failed"
              /\ UNCHANGED stress_degrade
    /\ UNCHANGED <<stressFile, usageFile, stress, usage, stress_numeric,
                   stress_symbols, usage_symbols, stress_selected,
                   usage_selected, stress_charts, usage_charts>>

\* The usage table is read, its symbols listed and a subset selected.
UsageLoad ==
    /\ pc = "usage_load"
    /\ usage' = usageFile
    /\ usage_symbols' = Symbols(usageFile)
    /\ \E sel \in SUBSET Options(usageFile) : usage_selected' = sel
    /\ pc' = "usage_charts"
    /\ UNCHANGED <<stressFile, usageFile, stress, stress_numeric, stress_symbols,
                   stress_selected, stress_charts, usage_charts, stress_degrade>>

UsageChart ==
    /\ pc = "usage_charts"
    /\ \E sym \in usage_selected \ DOMAIN usage_charts :
          usage_charts' = usage_charts @@ (sym :> Source(usage, sym))
    /\ UNCHANGED <<stressFile, usageFile, stress, usage, stress_numeric,
                   stress_symbols, usage_symbols, stress_selected,
                   usage_selected, stress_charts, stress_degrade, pc>>

\* The last usage chart is drawn: the page is complete.
Rendered ==
    /\ pc = "usage_charts"
    /\ DOMAIN usage_charts = usage_selected
    /\ pc' = "done"
    /\ UNCHANGED <<stressFile, usageFile, stress, usage, stress_numeric,
                   stress_symbols, usage_symbols, stress_selected,
                   usage_selected, stress_charts, usage_charts, stress_degrade>>

Next ==
    \/ StressLoad \/ StressChart \/ StressRank
    \/ UsageLoad \/ UsageChart \/ Rendered

\* The script runs to its end once started: weak fairness on its steps.
Spec == Init /\ [][Next]_vars /\ WF_vars(Next)

-----------------------------------------------------------------------------

Levels == <<"no", "low", "medium", "high">>
Level(name) == CHOOSE i \in 1..4 : Levels[i] = name

TypeOK ==
    /\ stress \in Seq([type : Types, val : Percents])
    /\ usage \in Seq([type : Types, val : CpuValues])
    /\ stress_numeric \in BOOLEAN
    /\ stress_symbols \in Seq(STRING) /\ usage_symbols \in Seq(STRING)
    /\ stress_selected \subseteq ToSet(stress_symbols)
    /\ usage_selected \subseteq ToSet(usage_symbols)
    /\ \A s \in DOMAIN stress_charts : stress_charts[s] \in Seq([type : STRING, val : Percents])
    /\ \A s \in DOMAIN usage_charts : usage_charts[s] \in Seq([type : STRING, val : CpuValues])
    /\ \A t \in DOMAIN stress_degrade :
          stress_degrade[t].sensitivity \in ToSet(Levels)
    /\ pc \in {"stress_load", "stress_charts", "usage_load", "usage_charts",
               "done", "failed"}

\* The rows a chart may show for sym: a row of the table whose type maps to
\* sym, or a no-stress row shown as a row of such a type.
FromTable(table, sym, r) ==
    /\ Transform(r.type) = sym
    /\ \/ Contains(table, r)
       \/ Contains(table, [r EXCEPT !.type = "none"])

(***************************************************************************)
(* Every chart of both sections shows only rows of its own symbol: rows    *)
(* of the table whose type symbol_transform maps to it, and the no-stress  *)
(* rows relabelled by replace("none", key), never a row still labelled    *)
(* "none" or a row of another symbol.                                      *)
(***************************************************************************)
ChartsHoldOnlyTheirRows ==
    /\ \A s \in DOMAIN stress_charts :
          \A i \in DOMAIN stress_charts[s] : FromTable(stress, s, stress_charts[s][i])
    /\ \A s \in DOMAIN usage_charts :
          \A i \in DOMAIN usage_charts[s] : FromTable(usage, s, usage_charts[s][i])

(***************************************************************************)
(* No stressed type is ranked less sensitive than any of its own rows:    *)
(* the classification of the maximum per type is at least that of every  *)
(* numeric degradation-percent of the type.                               *)
(***************************************************************************)
RankNotBelowRows ==
    \A t \in DOMAIN stress_degrade, i \in DOMAIN stress :
        stress[i].type = t /\ stress[i].val.kind # "nan" =>
            Level(Sensitivity(stress[i].val)) <= Level(stress_degrade[t].sensitivity)

(***************************************************************************)
(* A type is ranked "high" only when its largest degradation-percent lies *)
(* in (20, ...), the band the legend under the table (st.info) gives to   *)
(* "high".                                                                 *)
(***************************************************************************)
HighMeansAboveTwenty ==
    \A t \in DOMAIN stress_degrade :
        stress_degrade[t].sensitivity = "high" =>
            stress_degrade[t].max.kind # "nan" /\ ~LessEq(stress_degrade[t].max, 20)

(***************************************************************************)
(* The page is rendered to its end: ranking and usage charts are shown.   *)
(***************************************************************************)
PageRendered == <>(pc = "done")

=============================================================================
