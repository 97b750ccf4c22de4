# TLA+ models of the rubik interference-analysis tool

The source is `src/tools/interferenceanalysis/`. This directory holds TLA+
models of it and the TLC configurations that check them.

## 1. The system

The tool has three command-line subcommands (`__main__.py`) and a Streamlit
dashboard (`analysis.py`, plus the notebooks `pca.py` and `pca_predict.py`).
Each subcommand is a single-threaded sequential program. It reads CSV files,
scans them with one or two forward-only cursors, and writes one CSV file. No
component runs concurrently with another, and nothing is persisted between
runs. The components communicate only through files: the output of
`stress-process` is the `stress.csv` the dashboard reads.

### Inventory

| Component | Code | State | Operations |
|---|---|---|---|
| TimestampCodec | `get_qos_ts`/`get_metrix_ts` (preprocess.py:72-77), `__compare_stimestamp_gt` (183-189, 248-254) | none | `time.mktime(time.strptime(t, "%Y-%m-%d %H:%M:%S"))` of local-time text, integer comparison |
| StreamLoader | `Preprocess.load_table` (26-37); the `read_table` calls of StressProcess (128-133) and MachineProcess (206-210) | the tables | read; in `preprocess` only, `drop_duplicates(keep="first")` and `reset_index` |
| NearestNeighborAligner | `Preprocess.__match_and_filter` (63-111) and `__load_and_generate_output` (39-61) | cursors `qos_index`, `metric_index`; last timestamps read `qos_ts`, `metric_ts`; lists `qos_tss`, `metric_tss` | inner-loop skip, break, append, output |
| WindowedAggregator | `StressProcess.__get_rangetime_qos` (163-181) and its loop (141-148); `MachineProcess` (215-246) | cursor `qos_index` (`machine_index`), kept across intervals; `output_list` | skip before window, window start, take sample, window end, break on exhausted table |
| BaselineNormalizer | `StressProcess.__load_and_generate_output` (150-161) | `no_stress_qos`, the rows of `output_table` | one iteration per row |
| MachineProcess | `MachineProcess` (191-254) | cursor `machine_index`, `output_list` | the WindowedAggregator scan over `cpu-usage`, then the write |
| CLI | `__main__.py` | the parsed `Namespace` | parse the subcommand and its required options, dispatch to `args.func` |
| Dashboard: sensitivity and usage | `analysis.py` 100-110, 236-350 | the two tables, symbol lists, selections, chart sources, the ranking | read, list symbols, select, one chart per symbol, rank and classify |
| Dashboard: valid metrics | `analysis.py` 155-174, 199-222, 353-405 | the table, display mode, correlation matrix, ranking, `vaild_metrics` | choose dataset and mode, normalise or standardise, upload, correlate, rank by the last row, filter on qos, remove qos, cut to five |
| Dashboard: other sections | `analysis.py` 113-152, 224-234, 407-594, `pca.py`, `pca_predict.py` | widgets | charts, regression fitting |

### What is hard here

The code has no concurrency. Its hard behaviours are in the control flow of
the scans:

* **Stale state.** The aligner tests timestamps that were read before the
  cursors last moved. The aggregator's cursor carries over from one interval
  to the next.
* **Early exits.** Several `break`s and an early `return 0` fire when a
  cursor passes the end of its table.
* **Numeric edges.** A tolerance boundary is tested with `>`. The mean of an
  empty slice is NaN. The baseline starts at the number -1. Division by a zero
  baseline is possible.
* **Preconditions nobody checks.** The inputs are assumed sorted, and the
  intervals are assumed disjoint.

`PROJECT.json` lists every hazard at its source line, with the properties
that cover it.

### Properties that make each component correct

* **Aligner.** Every merged row pairs timestamps at most `max_diff` apart. No
  row is dropped while it still has an unmatched partner. Matched indices are
  valid rows. The scan ends.
* **Aggregator.** Each interval's average is the mean of exactly the samples
  in `[begin, end)`. Every interval is reported. Whatever the order of the
  intervals, no sample of another window is averaged in.
* **Normalizer.** Each row is compared with the latest zero-stress row at or
  before it. A row with no baseline yet gets an undefined marker.
* **Dashboard.** A chart shows only its symbol's rows. No type is ranked below one of its rows, and "high" means above 20,
  as the legend says. The metrics shown are those most correlated with qos
  in the table as read, whatever the display mode.
  The page renders to its end.

## 2. Modules

| Module | Models | Notes |
|---|---|---|
| `TimestampCodec` | local-time text and `int(mktime(strptime(...)))`, with the clocks set back at one instant (end of daylight-saving time) | operators only |
| `Cli` | `main()` of `__main__.py`: argparse, the usage exit, the AttributeError without a subcommand, dispatch | runs the chosen command as an `INSTANCE` of its module |
| `Preprocess` | the `preprocess` command: `load_table`, `__match_and_filter`, output | one action per loop step (`Skip`, `Near`, `Stop`, `Emit`) |
| `AlignedPairs` | abstract specification of the aligner: rows loaded, index pairs strictly increasing in both series, the pass ends, failure only on an empty series | from spec 4.3; `Preprocess`, as `Cli` dispatches it, refines it |
| `FloatValues` | the float values of the tool: exact rationals, NaN, ±inf, ZeroDivisionError; `MeanOver` (`np.mean`), `Degradation` | shared helper |
| `WindowedAggregation` | abstract specification: intervals reported in order, each with the mean of its half-open window (NaN or 0 when empty) | from spec 4.4 |
| `StressProcess` | the `stress-process` command: loading, the interval loop with `__get_rangetime_qos`, the degradation loop, writing | refines `WindowedAggregation` |
| `MachineProcess` | the `machine-process` command: the same scan over `cpu-usage`, then `to_csv` | refines `WindowedAggregation` up to the first interval out of time order |
| `Dashboard` | the resource-sensitivity and resource-usage sections of `analysis.py` (236-350) with `stress_sensitivity` | reads the tables the two commands write |
| `MetricSelection` | the dataset, upload and display-mode choice (155-174, 199-222) and the valid-metric selection (353-405) of `analysis.py` | Pearson correlation computed exactly from the data |
| `MCPreprocess`, `MCStressProcess`, `MCMachineProcess`, `MCDashboard`, `MCMetricSelection`, `MCCli` | TLC instances | |

### How the state and actions correspond to the code

`Preprocess` keeps the code's own variable names (`qos_index`, `metric_index`,
`qos_ts`, `metric_ts`, `qos_tss`, `metric_tss`). Cursors are 0-based, as in
Python, and `At(s, i)` reads row `i`. A file holds the wall-clock text of
its samples (`TimestampCodec!LocalText`): `load_table` deduplicates the text,
and `At` parses it with `Mktime`. Where the clocks go back, a range of wall
times is shown twice, and `mktime` resolves such a time to one of its two
instants. The constant `MktimeEarlier` says which, because the C library
decides. So a file in time order can parse to seconds that go back. The
actions:

* `Load` is lines 41-43, with `DropDuplicates` for `load_table`.
* `MatchStart` is lines 79-84. An empty table raises IndexError here.
* `Skip` is one iteration of the inner `while` (86-97), including its `break`.
* `Near` is the inner loop's condition being false.
* `Stop` and `Emit` are the outer test and the append (99-109). `Emit` does
  not re-read the timestamps, exactly as the code does not.
* `Output` is the `assert`, the `.loc` lookups (a KeyError for an index that
  is not a row) and the merged table (52-61).

`StressProcess` keeps `qos_index`, `begin_index`, `output_list`,
`output_table` and `no_stress_qos`. `k` and `n` are the row counters of the
two `for` loops. The actions:

* `NextInterval` and `EndIntervals` are the head of the interval loop,
  including `if self.qos_index >= qos_len: break`.
* `SkipBefore` is the begin loop with its `return 0`.
* `WindowStart` is line 173.
* `SkipInside` is the end loop with its `break`.
* `WindowEnd` is the return of `np.mean(...)`.
* `Normalize` is one iteration of the degradation loop (155-159).
* `WriteOutput` is `to_csv`.

`MachineProcess` has the same actions, with `machine_index` as the cursor,
except that `EndIntervals` writes the table directly, since there is no
degradation loop. Rows keep only `stress` and the average, because the `type`
and `command` columns are copied or ignored.

The stress file is assumed to hold its intervals in time order, and nothing
checks this. With `AnyIntervalOrder = TRUE`, which the `machine` run uses,
`Init` takes stress files in any order. The refinement mapping then sends the
intervals before the first out-of-order one (`OrderedLen`) to
`WindowedAggregation`: the code treats that prefix exactly as it would an
ordered file. `WindowsStayInside` states what still holds after the prefix.

The `read_table` call on the QoS file (preprocess.py:133) passes `seq=","`.
That is not a `read_table` argument, so `stress-process` as written raises
TypeError before doing anything. The constant `QosReadFixed` selects the
behaviour:

* `FALSE` is the code as written.
* `TRUE` is the keyword spelt `sep=`, which is what the spec expects.

The `stress` run uses `TRUE` so that the rest of the command can be checked.

Float division is the one place where the outcome depends on the build. With
Python floats (what `iterrows` of a mixed-type frame yields), division by a
zero baseline raises ZeroDivisionError. With numpy floats it gives inf or
NaN. `FloatValues!Degradation` returns both outcomes.

`Cli` models `main()`. `Init` takes what may stand on the command line:
one of the three subcommands, an unknown word, or nothing, with any subset of
the subcommand's required options. It also takes the input files of the
chosen command, by that module's `Init`. The other two commands keep empty
files. `Parse` is `parser.parse_args()`:

* an unknown subcommand or a missing option exits with the usage message;
* no subcommand gives a `Namespace` without `func`, and `args.func` raises
  AttributeError (`cli = "crashed"`);
* otherwise `Run` takes the steps of the chosen module's `Next`, which is
  what `preprocess_main`, `stress_process_main` and `machine_process_main`
  do.

The three modules are `INSTANCE`s with their variables renamed. Their
constants are shared where they mean the same thing, so files are small.
`preprocess` reads the sample instants through `TimestampCodec`, as in its
own run.

`Cli` also relates `preprocess` to `AlignedPairs`. The refinement mapping
takes `na` and `nb` to the row counts of the loaded tables, and `pairs` to
the pairs `<<metric_tss[k], qos_tss[k]>>` (`Preprocess!Pairs`). `phase` is
`Preprocess!Phase` (`load`, then `match` for the scan and output steps,
then `written` or `failed`) when the command line dispatches to preprocess,
and `idle` otherwise. The abstract liveness is the leads-to `Ends` rather
than a fairness condition. The mapping substitutes expressions for `na`,
`nb` and `phase`, and TLC does not evaluate `ENABLED` through such a mapping.

`Dashboard` models one run of the script through the two sections.

* `StressLoad` reads the table, lists the symbols and lets the user pick any
  subset, as `st.multiselect` does. The table is either the default file,
  read with `keep_default_na=False`, or an uploaded one, read with the
  defaults. With `keep_default_na=False`, an empty field stays text.
* `StressChart` is one iteration of the chart loop, with `Source` for the
  concatenation of the rows and the relabelled `none` rows.
* `StressRank` is the drop / `groupby().max()` / `stress_sensitivity`
  chain. On a text column it fails: comparing a `str` with 5 raises
  TypeError.
* `UsageLoad` and `UsageChart` are the same for `machine.csv`.
* `Rendered` ends the page.

The order of charts and the order of the ranking table are layout and are
left out.

`MetricSelection` takes the metrics table as data: a column layout and 0/1
cells, an empty cell being NaN when `NaNCells` is set. `Init` chooses whether
a file is uploaded and which mode the radio button holds. Its actions:

* `ApplyMode` is lines 212-222. It applies `normalize_table` or
  `standardize_table` to every column, unless a file is uploaded: the
  upload is read after the mode is applied, and it replaces the table as it
  is. Pearson's r is unchanged by a positive factor common to a column, so a
  rescaled column is kept up to that factor:
  * normalisation maps x to x - min;
  * standardisation maps x to n·x - sum.

  A column that holds a NaN becomes NaN in every cell. `np.max` and `np.mean`
  of such a column are NaN, and both `NaN != NaN` and `bool(NaN)` are true.
* `Correlate` computes `data.corr()` as r² (exact in integers), so
  |r| > 0.3 becomes 100·cov² > 9·var·var. Each pair of columns is taken
  over the rows where both have a value (`Both`), as pandas does.
* `Rank` is `abs(iloc[-1]).sort_values(ascending=False).dropna()`, with ties
  in any order.
* `Filter` applies the mask on the qos column and `remove("qos")`.
* `Show` cuts the list to five and calls `st.columns`.

The ghost variable `loaded` keeps the table as read. The properties compare
what is shown with the correlations of `loaded`.

## 3. Runs

| Run | cfg | Expect | What it shows |
|---|---|---|---|
| `cli` | `MCCli_tool.cfg` | pass | Every command line, with the stress-process read as in the code (`QosReadFixed = FALSE`: it ends in the TypeError), and preprocess files that may cross the end of daylight-saving time. `ToolEnds`: every command line ends, including the traceback of no subcommand and the `while True` of preprocess on folded files. `DroppedRowsHaveNoPartner`: on tables whose parsed seconds increase (the spec's precondition), a preprocess row passed by its cursor unmatched has no unmatched row of the other table within `max_diff`. The distance is tested by `Apart`, not by the loop's own `Far`, so that a `>=` for `>` at line 87 shows. `IdenticalInputsPairedDiagonally` (spec 8): two files with the same timestamps give exactly the pairs (i, i), because after a match the cursors advance in lockstep. `AlignmentRefined`: preprocess implements `AlignedPairs`. Each row is used at most once and in order, and only an empty table makes the command fail, never the `assert` or `.loc`, even when parsed seconds go back. |
| `preprocess_tolerance` | `MCPreprocess_tolerance.cfg` | violation | `MatchedPairsWithinTolerance` fails. The metrics file `[0, 5]` and the QoS file `[0, 11]` give the pair 5/11: after a match the timestamps are not re-read, so later pairs are appended in lockstep. |
| `stress` | `MCStressProcess.cfg` | pass | `AggregationRefined`: the code implements `WindowedAggregation`. `OnlyEmptyWindowsUnreported`: the early break drops only intervals with no sample. `DegradationAgainstLatestBaseline`: each percentage uses the latest zero-stress row, itself included. |
| `machine` | `MCMachineProcess.cfg` | pass | Over stress files in any order. `WindowsStayInside`: a reported average is 0 or the mean of consecutive samples inside the interval, so an interval out of order loses samples but never takes another window's. `UsageRefined`: up to the first interval out of order, machine-process implements `WindowedAggregation` over `cpu-usage`. `OnlyEmptyWindowsUnreported`: there, the early break drops only empty windows, and the written table is the list. `OutputWritten`: unlike stress-process, it always writes its table; every `while` of the scan advances `machine_index` toward a `break` or `return 0`. |
| `cli_stress_process` | `MCCli.cfg` | violation | `ToolFailsOnlyOnEmptyInput` fails. `stress-process -s S -q Q -o O`, with all its options, ends in the TypeError of `seq=` on any files. With the keyword spelt `sep=` (`QosReadFixed = TRUE`), the property still fails: a zero-stress interval whose window the exhausted cursor skips gets the `return 0` sentinel as baseline, and its own degradation divides by it. |
| `stress_no_baseline` | `MCStressProcess_NoDegradationBeforeBaseline.cfg` | violation | Rows before the first zero-stress row get -100·(avg+1), not an undefined marker. |
| `dashboard` | `MCDashboard.cfg` | pass | `ChartsHoldOnlyTheirRows`: every chart of both sections shows only its symbol's rows and relabelled baselines. `RankNotBelowRows`: no type is ranked below one of its rows. |
| `dashboard_nan_high` | `MCDashboard_HighMeansAboveTwenty.cfg` | violation | A type whose percentages are all NaN (empty windows) is ranked "high", a band the legend reserves for values above 20. |
| `dashboard_default_file` | `MCDashboard_PageRendered.cfg` | violation | Read from the default file, a NaN percentage makes the column text, and the ranking raises TypeError. |
| `metrics` | `MCMetricSelection.cfg` | pass | On complete tables laid out as preprocess writes them (qos last), in all three display modes: `ShownAreMostQosCorrelated` holds, so the metrics shown are the most qos-correlated ones of the table as read. `FailsOnlyWithoutCorrelatedMetric`: the section fails exactly when no metric is correlated with qos. |
| `metrics_any_order` | `MCMetricSelection_any_order.cfg` | violation | On an uploaded table whose last column is not qos, the ranking follows that column and a more qos-correlated metric is cut off. |
| `metrics_normalized` | `MCMetricSelection_normalized.cfg` | violation | In the normalization or standardization mode, a metric with one empty cell becomes NaN throughout and is dropped. In the trace, m2 = (0, 1, empty) with r = 1 against qos = (0, 1, 0) is dropped, and m1 = (0, 0, 1), with \|r\| = 0.5, is shown. In `origin` mode pandas correlates m2 over its complete rows. |

Every property of a passing run has a mutant in `PROJECT.json`: a plausible
bug in the mapped code that makes TLC find the property violated.

### Other defects met while modelling

Each of these is plain from a model state and has no run of its own.

* **Intervals after exhaustion get no row.** Once the QoS cursor reaches the
  end of its table, the loop breaks (preprocess.py:142), and the remaining
  intervals get no row. Spec 4.4 wants one row per interval, the exhausted
  ones reported empty. `OnlyEmptyWindowsUnreported` (runs `stress` and
  `machine`) shows that the dropped intervals are exactly ones with no
  sample.
* **No subcommand is a traceback.** `add_subparsers()` is not required, and
  the parser has no default `func`. So `python -m rubikanalysis` with no
  subcommand raises AttributeError at `args.func(args)` (`__main__.py:68`)
  instead of printing the usage. In `Cli` this is the state
  `cli = "crashed"`. Spec 6 asks only for a non-zero exit, which the
  traceback gives. `ToolEnds` counts the crash as an ending, so no
  property disputes it.
* **Pairing across a daylight-saving fold.** `DroppedRowsHaveNoPartner` needs
  parsed seconds that increase. Without that precondition, TLC finds the
  metrics file `[5]` and a QoS file with samples at 11 and 13, written
  `11, 8` after the clocks go back. The scan meets 11 first, advances the
  metrics cursor past 5, and drops the row, though the QoS row parsed as 8 is
  within `max_diff` of it.
* **A raw type spelt like a group name loses its rows.** A raw type `cache`
  or `network` is offered as a symbol, but its chart takes only the rows of
  `get_key(...)`'s keys (analysis.py:277-279). The type's own rows never
  appear.
* **Empty windows have two sentinels.** A window with no sample is
  reported as NaN (np.mean of an empty slice). A table already exhausted in
  the begin loop gives the number 0, which cannot be told from a measured 0
  (`return 0` at preprocess.py:166 and 172, and at 231 and 237 for
  machine-process; the NaN comes from line 181). Spec 4.4 asks for a
  defined zero, and spec 7 for zero or undefined with a count. The
  abstract specification allows either value, and the refinement checks that
  no third value appears.
* **The no-valid-metric message does not help.** When no metric is valid,
  the message at analysis.py:393 is shown and then `st.columns(0)` raises.
  A constant qos column raises earlier, at `remove("qos")`. The run
  `metrics` shows when this happens (`FailsOnlyWithoutCorrelatedMetric`).

### Bounds

* **Preprocess.** Tables of up to 3 rows over the sample instants
  {0, 5, 6, 11, 13}, with `max_diff = 5` as in the code. 0 and 5 sit
  exactly on the tolerance, and 0 and 6 one second past it. 11 is far from 0
  and 5 but close to 6. The clocks go back 5 seconds at instant 12, so 13 is
  written as 8, and the wall times 7 to 11 are doubled. `mktime` resolves
  them to the earlier instant, so the file `11, 13` parses to `11, 8`. Files
  may repeat an instant. Every file pair is checked.
* **Cli.** Every subcommand word with every subset of its options.
  `preprocess` reads files of up to 3 rows over the sample instants of
  `Preprocess`, across the same fold. The other commands read files of up to
  3 rows and 2 intervals over the seconds 0..2. The `cli_stress_process`
  violation run needs only 2 rows. That is enough for empty and non-empty
  inputs of each command. For preprocess it also covers every case of its
  own bound: the tolerance edge, repeats, and a fold.
* **StressProcess and MachineProcess.** Up to 3 samples (values {0, 2}) and 3
  intervals (stress {0, 1}; `machine` uses one level, because the command
  only copies it) over the seconds 0..3. `machine` takes the intervals in any
  order, which adds overlapping, nested and reversed intervals. This bound is enough for
  the following cases:
  * samples on window boundaries;
  * repeated timestamps;
  * empty and touching intervals;
  * exhaustion before the last interval;
  * a zero baseline;
  * rows before and after a baseline.
* **Dashboard.** A stress table of up to 3 rows and a usage table of up to 2,
  over the types `none`, `icache`, `L1 cache` (two types grouped as
  `cache`) and `cpu`. The percentages are 5 (the "no" boundary), +inf and
  NaN. `dashboard_default_file` needs one NaN row, so it uses 2 and 1 rows to
  keep its liveness check small.
* **MetricSelection.** Three metrics and qos over three rows of 0/1 values.
  This gives |r| of 0, 1/2 and 1, constant columns and ties. The code shows
  five metrics; the model shows two (`MaxShown`), so that a valid metric can
  be cut off with three metrics. Metric names are symmetric model values.
  `metrics` runs every display mode on complete tables.
  `metrics_normalized` lets a cell be empty. It uses two metrics, so that
  there are 3^9 tables: a metric with one empty cell still has two complete
  rows, enough for r = ±1.

### Fairness

Each command, and each run of the dashboard script, is one sequential
process that runs until it ends. So `Spec` assumes weak fairness of `Next`.
The multiselect is not a wait: the script renders with whatever the widget
holds. The final states (`done`, `failed`) have no successor, because the
program exits there. For that reason the cfgs say `CHECK_DEADLOCK FALSE`.
`AlignedPairs` states its liveness as the leads-to `Ends`: a started pass
ends. This is what `WF` of the detailed `Next` gives.

## 4. Not modelled, and why

* **Timestamp text.** A malformed timestamp raises ValueError, which is not
  modelled. The daylight-saving fold is modelled only for `preprocess`.
  StressProcess and MachineProcess compare the seconds of a zone without a
  fold.
* **CLI options.** Types and help texts of the options are not modelled. An
  option is either given or not.
* **Missing module.** `__init__.py` imports `.base`, which is not among the
  sources.
* **Other dashboard sections and notebooks.** The metric charts, the
  regression fitting, and `pca.py` / `pca_predict.py` are plotting and
  scikit-learn calls. They have no state machine of their own: each is
  one straight-line pass of library calls. A model would have to restate
  PCA and least squares as exact arithmetic. On tables TLC can enumerate
  (a few rows), the KNN and regression splits are degenerate, so the
  checks would show nothing about the code.
* **pandas version.** `MetricSelection` assumes pandas 1.x, where
  `corr()` skips the text timestamp column. Under pandas 2 the call raises
  instead.
* **Spearman and Kendall.** Only the default `pearson` choice of the
  correlation radio button is modelled.
* **Display values of the modes.** A normalised or standardised column is
  kept up to its positive factor, because the correlation does not depend on
  it. The charts that show the values are not modelled.

## 5. Plan

Open work, in order of importance:

1. **Zero baseline.** Add a property for a zero baseline: spec 7 wants the
   error surfaced for that row only. `cli_stress_process` with the keyword
   fixed already reaches this case.
2. **Composition.** Compose `StressProcess` with `Dashboard`, so that the
   ranking is checked on tables the command can really write.
3. **`TimestampCodec`.** Read the stress intervals of `StressProcess` through
   the codec too.
