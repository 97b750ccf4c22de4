--------------------------------- MODULE Cli ---------------------------------
(***************************************************************************)
(* The command line of interferenceanalysis (__main__.py): argparse parses *)
(* a subcommand and its options, set_defaults(func=...) names the          *)
(* function that runs it, and main() calls args.func(args), which builds   *)
(* the command object and runs its execute().  The three commands are the  *)
(* modules Preprocess, StressProcess and MachineProcess, instantiated on   *)
(* variables of their own; the one the command line names runs, the       *)
(* others stay in an idle state (no file given).                            *)
(***************************************************************************)
EXTENDS Integers, Sequences, FiniteSets

CONSTANTS
    SampleInstants, \* the instants of the samples preprocess reads
    FoldAt,         \* the local clock change (TimestampCodec)
    FoldLen,
    MktimeEarlier,
    Times,          \* the seconds a timestamp of the other commands denotes
    Values,         \* the values of a QoS or cpu-usage sample
    StressLevels,   \* the stress intensities of an interval
    MaxRows,        \* the most rows of a sample file
    MaxIntervals,   \* the most intervals of a stress file
    QosReadFixed    \* whether the QoS read of stress-process says sep=

VARIABLES
    cmd,            \* the subcommand on the command line
    given,          \* the options given with it
    cli,            \* where main() is
    pp_metricsFile, pp_qosFile, pp_metrics, pp_qos, pp_qos_index,
    pp_metric_index, pp_qos_ts, pp_metric_ts, pp_qos_tss, pp_metric_tss,
    pp_output, pp_pc,
    sp_stressFile, sp_qosFile, sp_stress_table, sp_qos_table, sp_qos_index,
    sp_k, sp_begin_index, sp_output_list, sp_output_table, sp_n,
    sp_no_stress_qos, sp_pc,
    mp_stressFile, mp_machineFile, mp_stress_table, mp_machine_table,
    mp_machine_index, mp_k, mp_begin_index, mp_output_list, mp_output_table,
    mp_pc

ppVars == <<pp_metricsFile, pp_qosFile, pp_metrics, pp_qos, pp_qos_index,
            pp_metric_index, pp_qos_ts, pp_metric_ts, pp_qos_tss,
            pp_metric_tss, pp_output, pp_pc>>
spVars == <<sp_stressFile, sp_qosFile, sp_stress_table, sp_qos_table,
            sp_qos_index, sp_k, sp_begin_index, sp_output_list,
            sp_output_table, sp_n, sp_no_stress_qos, sp_pc>>
mpVars == <<mp_stressFile, mp_machineFile, mp_stress_table, mp_machine_table,
            mp_machine_index, mp_k, mp_begin_index, mp_output_list,
            mp_output_table, mp_pc>>
vars == <<cmd, given, cli, ppVars, spVars, mpVars>>

PP == INSTANCE Preprocess
    WITH Times <- SampleInstants, MaxDiff <- 5,
         metricsFile <- pp_metricsFile, qosFile <- pp_qosFile,
         metrics <- pp_metrics, qos <- pp_qos, qos_index <- pp_qos_index,
         metric_index <- pp_metric_index, qos_ts <- pp_qos_ts,
         metric_ts <- pp_metric_ts, qos_tss <- pp_qos_tss,
         metric_tss <- pp_metric_tss, output <- pp_output, pc <- pp_pc

SP == INSTANCE StressProcess
    WITH QosValues <- Values, stressFile <- sp_stressFile,
         qosFile <- sp_qosFile, stress_table <- sp_stress_table,
         qos_table <- sp_qos_table, qos_index <- sp_qos_index, k <- sp_k,
         begin_index <- sp_begin_index, output_list <- sp_output_list,
         output_table <- sp_output_table, n <- sp_n,
         no_stress_qos <- sp_no_stress_qos, pc <- sp_pc

MP == INSTANCE MachineProcess
    WITH CpuValues <- Values, AnyIntervalOrder <- FALSE,
         stressFile <- mp_stressFile, machineFile <- mp_machineFile,
         stress_table <- mp_stress_table, machine_table <- mp_machine_table,
         machine_index <- mp_machine_index, k <- mp_k,
         begin_index <- mp_begin_index, output_list <- mp_output_list,
         output_table <- mp_output_table, pc <- mp_pc

\* The subcommands add_subparsers knows, each with its required options.
Required ==
    [c \in {"preprocess", "stress-process", "machine-process"} |->
        CASE c = "preprocess"     -> {"metrics", "qos", "output"}
          [] c = "stress-process" -> {"stress", "qos", "output"}
          [] OTHER                -> {"stress", "machine", "output"}]

\* What may stand on the command line: a known subcommand, an unknown
\* word, or nothing.
Commands == DOMAIN Required \cup {"unknown", "none"}

Options(c) == IF c \in DOMAIN Required THEN Required[c] ELSE {}

\* A command that is not run: its files are not given.
PPIdle == pp_metricsFile = <<>> /\ pp_qosFile = <<>> /\ PP!Init
SPIdle == sp_stressFile = <<>> /\ sp_qosFile = <<>> /\ SP!Init
MPIdle == mp_stressFile = <<>> /\ mp_machineFile = <<>> /\ MP!Init

\* The files on disk are whatever the named command would read.
Init ==
    /\ cmd \in Commands
    /\ given \in SUBSET Options(cmd)
    /\ IF cmd = "preprocess" THEN PP!Init ELSE PPIdle
    /\ IF cmd = "stress-process" THEN SP!Init ELSE SPIdle
    /\ IF cmd = "machine-process" THEN MP!Init ELSE MPIdle
    /\ cli = "parse"

\* parser.parse_args() exits with status 2 on an unknown subcommand or a
\* missing required option; with no subcommand it returns a Namespace
\* without func, and args.func raises AttributeError.
Parse ==
    /\ cli = "parse"
    /\ cli' = CASE cmd = "none"                -> "crashed"
                [] cmd = "unknown"             -> "usage"
                [] given # Options(cmd)        -> "usage"
                [] OTHER                       -> "run"
    /\ UNCHANGED <<cmd, given>> /\ UNCHANGED ppVars /\ UNCHANGED spVars
    /\ UNCHANGED mpVars

\* args.func(args): preprocess_main, stress_process_main or
\* machine_process_main builds the command and runs execute(), one step of
\* the command at a time.
Run ==
    /\ cli = "run"
    /\ \/ cmd = "preprocess" /\ PP!Next /\ UNCHANGED spVars /\ UNCHANGED mpVars
       \/ cmd = "stress-process" /\ SP!Next /\ UNCHANGED ppVars /\ UNCHANGED mpVars
       \/ cmd = "machine-process" /\ MP!Next /\ UNCHANGED ppVars /\ UNCHANGED spVars
    /\ UNCHANGED <<cmd, given, cli>>

Next == Parse \/ Run

\* One process runs main() to its end: weak fairness on its steps.
Spec == Init /\ [][Next]_vars /\ WF_vars(Next)

-----------------------------------------------------------------------------

TypeOK ==
    /\ cmd \in Commands
    /\ given \subseteq Options(cmd)
    /\ cli \in {"parse", "usage", "crashed", "run"}
    /\ PP!TypeOK /\ SP!TypeOK /\ MP!TypeOK

\* The command line names command c with all its options.
Dispatched(c) == c \in DOMAIN Required /\ cmd = c /\ given = Options(c)

\* The program has ended: argparse exited, main() raised, or the command
\* it ran has finished.
Ended ==
    \/ cli \in {"usage", "crashed"}
    \/ Dispatched("preprocess") /\ pp_pc \in {"done", "failed"}
    \/ Dispatched("stress-process") /\ sp_pc \in {"done", "failed"}
    \/ Dispatched("machine-process") /\ mp_pc = "done"

(***************************************************************************)
(* Every command line ends: argparse exits, main() raises, or the command  *)
(* it dispatched to runs to its end (spec 6: a non-zero exit on a parse   *)
(* failure, which the AttributeError of a missing subcommand also gives).  *)
(***************************************************************************)
ToolEnds == <>Ended

(***************************************************************************)
(* The preprocess command, as main() runs it, implements AlignedPairs: its *)
(* pairs use every metrics and QoS row at most once, in increasing order,  *)
(* it fails only on an empty table, and once started it ends.  A command  *)
(* line that does not dispatch to preprocess leaves the aligner idle.      *)
(***************************************************************************)
Aligner == INSTANCE AlignedPairs
    WITH na <- Len(pp_metrics), nb <- Len(pp_qos), pairs <- PP!Pairs,
         phase <- IF Dispatched("preprocess") THEN PP!Phase ELSE "idle"

AlignmentRefined == Aligner!Spec

(***************************************************************************)
(* preprocess.py, as main() runs it, drops a row only when no unmatched   *)
(* row of the other table lies within max_diff of it (on tables whose     *)
(* parsed seconds increase): Preprocess!DroppedRowsHaveNoPartner.          *)
(***************************************************************************)
DroppedRowsHaveNoPartner == PP!DroppedRowsHaveNoPartner

(***************************************************************************)
(* preprocess, as main() runs it, pairs two files with the same timestamp *)
(* sequence row by row (spec 8): Preprocess!IdenticalInputsPairedDiagonally.*)
(***************************************************************************)
IdenticalInputsPairedDiagonally == PP!IdenticalInputsPairedDiagonally

(***************************************************************************)
(* A command named with all its options ends with a traceback only when   *)
(* one of its input files is empty (the IndexError of preprocess on an    *)
(* empty table); stress-process and machine-process read two files and   *)
(* write their table whatever rows the files hold.                        *)
(***************************************************************************)
ToolFailsOnlyOnEmptyInput ==
    /\ pp_pc = "failed" => Len(pp_metricsFile) = 0 \/ Len(pp_qosFile) = 0
    /\ sp_pc # "failed"

=============================================================================
