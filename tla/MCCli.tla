-------------------------------- MODULE MCCli --------------------------------
(* Model-checking instance of Cli: every subcommand, unknown and missing    *)
(* ones included, with every subset of its options.  preprocess reads the  *)
(* files of MCPreprocess (instants around max_diff = 5, the clocks going   *)
(* back five seconds at 12); stress-process and machine-process read files *)
(* over three seconds, so that each command meets empty and non-empty      *)
(* inputs.                                                                  *)
EXTENDS Cli

MCSampleInstants == {0, 5, 6, 11, 13}
MCTimes == 0..2
MCValues == {0, 2}
MCStressLevels == {0, 1}
=============================================================================
