----------------------------- MODULE MCPreprocess -----------------------------
(* Model-checking instance of Preprocess: tables of up to three rows over   *)
(* sample instants chosen around max_diff = 5 (the value hard-coded in      *)
(* __match_and_filter): 0 and 5 are exactly max_diff apart, 0 and 6 one     *)
(* second more, 11 is far from 0 and 5 but close to 6.  The clocks go back  *)
(* five seconds at instant 12, so a sample at 13 is written as the wall     *)
(* time 8, which it shares with instant 8; the instant 11 is written as 11, *)
(* a wall time shown twice.  mktime resolves a doubled wall time to the     *)
(* earlier instant, so the file 11, 13 parses to 11, 8.                     *)
EXTENDS Preprocess

MCTimes == {0, 5, 6, 11, 13}
MCMaxRows == 3
MCMaxDiff == 5
=============================================================================
