------------------------- MODULE MCMetricSelection -------------------------
(* Model-checking instance of MetricSelection: three metrics (model values) *)
(* and qos over three rows of 0/1 values, which gives |r| of 0, 1/2 and 1, *)
(* constant columns and ties; two metrics are shown instead of five, so    *)
(* that a valid metric can be cut off.  MCMetricSelection.cfg explores     *)
(* every mode on complete tables; MCMetricSelection_normalized.cfg lets a  *)
(* cell be empty, with two metrics to keep the 3^9 tables few.  The metric *)
(* names are interchangeable: nothing in the section depends on them but  *)
(* the order of the columns, which is enumerated in full.                  *)
EXTENDS MetricSelection, TLC

MCSymmetry == Permutations(Metrics)
=============================================================================
