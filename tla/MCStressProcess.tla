--------------------------- MODULE MCStressProcess ---------------------------
(* Model-checking instance of StressProcess: up to three QoS samples and    *)
(* up to three stress intervals over four seconds.  Samples may repeat a   *)
(* timestamp, intervals may touch or be empty (begin = end), a sample may   *)
(* fall on a boundary, and QoS 0 makes a zero baseline possible.           *)
EXTENDS StressProcess

MCTimes == 0..3
MCQosValues == {0, 2}
MCStressLevels == {0, 1}
=============================================================================
