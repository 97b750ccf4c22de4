-------------------------- MODULE MCMachineProcess --------------------------
(* Model-checking instance of MachineProcess: up to three machine samples  *)
(* and up to three stress intervals over four seconds, in any order, so   *)
(* that samples sit on window boundaries, repeat a timestamp, run out     *)
(* before the last interval, and an interval starts before its            *)
(* predecessor ended.  The stress column is only copied by the command, so *)
(* one level is enough.                                                    *)
EXTENDS MachineProcess

MCTimes == 0..3
MCCpuValues == {0, 2}
MCStressLevels == {1}
=============================================================================
