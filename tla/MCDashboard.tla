---------------------------- MODULE MCDashboard ----------------------------
(* Model-checking instance of Dashboard: a stress table of up to three     *)
(* rows and a usage table of up to two.  The types include a no-stress     *)
(* row, two types symbol_transform groups as "cache", and one it leaves    *)
(* alone; the percentages sit on the "no" band boundary, at infinity (band *)
(* "high") and at NaN.                                                     *)
EXTENDS Dashboard

MCTypes == {"none", "icache", "L1 cache", "cpu"}
MCPercents == {Num(5, 1), Inf(1), NaN}
MCCpuValues == {Num(50, 1)}
=============================================================================
