----------------------------- MODULE AlignedPairs -----------------------------
(***************************************************************************)
(* What the NearestNeighborAligner promises (spec 4.3), independent of how *)
(* it scans: two series of na and nb rows are loaded, index pairs (i, j)   *)
(* are emitted with both indices strictly increasing, so no row is used    *)
(* twice and there are at most min(na, nb) pairs, and the pass ends by     *)
(* writing the table; a series with no row may end it in failure instead.  *)
(* An empty result is a valid end.  "idle" is a run of the tool that never *)
(* starts the aligner.                                                     *)
(***************************************************************************)
EXTENDS Integers, Sequences

VARIABLES
    na, nb,     \* the rows of series A (metrics) and B (QoS)
    pairs,      \* the emitted pairs <<i, j>>, 0-based, in emission order
    phase       \* "idle", "load", "match", "written" or "failed"

vars == <<na, nb, pairs, phase>>

\* The index of series k in the last pair, -1 before the first.
Last(k) == IF pairs = <<>> THEN -1 ELSE pairs[Len(pairs)][k]

Init ==
    /\ phase \in {"idle", "load"}
    /\ na = 0 /\ nb = 0
    /\ pairs = <<>>

Load ==
    /\ phase = "load"
    /\ na' >= 0 /\ nb' >= 0
    /\ phase' = "match"
    /\ UNCHANGED pairs

Match ==
    /\ phase = "match"
    /\ \E i \in Last(1) + 1 .. na - 1, j \in Last(2) + 1 .. nb - 1 :
          pairs' = Append(pairs, <<i, j>>)
    /\ UNCHANGED <<na, nb, phase>>

Finish ==
    /\ phase = "match"
    /\ phase' \in {"written"} \cup (IF na = 0 \/ nb = 0 THEN {"failed"} ELSE {})
    /\ UNCHANGED <<na, nb, pairs>>

Next == Load \/ Match \/ Finish

\* A started pass does not stop before it ends.
Ends == (phase = "load") ~> (phase \in {"written", "failed"})

Spec == Init /\ [][Next]_vars /\ Ends

=============================================================================
