---------------------------- MODULE TimestampCodec ----------------------------
(***************************************************************************)
(* The timestamps of interferenceanalysis are local-time text              *)
(* "%Y-%m-%d %H:%M:%S", turned into seconds by                             *)
(* int(time.mktime(time.strptime(text, ...))).  Text is represented by     *)
(* the wall-clock second it shows, an instant by the second since the     *)
(* epoch.  The local zone sets its clocks back by FoldLen seconds at the  *)
(* instant FoldAt (the end of daylight-saving time): the wall-clock       *)
(* seconds FoldAt - FoldLen .. FoldAt - 1 are shown twice.  strptime      *)
(* leaves tm_isdst = -1, and mktime resolves a doubled wall time to one of *)
(* its two instants, the same one on every call of a build: MktimeEarlier  *)
(* says which.  FoldLen = 0 is a zone without such a change.               *)
(***************************************************************************)
EXTENDS Integers

CONSTANTS
    FoldAt,         \* the instant the clocks go back
    FoldLen,        \* by how many seconds
    MktimeEarlier   \* mktime maps a doubled wall time to its first instant

ASSUME FoldAt \in Nat /\ FoldLen \in Nat /\ MktimeEarlier \in BOOLEAN

\* The text a probe writes at instant t (time.strftime of localtime).
LocalText(t) == IF t < FoldAt THEN t ELSE t - FoldLen

\* The wall-clock seconds that two instants show.
Doubled(w) == FoldAt - FoldLen <= w /\ w < FoldAt

\* int(time.mktime(time.strptime(w, "%Y-%m-%d %H:%M:%S"))).
Mktime(w) ==
    CASE Doubled(w)   -> IF MktimeEarlier THEN w ELSE w + FoldLen
      [] w >= FoldAt  -> w + FoldLen
      [] OTHER        -> w

=============================================================================
