----------------------------- MODULE MCPresign -----------------------------
(***************************************************************************)
(* Durations have five bits and a second two ticks, so that skews of one   *)
(* and two seconds fit, eight seconds are the smallest negative Duration (and stay *)
(* so when negated) and twelve are negative.                               *)
(* The clock runs long enough for a signature of one second to expire.     *)
(***************************************************************************)
EXTENDS Presign, TLC

MCSpelling == {"POST", "post"}
MCMethod == {"POST"}
MCUpper == [m \in MCSpelling |-> "POST"]
MCContent == {"", "x"}
Alike == Permutations(URI)
MCStamp == {4, 20, 26}
=============================================================================
