--------------------------- MODULE MCSHMChannel ---------------------------
(* SHMChannel for TLC.  Lengths are scaled down: a page of 4 bytes holds   *)
(* messages shorter than 3, so lengths 2, 3 and 6 fit, just do not fit,    *)
(* and need a map two or four times as large.                              *)
EXTENDS SHMChannel
CONSTANTS w1, w2, r1, r2
Lengths == {4, 8, 16}
\* Nothing is promised once the lock was freed under somebody alive.
Followed == ~robbed
=============================================================================
