---------------------------- MODULE MC_WaitUntil ----------------------------
(* The wait with timeouts -1, 0, 3 and 6 ticks, a 1-tick sleep and probe     *)
(* calls of up to 2 ticks: a round may start just before the timeout and  *)
(* end after it.                                                          *)
EXTENDS WaitUntil
CONSTANTS false

MC_Timeouts == {-1, 0, 3, 6}
=============================================================================
