---------------------------- MODULE MCTimerQueue ----------------------------
(* Small instances of TimerQueue for TLC.                                  *)
EXTENDS TimerQueue
CONSTANTS d, p, s, r, w1, w2
=============================================================================
