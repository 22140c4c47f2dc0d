---------------------------- MODULE MCTimerWheel ----------------------------
(***************************************************************************)
(* Small instances of TimerWheel for TLC.  Timers are interchangeable.       *)
(***************************************************************************)
EXTENDS TimerWheel, TLC

ASSUME DelaysFit == Fits

TimerSymmetry == Permutations(Timer)
=============================================================================
