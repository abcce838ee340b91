---------------------------- MODULE MCSMAUpdater ----------------------------
(* Model checking of SMAUpdater: limits for TLC.                            *)
EXTENDS SMAUpdater

NegativeAndTooHigh == {-1, 2}
=============================================================================
