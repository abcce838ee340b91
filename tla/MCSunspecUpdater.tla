-------------------------- MODULE MCSunspecUpdater --------------------------
(* Model checking of SunspecUpdater: limits for TLC.                        *)
EXTENDS SunspecUpdater

TwoLimits == {0, 50}
=============================================================================
