----------------------------- MODULE MCHostScan -----------------------------
(* Model sizes for HostScan. *)
EXTENDS HostScan

EmptyAndLong == {0, 2}
=============================================================================
