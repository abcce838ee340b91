------------------------- MODULE MCInverterMediator -------------------------
(***************************************************************************)
(* Two inverters behind two hosts: either may be met at either host (DHCP),*)
(* the first also under another unit or by another protocol. The first has *)
(* three phases, the second one phase and sometimes storage.               *)
(***************************************************************************)
EXTENDS InverterMediator

Identities == {"A", "B"}

Device(u, host, unit, mode, phases, storage) ==
    [uniqueId |-> u, hostName |-> host, port |-> IF mode = "SolarApi" THEN 80 ELSE 502,
     networkId |-> unit, retrievalMode |-> mode, phaseCount |-> phases,
     storage |-> storage]

Devices ==
    {Device("A", "h1", 1, "SunSpec", 3, FALSE),
     Device("A", "h2", 1, "SunSpec", 3, FALSE),
     Device("A", "h1", 2, "SunSpec", 3, FALSE),
     Device("A", "h1", 1, "SolarApi", 3, FALSE),
     Device("B", "h1", 1, "SunSpec", 1, FALSE),
     Device("B", "h2", 1, "SunSpec", 1, FALSE),
     Device("B", "h2", 1, "SunSpec", 1, TRUE)}
=============================================================================
