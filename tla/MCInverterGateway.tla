------------------------- MODULE MCInverterGateway -------------------------
(***************************************************************************)
(* Three addresses: a1 and a2 are in the local networks, a2 in both, as    *)
(* when a host is reached by cable and by wireless; a3 can only come from  *)
(* the settings or from a UDP answer.                                      *)
(***************************************************************************)
EXTENDS InverterGateway
CONSTANTS a1, a2, a3
AllAddresses == {a1, a2, a3}
LanAddresses == {a1, a2}
Networks     == {"eth", "wlan"}
LocalNetwork == {<<"eth", a1>>, <<"eth", a2>>, <<"wlan", a2>>}
============================================================================
