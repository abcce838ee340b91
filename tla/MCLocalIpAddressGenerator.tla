---------------------- MODULE MCLocalIpAddressGenerator ----------------------
(***************************************************************************)
(* Addresses of five bits. 24..31 stand for 169.254.0.0/16, with 28 the    *)
(* address Fronius inverters use; networks of more than 8 are cut to 8.    *)
(***************************************************************************)
EXTENDS LocalIpAddressGenerator

Addresses == 0..31
LinkLocalNet == 24..31

\* An Ethernet and a WiFi interface in different networks, a network beyond the
\* limit, two interfaces in one network, the host at either end of its network,
\* a /31 network, link-local addresses that are and are not the inverter's own,
\* and no interface.
Interfaces ==
    {<<>>,
     <<[ip |-> 5, size |-> 8]>>,
     <<[ip |-> 1, size |-> 4], [ip |-> 14, size |-> 8]>>,
     <<[ip |-> 12, size |-> 16]>>,
     <<[ip |-> 10, size |-> 4], [ip |-> 9, size |-> 8]>>,
     <<[ip |-> 2, size |-> 2], [ip |-> 26, size |-> 8], [ip |-> 9, size |-> 4]>>,
     <<[ip |-> 28, size |-> 8], [ip |-> 6, size |-> 4]>>}

Lists ==
    {<<>>, <<3>>, <<28, 2>>, <<5, 13, 10>>, <<14, 3>>}

\* The only interface up is a point-to-point link with a 32 bit netmask.
PointToPoint == {<<[ip |-> 7, size |-> 1]>>}
=============================================================================
