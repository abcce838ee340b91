---------------------------- MODULE AddressSweep ----------------------------
(***************************************************************************)
(* What a LocalIpAddressGenerator promises its user, InverterGateway: after*)
(* a restart it hands out the priority addresses, and then, if asked to,   *)
(* every other address of the local networks, once for each network it is  *)
(* in.                                                                     *)
(***************************************************************************)
CONSTANTS Addr, Network

VARIABLES
    lan,    \* networks with their addresses, this host's own in each excepted
    todo,   \* addresses to be handed out
    issued  \* addresses handed out since the last restart

TypeOK ==
    /\ lan \subseteq Network \X Addr
    /\ todo \in [priority : SUBSET Addr, sweep : SUBSET (Network \X Addr)]
    /\ issued \subseteq Addr

Restarted(P, all) ==
    [priority |-> P, sweep |-> IF all THEN {p \in lan : p[2] \notin P} ELSE {}]

\* Addresses are taken from t and handed out, none of the sweep as long as a
\* priority address is left. How many is up to the user.
Take(t, before) ==
    /\ todo'.priority \subseteq t.priority
    /\ todo'.sweep \subseteq t.sweep
    /\ todo'.priority # {} => todo'.sweep = t.sweep
    /\ issued' = before \cup (t.priority \ todo'.priority)
                        \cup {p[2] : p \in t.sweep \ todo'.sweep}

\* A new generator has no priority addresses.
Init == TypeOK /\ todo.priority = {} /\ issued = {}

Issue == Take(todo, issued) /\ UNCHANGED lan

\* A restart with any priority addresses: those that remain to be handed out
\* and those that are handed out at once.
Restart ==
    /\ \E taken \in SUBSET issued', all \in BOOLEAN :
          Take(Restarted(todo'.priority \cup taken, all), {})
    /\ TypeOK'
    /\ UNCHANGED lan

\* Interfaces come up and go down; a sweep that has begun is not affected.
NetworkChange == lan' \subseteq Network \X Addr /\ UNCHANGED <<todo, issued>>

Next == Issue \/ Restart \/ NetworkChange

Spec == Init /\ [][Next]_<<lan, todo, issued>>
=============================================================================
