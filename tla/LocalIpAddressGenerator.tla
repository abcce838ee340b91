----------------------- MODULE LocalIpAddressGenerator -----------------------
(***************************************************************************)
(* The address iterator of src/software/src/local_ip_address_generator.cpp *)
(* as InverterGateway drives it. IPv4 addresses are numbers; a network is  *)
(* given by the host's own address and its size, a power of two.           *)
(***************************************************************************)
EXTENDS Integers, Sequences, FiniteSetsExt, Functions

CONSTANTS
    Addr,           \* the IPv4 addresses, a set of numbers
    LimitSize,      \* size of the largest network swept (2^12 in the code)
    LinkLocal,      \* the link-local addresses, 169.254.0.0/16
    FroniusAddress, \* the one link-local address tried, 169.254.0.180
    InterfaceLists, \* what QNetworkInterface may report
    PriorityLists   \* the address lists the gateway may pass

ASSUME AddressAssumption ==
    /\ Addr \subseteq Nat /\ Addr # {} /\ IsFiniteSet(Addr)
    /\ FroniusAddress \in Addr

ASSUME LimitAssumption == LimitSize \in Nat \ {0}

ASSUME EntryAssumption == InterfaceLists \subseteq Seq([ip : Addr, size : Nat \ {0}])

\* continueScan appends an address only if the list does not contain it.
ASSUME PriorityAssumption ==
    /\ PriorityLists \subseteq Seq(Addr)
    /\ \A addresses \in PriorityLists : IsInjective(addresses)

VARIABLES
    interfaces, \* the network interfaces of this host (external)
    gen,        \* the members of the LocalIpAddressGenerator
    issued      \* history: what next() returned since the last reset

vars == <<interfaces, gen, issued>>

----------------------------------------------------------------------------
(* class Subnet                                                            *)

SubnetHasNext(sn) == sn.current <= sn.last

\* Seeded fault: the host's own address is not skipped.
AdvancedToSelf(sn, exceptions) ==
    [sn EXCEPT !.current =
        Min({c \in (@ + 1)..(Max({@, sn.last}) + 1) :
                c > sn.last \/ c \notin exceptions})]

\* The body of Subnet::next: on to the next address that is neither this
\* host's nor an exception, or past the end.
Advanced(sn, exceptions) ==
    [sn EXCEPT !.current =
        Min({c \in (@ + 1)..(Max({@, sn.last}) + 1) :
                c > sn.last \/ c \notin exceptions \cup {sn.localHost}})]

\* The constructor calls next(): the network address itself is never used.
Subnet(first, last, localHost, exceptions) ==
    Advanced([first |-> first, current |-> first, last |-> last,
              localHost |-> localHost], exceptions)

SubnetSize(sn)     == sn.last - sn.first + 1
SubnetPosition(sn) == sn.current - sn.first

\* The subnet of one interface entry. Masking with netMask and its complement
\* yields the first address and, less one, the last: the broadcast address.
SubnetOf(entry, limit, exceptions) ==
    IF entry.ip \in LinkLocal
    THEN Subnet(FroniusAddress - 1, FroniusAddress, entry.ip, exceptions)
    ELSE LET size  == Min({entry.size, limit})
             first == entry.ip - (entry.ip % size)
         IN  Subnet(first, first + size - 2, entry.ip, exceptions)

----------------------------------------------------------------------------
(* class LocalIpAddressGenerator; indices count from 0.                    *)

Exceptions(g) == Range(g.mPriorityAddresses)

Reset(g, limit) ==
    [g EXCEPT !.mPriorityIndex = 0,
              !.mSubnetIndex = 0,
              !.mSubnets = IF g.mPriorityOnly THEN <<>>
                           ELSE [i \in DOMAIN interfaces |->
                                    SubnetOf(interfaces[i], limit, Exceptions(g))]]

SetPriorityOnly(g, p) ==
    IF g.mPriorityOnly = p THEN g
    ELSE IF p THEN Reset([g EXCEPT !.mPriorityOnly = TRUE], LimitSize)
    ELSE [g EXCEPT !.mPriorityOnly = FALSE]

\* An iteration that was past the priority addresses stays past the new ones.
SetPriorityAddresses(g, addresses) ==
    LET atEnd == /\ g.mPriorityIndex > 0
                 /\ g.mPriorityIndex >= Len(g.mPriorityAddresses)
    IN  [g EXCEPT !.mPriorityAddresses = addresses,
                  !.mPriorityIndex = IF atEnd THEN Len(addresses) ELSE 0]

InPriority(g) == g.mPriorityIndex < Len(g.mPriorityAddresses)

\* The subnets that have addresses left, as 1-based positions in mSubnets.
\* Seeded fault: the current subnet is passed over.
OpenSubnetsSkipping(g) ==
    {i \in (g.mSubnetIndex + 2)..Len(g.mSubnets) : SubnetHasNext(g.mSubnets[i])}

OpenSubnets(g) ==
    {i \in (g.mSubnetIndex + 1)..Len(g.mSubnets) : SubnetHasNext(g.mSubnets[i])}

HasNext(g) == InPriority(g) \/ OpenSubnets(g) # {}

NextAddress(g) ==
    IF InPriority(g)
    THEN g.mPriorityAddresses[g.mPriorityIndex + 1]
    ELSE g.mSubnets[Min(OpenSubnets(g))].current

AfterNext(g) ==
    IF InPriority(g)
    THEN [g EXCEPT !.mPriorityIndex = @ + 1]
    ELSE LET i == Min(OpenSubnets(g))
         IN  [g EXCEPT !.mSubnetIndex = i - 1,
                       !.mSubnets[i] = Advanced(@, Exceptions(g))]

\* What the loop over the subnets adds up.
AddedUp(s) ==
    LET sum[n \in 0..Len(s)] == IF n = 0 THEN 0 ELSE sum[n - 1] + s[n]
    IN  sum[Len(s)]

Positions(g) == [i \in DOMAIN g.mSubnets |-> SubnetPosition(g.mSubnets[i])]
Sizes(g)     == [i \in DOMAIN g.mSubnets |-> SubnetSize(g.mSubnets[i])]

\* Seeded fault: the address in front counts as done.
DoneOneAhead(g) ==
    g.mPriorityIndex + 1 + IF g.mPriorityOnly THEN 0 ELSE AddedUp(Positions(g))

Done(g) ==
    g.mPriorityIndex + IF g.mPriorityOnly THEN 0 ELSE AddedUp(Positions(g))

Total(g) ==
    Len(g.mPriorityAddresses) + IF g.mPriorityOnly THEN 0 ELSE AddedUp(Sizes(g))

\* The percentage of work done while activeCount hosts are being probed.
Progress(g, activeCount) ==
    IF Total(g) = 0 THEN 0
    ELSE (100 * Max({0, Done(g) - activeCount})) \div Total(g)

----------------------------------------------------------------------------
(* The generator in use.                                                   *)

\* The constructor resets before any limit or priority address is set.
Init ==
    /\ interfaces \in InterfaceLists
    /\ gen = Reset([mPriorityOnly |-> FALSE, mPriorityAddresses |-> <<>>,
                    mPriorityIndex |-> 0, mSubnetIndex |-> 0, mSubnets |-> <<>>],
                   Cardinality(Addr))
    /\ issued = {}

\* The three calls InverterGateway::continueScan makes before it takes hosts.
Restart ==
    /\ \E addresses \in PriorityLists, only \in BOOLEAN :
          gen' = Reset(SetPriorityOnly(SetPriorityAddresses(gen, addresses), only),
                       LimitSize)
    /\ issued' = {}
    /\ UNCHANGED interfaces

NextHost ==
    /\ HasNext(gen)
    /\ issued' = issued \cup {NextAddress(gen)}
    /\ gen' = AfterNext(gen)
    /\ UNCHANGED interfaces

\* Interfaces come up and go down; only a reset notices.
InterfacesChange ==
    /\ interfaces' \in (InterfaceLists \ {interfaces})
    /\ UNCHANGED <<gen, issued>>

Next == Restart \/ NextHost \/ InterfacesChange

Spec == Init /\ [][Next]_vars

----------------------------------------------------------------------------
(* Properties                                                              *)

SubnetType == [first : Int, current : Int, last : Int, localHost : Addr]

GeneratorType ==
    [mPriorityOnly : BOOLEAN, mPriorityAddresses : Seq(Addr), mPriorityIndex : Nat,
     mSubnetIndex : Nat, mSubnets : Seq(SubnetType)]

TypeOK ==
    /\ interfaces \in InterfaceLists
    /\ gen \in GeneratorType
    /\ gen.mPriorityIndex \in 0..Len(gen.mPriorityAddresses)
    /\ gen.mSubnetIndex \in 0..Len(gen.mSubnets)
    /\ issued \subseteq Addr

\* The hosts of the network an interface entry is in, within the limit and
\* without this host, its network address and its broadcast address.
HostsOf(entry, limit) ==
    IF entry.ip \in LinkLocal THEN {FroniusAddress} \ {entry.ip}
    ELSE LET size  == Min({entry.size, limit})
             first == entry.ip - (entry.ip % size)
         IN  ((first + 1)..(first + size - 2)) \ {entry.ip}

\* Hosts have addresses, also before a limit is set.
ASSUME NetworkAssumption ==
    \A ifaces \in InterfaceLists : \A i \in DOMAIN ifaces :
        \A limit \in {LimitSize, Cardinality(Addr)} :
            HostsOf(ifaces[i], limit) \subseteq Addr

Remaining(sn) ==
    {c \in sn.current..sn.last : c \notin Exceptions(gen) \cup {sn.localHost}}

Todo ==
    [priority |-> {gen.mPriorityAddresses[i] :
                      i \in (gen.mPriorityIndex + 1)..Len(gen.mPriorityAddresses)},
     sweep    |-> UNION {{i} \X Remaining(gen.mSubnets[i]) :
                           i \in (gen.mSubnetIndex + 1)..Len(gen.mSubnets)}]

\* The iterator implements AddressSweep: behind its indices, per-subnet
\* cursors and exception list, each host of the local networks is handed out
\* once, priority addresses first and never this host itself. (A host in two of
\* the networks is handed out for each of them.)
Sweep == INSTANCE AddressSweep
         WITH Network <- Nat,
              lan     <- UNION {{i} \X HostsOf(interfaces[i], LimitSize) :
                                   i \in DOMAIN interfaces},
              todo    <- Todo
Sweeps == Sweep!Spec

\* hasNext() is exact: the gateway's loops stop neither early nor run into the
\* Q_ASSERT(false) of next() (local_ip_address_generator.cpp:63).
HasNextExact == HasNext(gen) <=> Todo.priority # {} \/ Todo.sweep # {}

\* progress() is a percentage ("Returns the percentage of work done",
\* local_ip_address_generator.h:62).
ProgressInRange == Progress(gen, 0) \in 0..100

\* The D-Bus progress reaches 100% when the last address was handed out and
\* its probe has ended, and not before, although skipped addresses count too.
ProgressComplete == Total(gen) > 0 => (Progress(gen, 0) = 100 <=> ~HasNext(gen))

=============================================================================
