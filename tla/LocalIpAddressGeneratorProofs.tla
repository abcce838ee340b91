------------------- MODULE LocalIpAddressGeneratorProofs -------------------
(***************************************************************************)
(* Theorems about LocalIpAddressGenerator: hasNext is exact, and the       *)
(* iterator implements AddressSweep, whatever the addresses, the networks  *)
(* and the lists of the gateway are; and the progress is complete when it  *)
(* says so, in networks that have a host address.                          *)
(***************************************************************************)
EXTENDS LocalIpAddressGenerator, WellFoundedInduction, FiniteSetTheorems, TLAPS

\* What next() leaves out of a subnet when P are the priority addresses.
Excluded(sn, P) == P \cup {sn.localHost}

\* The addresses of a subnet that next() may come to.
Hosts(sn) == ((sn.first + 1)..sn.last) \ {sn.localHost}

\* The cursor is past the network address and, unless it is past the end, at an
\* address to be handed out.
SubnetOK(sn, P) ==
    /\ sn \in SubnetType
    /\ Hosts(sn) \subseteq Addr
    /\ sn.current > sn.first
    /\ SubnetHasNext(sn) => sn.current \notin Excluded(sn, P)

GeneratorOK(g) ==
    /\ g \in GeneratorType
    /\ g.mPriorityIndex <= Len(g.mPriorityAddresses)
    /\ g.mSubnetIndex <= Len(g.mSubnets)
    /\ IsInjective(g.mPriorityAddresses)
    /\ \A i \in 1..Len(g.mSubnets) : SubnetOK(g.mSubnets[i], Exceptions(g))

\* The inductive invariant.
IInv == TypeOK /\ GeneratorOK(gen)

----------------------------------------------------------------------------
(* The smallest element of a set of integers.                              *)

\* A set of natural numbers that is not empty has a smallest element.
LEMMA SmallestNat ==
    ASSUME NEW S, S \subseteq Nat, S # {}
    PROVE  \E x \in S : \A y \in S : x <= y
<1> DEFINE R == {ss \in Nat \X Nat : ss[1] < ss[2]}
<1>1. IsWellFoundedOn(R, Nat)
  BY NatLessThanWellFounded DEF OpToRel
<1>2. \A x, y \in Nat : <<y, x>> \in R <=> y < x
  OBVIOUS
<1> HIDE DEF R
<1>3. PICK x \in S : \A y \in S : ~(<<y, x>> \in R)
  BY <1>1, WFMin
<1>4. ASSUME NEW y \in S PROVE x <= y
  <2>1. x \in Nat /\ y \in Nat /\ ~(<<y, x>> \in R)
    BY <1>3
  <2>2. ~(y < x)
    BY <1>2, <2>1
  <2> QED BY <2>1, <2>2
<1> QED BY <1>4

\* A set of integers bounded below has a smallest element, its Min.
LEMMA MinSound ==
    ASSUME NEW S, NEW a \in Int, S \subseteq Int, S # {}, \A x \in S : a <= x
    PROVE  Min(S) \in S /\ \A y \in S : Min(S) <= y
<1> DEFINE T == {x - a : x \in S}
<1>1. T \subseteq Nat /\ T # {}
  <2>1. \A x \in S : x - a \in Nat
    OBVIOUS
  <2> QED BY <2>1
<1>2. PICK t \in T : \A y \in T : t <= y
  BY <1>1, SmallestNat
<1>3. PICK x \in S : t = x - a
  OBVIOUS
<1>4. \A y \in S : y - a \in T
  OBVIOUS
<1> HIDE DEF T
<1>5. \A y \in S : x <= y
  <2> TAKE y \in S
  <2>1. x - a <= y - a
    BY <1>2, <1>3, <1>4
  <2> QED BY <2>1
<1>6. \E z \in S : \A y \in S : z <= y
  BY <1>5
<1> QED BY <1>6 DEF Min

\* Min and Max of two numbers.
LEMMA PairBounds ==
    ASSUME NEW a \in Int, NEW b \in Int
    PROVE  /\ Min({a, b}) = IF a <= b THEN a ELSE b
           /\ Max({a, b}) = IF a >= b THEN a ELSE b
  BY DEF Min, Max

\* Addresses are numbers.
LEMMA AddrNat == \A a \in Addr \cup {FroniusAddress} : a \in Int
  BY AddressAssumption

----------------------------------------------------------------------------
(* Subnets.                                                                *)

\* The body of Subnet::next stops at the first address past the cursor that is
\* to be handed out, or past the end.
LEMMA AdvancedSound ==
    ASSUME NEW sn \in SubnetType, NEW P
    PROVE  \E n \in Int :
              /\ Advanced(sn, P) = [sn EXCEPT !.current = n]
              /\ n > sn.current
              /\ sn.current <= sn.last => n <= sn.last + 1
              /\ n <= sn.last => n \notin Excluded(sn, P)
              /\ \A c \in (sn.current + 1)..sn.last : c < n => c \in Excluded(sn, P)
<1> DEFINE k == sn.current
           m == Max({k, sn.last})
           S == {c \in (k + 1)..(m + 1) : c > sn.last \/ c \notin Excluded(sn, P)}
           n == Min(S)
<1>1. k \in Int /\ sn.last \in Int
  BY DEF SubnetType
<1>2. m \in Int /\ m >= k /\ m >= sn.last
  <2>1. m = IF k >= sn.last THEN k ELSE sn.last
    BY <1>1, PairBounds
  <2> HIDE DEF m
  <2> QED BY <1>1, <2>1
<1>3. Advanced(sn, P) = [sn EXCEPT !.current = n]
  BY DEF Advanced, Excluded
<1> HIDE DEF m
<1>4. S \subseteq Int /\ m + 1 \in S /\ \A x \in S : k + 1 <= x
  BY <1>1, <1>2
<1>5. n \in S /\ \A y \in S : n <= y
  <2> HIDE DEF S
  <2>1. k + 1 \in Int /\ S # {}
    BY <1>1, <1>4
  <2> QED BY <1>4, <2>1, MinSound
<1>6. n \in Int /\ n > k /\ (n <= sn.last => n \notin Excluded(sn, P))
  BY <1>1, <1>2, <1>5
<1>8. k <= sn.last => n <= sn.last + 1
  <2>1. m = IF k >= sn.last THEN k ELSE sn.last
    BY <1>1, PairBounds DEF m
  <2>2. n <= m + 1
    BY <1>1, <1>2, <1>5
  <2> HIDE DEF n
  <2> QED BY <1>1, <1>6, <2>1, <2>2
<1>7. ASSUME NEW c \in (k + 1)..sn.last, c < n
      PROVE  c \in Excluded(sn, P)
  <2>1. c \notin S
    BY <1>1, <1>5, <1>6, <1>7
  <2>2. c \in (k + 1)..(m + 1)
    BY <1>1, <1>2
  <2> QED BY <2>1, <2>2
<1> QED BY <1>3, <1>6, <1>7, <1>8

\* What a subnet has left to be handed out, when P are the priority addresses.
Left(sn, P) == {c \in sn.current..sn.last : c \notin Excluded(sn, P)}

\* Subnet::next hands out one host of those that are left, and no other.
LEMMA SubnetNextSound ==
    ASSUME NEW sn, NEW P, SubnetOK(sn, P), SubnetHasNext(sn)
    PROVE  /\ SubnetOK(Advanced(sn, P), P)
           /\ sn.current \in Left(sn, P)
           /\ sn.current \in Addr
           /\ Left(Advanced(sn, P), P) = Left(sn, P) \ {sn.current}
<1> DEFINE k == sn.current
<1>1. /\ sn \in SubnetType
      /\ sn.first \in Int /\ k \in Int /\ sn.last \in Int
      /\ Hosts(sn) \subseteq Addr
      /\ k > sn.first /\ k <= sn.last
      /\ k \notin Excluded(sn, P)
  BY DEF SubnetOK, SubnetHasNext, SubnetType
<1>2. PICK n \in Int :
        /\ Advanced(sn, P) = [sn EXCEPT !.current = n]
        /\ n > k
        /\ n <= sn.last => n \notin Excluded(sn, P)
        /\ \A c \in (k + 1)..sn.last : c < n => c \in Excluded(sn, P)
  BY <1>1, AdvancedSound
<1> DEFINE d == [sn EXCEPT !.current = n]
<1>3. /\ d \in SubnetType
      /\ d.current = n
      /\ d.first = sn.first /\ d.last = sn.last /\ d.localHost = sn.localHost
  BY <1>1 DEF SubnetType
<1> HIDE DEF d
<1>4. Hosts(d) = Hosts(sn) /\ Excluded(d, P) = Excluded(sn, P)
  BY <1>3 DEF Hosts, Excluded
<1>5. SubnetOK(d, P)
  BY <1>1, <1>2, <1>3, <1>4 DEF SubnetOK, SubnetHasNext
<1>6. Left(d, P) = Left(sn, P) \ {k}
  <2>1. ASSUME NEW c \in Left(d, P) PROVE c \in Left(sn, P) \ {k}
    BY <1>1, <1>2, <1>3, <1>4, <2>1 DEF Left
  <2>2. ASSUME NEW c \in Left(sn, P), c # k PROVE c \in Left(d, P)
    <3>1. c \in (k + 1)..sn.last /\ c \notin Excluded(sn, P)
      BY <1>1, <2>2 DEF Left
    <3>2. c >= n
      BY <1>1, <1>2, <3>1
    <3> QED BY <1>1, <1>2, <1>3, <1>4, <3>1, <3>2 DEF Left
  <2> QED BY <2>1, <2>2
<1>7. k \in Left(sn, P)
  BY <1>1 DEF Left
<1>8. k \in Addr
  BY <1>1 DEF Hosts, Excluded
<1> QED BY <1>2, <1>5, <1>6, <1>7, <1>8 DEF d

\* A subnet has a next address exactly if something is left of it.
LEMMA HasNextIffLeft ==
    ASSUME NEW sn, NEW P, SubnetOK(sn, P)
    PROVE  SubnetHasNext(sn) <=> Left(sn, P) # {}
<1>1. sn.current \in Int /\ sn.last \in Int
  BY DEF SubnetOK, SubnetType
<1>2. CASE SubnetHasNext(sn)
  BY <1>2, SubnetNextSound
<1>3. CASE ~SubnetHasNext(sn)
  BY <1>1, <1>3 DEF SubnetHasNext, Left
<1> QED BY <1>2, <1>3

\* A new subnet has all of its hosts left, but for the priority addresses.
LEMMA NewSubnetSound ==
    ASSUME NEW first \in Int, NEW last \in Int, NEW localHost \in Addr, NEW P,
           ((first + 1)..last) \ {localHost} \subseteq Addr
    PROVE  /\ SubnetOK(Subnet(first, last, localHost, P), P)
           /\ Left(Subnet(first, last, localHost, P), P) =
                 (((first + 1)..last) \ {localHost}) \ P
<1> DEFINE sn == [first |-> first, current |-> first, last |-> last,
                  localHost |-> localHost]
<1>1. /\ sn \in SubnetType
      /\ sn.first = first /\ sn.current = first /\ sn.last = last
      /\ sn.localHost = localHost
  BY DEF SubnetType
<1>2. Subnet(first, last, localHost, P) = Advanced(sn, P)
  BY DEF Subnet
<1> HIDE DEF sn
<1>3. PICK n \in Int :
        /\ Advanced(sn, P) = [sn EXCEPT !.current = n]
        /\ n > first
        /\ n <= last => n \notin Excluded(sn, P)
        /\ \A c \in (first + 1)..last : c < n => c \in Excluded(sn, P)
  BY <1>1, AdvancedSound
<1> DEFINE d == [sn EXCEPT !.current = n]
<1>4. /\ d \in SubnetType
      /\ d.current = n
      /\ d.first = first /\ d.last = last /\ d.localHost = localHost
  BY <1>1 DEF SubnetType
<1> HIDE DEF d
<1>5. /\ Hosts(d) = ((first + 1)..last) \ {localHost}
      /\ Excluded(d, P) = P \cup {localHost} /\ Excluded(sn, P) = P \cup {localHost}
  BY <1>1, <1>4 DEF Hosts, Excluded
<1>6. SubnetOK(d, P)
  BY <1>3, <1>4, <1>5 DEF SubnetOK, SubnetHasNext
<1>7. Left(d, P) = (((first + 1)..last) \ {localHost}) \ P
  <2>1. ASSUME NEW c \in Left(d, P) PROVE c \in (((first + 1)..last) \ {localHost}) \ P
    BY <1>3, <1>4, <1>5, <2>1 DEF Left
  <2>2. ASSUME NEW c \in (((first + 1)..last) \ {localHost}) \ P PROVE c \in Left(d, P)
    <3>1. c >= n
      BY <1>3, <1>5
    <3> QED BY <1>3, <1>4, <1>5, <3>1 DEF Left
  <2> QED BY <2>1, <2>2
<1> QED BY <1>2, <1>3, <1>6, <1>7 DEF d

\* The subnet of an interface entry covers the hosts of its network.
LEMMA SubnetOfSound ==
    ASSUME NEW entry \in [ip : Addr, size : Nat \ {0}], NEW limit \in Nat \ {0},
           NEW P, HostsOf(entry, limit) \subseteq Addr
    PROVE  /\ SubnetOK(SubnetOf(entry, limit, P), P)
           /\ Left(SubnetOf(entry, limit, P), P) = HostsOf(entry, limit) \ P
<1>1. entry.ip \in Addr /\ entry.ip \in Int /\ entry.size \in Nat \ {0}
  <2>1. entry.ip \in Addr /\ entry.size \in Nat \ {0}
    OBVIOUS
  <2> QED BY <2>1, AddrNat
<1>2. CASE entry.ip \in LinkLocal
  <2>1. FroniusAddress \in Int
    BY AddrNat
  <2>2. ((FroniusAddress - 1) + 1)..FroniusAddress = {FroniusAddress}
    BY <2>1
  <2>3. HostsOf(entry, limit) = {FroniusAddress} \ {entry.ip}
    BY <1>2 DEF HostsOf
  <2>4. SubnetOf(entry, limit, P) = Subnet(FroniusAddress - 1, FroniusAddress, entry.ip, P)
    BY <1>2 DEF SubnetOf
  <2>5. FroniusAddress - 1 \in Int
    BY <2>1
  <2> QED BY <1>1, <2>1, <2>2, <2>3, <2>4, <2>5, NewSubnetSound
<1>3. CASE entry.ip \notin LinkLocal
  <2> DEFINE size  == Min({entry.size, limit})
             first == entry.ip - (entry.ip % size)
             last  == first + size - 2
  <2>1. size \in Nat /\ size > 0
    <3>1. size = IF entry.size <= limit THEN entry.size ELSE limit
      BY <1>1, PairBounds
    <3> QED BY <1>1, <3>1
  <2>2. /\ HostsOf(entry, limit) = ((first + 1)..last) \ {entry.ip}
        /\ SubnetOf(entry, limit, P) = Subnet(first, last, entry.ip, P)
    BY <1>3 DEF HostsOf, SubnetOf
  <2> HIDE DEF size
  <2>3. first \in Int
    BY <1>1, <2>1
  <2> HIDE DEF first
  <2>4. last \in Int
    BY <2>1, <2>3
  <2> HIDE DEF last
  <2> QED BY <1>1, <2>2, <2>3, <2>4, NewSubnetSound
<1> QED BY <1>2, <1>3

----------------------------------------------------------------------------
(* The generator.                                                          *)

\* What the iterator has to do, of a generator g.
TodoOf(g) ==
    [priority |-> {g.mPriorityAddresses[i] :
                      i \in (g.mPriorityIndex + 1)..Len(g.mPriorityAddresses)},
     sweep    |-> UNION {{i} \X Left(g.mSubnets[i], Exceptions(g)) :
                           i \in (g.mSubnetIndex + 1)..Len(g.mSubnets)}]

\* It is what the refinement mapping takes.
LEMMA TodoIs == Todo = TodoOf(gen)
  BY DEF Todo, TodoOf, Left, Excluded, Remaining

\* The members of a generator.
LEMMA GeneratorFields ==
    ASSUME NEW g, GeneratorOK(g)
    PROVE  /\ g \in GeneratorType
           /\ g.mPriorityAddresses \in Seq(Addr)
           /\ Len(g.mPriorityAddresses) \in Nat
           /\ DOMAIN g.mPriorityAddresses = 1..Len(g.mPriorityAddresses)
           /\ g.mPriorityIndex \in 0..Len(g.mPriorityAddresses)
           /\ g.mSubnets \in Seq(SubnetType)
           /\ Len(g.mSubnets) \in Nat
           /\ g.mSubnetIndex \in 0..Len(g.mSubnets)
<1>1. /\ g.mPriorityAddresses \in Seq(Addr) /\ g.mSubnets \in Seq(SubnetType)
      /\ g.mPriorityIndex \in Nat /\ g.mSubnetIndex \in Nat
  BY DEF GeneratorOK, GeneratorType
<1>2. /\ Len(g.mPriorityAddresses) \in Nat /\ Len(g.mSubnets) \in Nat
      /\ DOMAIN g.mPriorityAddresses = 1..Len(g.mPriorityAddresses)
  BY <1>1
<1>3. g.mPriorityIndex \in 0..Len(g.mPriorityAddresses) /\ g.mSubnetIndex \in 0..Len(g.mSubnets)
  BY <1>1, <1>2 DEF GeneratorOK
<1> QED BY <1>1, <1>2, <1>3 DEF GeneratorOK

\* What is left in the subnets, and in which of them.
LEMMA SweepIs ==
    ASSUME NEW g
    PROVE  /\ \A i, c : <<i, c>> \in TodoOf(g).sweep <=>
                 /\ i \in (g.mSubnetIndex + 1)..Len(g.mSubnets)
                 /\ c \in Left(g.mSubnets[i], Exceptions(g))
           /\ \A p \in TodoOf(g).sweep : p = <<p[1], p[2]>>
<1> DEFINE I == (g.mSubnetIndex + 1)..Len(g.mSubnets)
           L(i) == Left(g.mSubnets[i], Exceptions(g))
<1>1. TodoOf(g).sweep = UNION {{i} \X L(i) : i \in I}
  BY DEF TodoOf
<1> HIDE DEF I, L
<1>2. \A i, c : <<i, c>> \in UNION {{j} \X L(j) : j \in I} <=> i \in I /\ c \in L(i)
  OBVIOUS
<1>3. \A p \in UNION {{j} \X L(j) : j \in I} : p = <<p[1], p[2]>>
  OBVIOUS
<1> QED BY <1>1, <1>2, <1>3 DEF I, L

\* The same, of a subnet of a generator.
LEMMA OpenIffLeft ==
    ASSUME NEW g, GeneratorOK(g), NEW i \in (g.mSubnetIndex + 1)..Len(g.mSubnets)
    PROVE  SubnetHasNext(g.mSubnets[i]) <=> Left(g.mSubnets[i], Exceptions(g)) # {}
<1>1. i \in 1..Len(g.mSubnets)
  BY GeneratorFields
<1>2. SubnetOK(g.mSubnets[i], Exceptions(g))
  BY <1>1 DEF GeneratorOK
<1> QED BY <1>2, HasNextIffLeft

\* hasNext() says whether anything is left.
LEMMA HasNextIs ==
    ASSUME NEW g, GeneratorOK(g)
    PROVE  /\ InPriority(g) <=> TodoOf(g).priority # {}
           /\ OpenSubnets(g) # {} <=> TodoOf(g).sweep # {}
<1>1. InPriority(g) <=> TodoOf(g).priority # {}
  <2> DEFINE n == Len(g.mPriorityAddresses)
             k == g.mPriorityIndex
  <2>1. n \in Nat /\ k \in 0..n
    BY GeneratorFields
  <2>2. TodoOf(g).priority = {g.mPriorityAddresses[i] : i \in (k + 1)..n}
    BY DEF TodoOf
  <2>3. InPriority(g) <=> k < n
    BY DEF InPriority
  <2> HIDE DEF n, k
  <2>4. (k + 1)..n # {} <=> k < n
    BY <2>1
  <2> QED BY <2>2, <2>3, <2>4
<1>2. OpenSubnets(g) # {} => TodoOf(g).sweep # {}
  <2> SUFFICES ASSUME NEW i \in OpenSubnets(g) PROVE TodoOf(g).sweep # {}
    OBVIOUS
  <2>1. i \in (g.mSubnetIndex + 1)..Len(g.mSubnets) /\ SubnetHasNext(g.mSubnets[i])
    BY DEF OpenSubnets
  <2>2. PICK c : c \in Left(g.mSubnets[i], Exceptions(g))
    BY <2>1, OpenIffLeft
  <2>3. <<i, c>> \in TodoOf(g).sweep
    BY <2>1, <2>2, SweepIs
  <2> QED BY <2>3
<1>3. TodoOf(g).sweep # {} => OpenSubnets(g) # {}
  <2> DEFINE I == (g.mSubnetIndex + 1)..Len(g.mSubnets)
  <2> SUFFICES ASSUME NEW p \in TodoOf(g).sweep PROVE OpenSubnets(g) # {}
    OBVIOUS
  <2>1. PICK i \in I : p \in {i} \X Left(g.mSubnets[i], Exceptions(g))
    BY DEF TodoOf
  <2>2. Left(g.mSubnets[i], Exceptions(g)) # {}
    BY <2>1
  <2>3. SubnetHasNext(g.mSubnets[i])
    BY <2>2, OpenIffLeft
  <2> QED BY <2>3 DEF OpenSubnets
<1> QED BY <1>1, <1>2, <1>3

\* The subnet that next() takes an address of.
LEMMA OpenSubnetFirst ==
    ASSUME NEW g, GeneratorOK(g), OpenSubnets(g) # {}
    PROVE  /\ Min(OpenSubnets(g)) \in (g.mSubnetIndex + 1)..Len(g.mSubnets)
           /\ SubnetHasNext(g.mSubnets[Min(OpenSubnets(g))])
           /\ \A i \in (g.mSubnetIndex + 1)..Len(g.mSubnets) :
                 i < Min(OpenSubnets(g)) => ~SubnetHasNext(g.mSubnets[i])
<1> DEFINE k == g.mSubnetIndex
           n == Len(g.mSubnets)
           S == OpenSubnets(g)
<1>1. k \in Int /\ n \in Int
  BY GeneratorFields
<1>2. \A i : i \in S <=> i \in (k + 1)..n /\ SubnetHasNext(g.mSubnets[i])
  BY DEF OpenSubnets
<1> HIDE DEF k, n, S
<1>3. S \subseteq Int /\ k + 1 \in Int /\ \A i \in S : k + 1 <= i
  BY <1>1, <1>2
<1>4. Min(S) \in S /\ \A i \in S : Min(S) <= i
  <2>1. S # {}
    BY DEF S
  <2> QED BY <1>3, <2>1, MinSound
<1>5. ASSUME NEW i \in (k + 1)..n, i < Min(S)
      PROVE  ~SubnetHasNext(g.mSubnets[i])
  <2>1. i \in Int
    BY <1>1
  <2>2. ~(Min(S) <= i)
    <3>1. Min(S) \in Int
      BY <1>3, <1>4
    <3> QED BY <1>5, <2>1, <3>1
  <2>3. i \notin S
    BY <1>4, <2>2
  <2> QED BY <1>2, <2>3
<1> QED BY <1>2, <1>4, <1>5 DEF k, n, S

\* The limits in use: the one that is set, and none.
Limits == {LimitSize, Cardinality(Addr)}

\* The networks a reset finds, with their hosts.
Networks(limit) ==
    UNION {{i} \X HostsOf(interfaces[i], limit) : i \in DOMAIN interfaces}

\* Their elements.
LEMMA NetworksAre ==
    ASSUME NEW limit
    PROVE  /\ \A i, c : <<i, c>> \in Networks(limit) <=>
                 i \in DOMAIN interfaces /\ c \in HostsOf(interfaces[i], limit)
           /\ \A p \in Networks(limit) : p = <<p[1], p[2]>>
<1> DEFINE H(i) == HostsOf(interfaces[i], limit)
<1>1. Networks(limit) = UNION {{i} \X H(i) : i \in DOMAIN interfaces}
  BY DEF Networks
<1> HIDE DEF H
<1>2. \A i, c : <<i, c>> \in UNION {{j} \X H(j) : j \in DOMAIN interfaces} <=>
                   i \in DOMAIN interfaces /\ c \in H(i)
  OBVIOUS
<1>3. \A p \in UNION {{j} \X H(j) : j \in DOMAIN interfaces} : p = <<p[1], p[2]>>
  OBVIOUS
<1> QED BY <1>1, <1>2, <1>3 DEF H

\* A limit is the size of a network.
LEMMA LimitsPositive == Limits \subseteq Nat \ {0}
<1>1. Cardinality(Addr) \in Nat /\ Cardinality(Addr) # 0
  BY AddressAssumption, FS_CardinalityType, FS_EmptySet
<1>2. LimitSize \in Nat \ {0}
  BY LimitAssumption
<1> QED BY <1>1, <1>2 DEF Limits

\* The interface entries, and their hosts.
LEMMA EntryIs ==
    ASSUME interfaces \in InterfaceLists
    PROVE  /\ Len(interfaces) \in Nat
           /\ DOMAIN interfaces = 1..Len(interfaces)
           /\ \A i \in DOMAIN interfaces :
                 /\ interfaces[i] \in [ip : Addr, size : Nat \ {0}]
                 /\ \A limit \in Limits : HostsOf(interfaces[i], limit) \subseteq Addr
<1> DEFINE E == [ip : Addr, size : Nat \ {0}]
<1>1. interfaces \in Seq(E)
  BY EntryAssumption
<1> HIDE DEF E
<1>2. /\ Len(interfaces) \in Nat
      /\ DOMAIN interfaces = 1..Len(interfaces)
      /\ \A i \in DOMAIN interfaces : interfaces[i] \in E
  BY <1>1
<1>3. \A i \in DOMAIN interfaces : \A limit \in Limits :
         HostsOf(interfaces[i], limit) \subseteq Addr
  BY NetworkAssumption DEF Limits
<1> QED BY <1>2, <1>3 DEF E

\* After reset() everything is to be done again: the priority addresses and,
\* unless they are all, the other hosts of the networks there are.
LEMMA ResetSound ==
    ASSUME interfaces \in InterfaceLists,
           NEW g \in GeneratorType, IsInjective(g.mPriorityAddresses),
           NEW limit \in Limits
    PROVE  /\ GeneratorOK(Reset(g, limit))
           /\ Reset(g, limit).mPriorityAddresses = g.mPriorityAddresses
           /\ Reset(g, limit).mPriorityOnly = g.mPriorityOnly
           /\ TodoOf(Reset(g, limit)) =
                [priority |-> Exceptions(g),
                 sweep |-> IF g.mPriorityOnly THEN {}
                           ELSE {p \in Networks(limit) : p[2] \notin Exceptions(g)}]
<1> DEFINE P       == Exceptions(g)
           all     == [i \in DOMAIN interfaces |-> SubnetOf(interfaces[i], limit, P)]
           subnets == IF g.mPriorityOnly THEN <<>> ELSE all
           r       == [g EXCEPT !.mPriorityIndex = 0, !.mSubnetIndex = 0,
                                !.mSubnets = subnets]
<1>1. Reset(g, limit) = r
  BY DEF Reset
<1>2. ASSUME NEW i \in DOMAIN interfaces
      PROVE  /\ SubnetOK(all[i], P)
             /\ Left(all[i], P) = HostsOf(interfaces[i], limit) \ P
  <2>1. all[i] = SubnetOf(interfaces[i], limit, P)
    OBVIOUS
  <2>2. /\ interfaces[i] \in [ip : Addr, size : Nat \ {0}]
        /\ HostsOf(interfaces[i], limit) \subseteq Addr
        /\ limit \in Nat \ {0}
    BY EntryIs, LimitsPositive
  <2> HIDE DEF all, P
  <2> QED BY <2>1, <2>2, SubnetOfSound
<1>3. all \in Seq(SubnetType) /\ Len(all) = Len(interfaces)
  <2>1. \A i \in DOMAIN interfaces : all[i] \in SubnetType
    BY <1>2 DEF SubnetOK
  <2>2. all = [i \in 1..Len(interfaces) |-> all[i]] /\ Len(interfaces) \in Nat
    BY EntryIs
  <2> HIDE DEF all
  <2> QED BY <2>1, <2>2, EntryIs
<1> HIDE DEF all
<1>4. /\ subnets \in Seq(SubnetType) /\ Len(subnets) \in Nat
      /\ \A i \in 1..Len(subnets) : ~g.mPriorityOnly /\ i \in DOMAIN interfaces /\ subnets[i] = all[i]
  <2>1. CASE g.mPriorityOnly
    BY <2>1
  <2>2. CASE ~g.mPriorityOnly
    BY <1>3, <2>2, EntryIs
  <2> QED BY <2>1, <2>2
<1>5. ~g.mPriorityOnly => Len(subnets) = Len(interfaces)
  BY <1>3
<1> HIDE DEF subnets
<1>6. /\ r \in GeneratorType
      /\ r.mPriorityAddresses = g.mPriorityAddresses
      /\ r.mPriorityOnly = g.mPriorityOnly
      /\ r.mPriorityIndex = 0 /\ r.mSubnetIndex = 0 /\ r.mSubnets = subnets
  BY <1>4 DEF GeneratorType
<1> HIDE DEF r
<1>7. Exceptions(r) = P
  BY <1>6 DEF Exceptions
<1>8. g.mPriorityAddresses \in Seq(Addr) /\ Len(g.mPriorityAddresses) \in Nat
  <2>1. g.mPriorityAddresses \in Seq(Addr)
    BY DEF GeneratorType
  <2> QED BY <2>1
<1>9. GeneratorOK(r)
  <2>1. \A i \in 1..Len(r.mSubnets) : SubnetOK(r.mSubnets[i], Exceptions(r))
    <3> HIDE DEF P
    <3> QED BY <1>2, <1>4, <1>6, <1>7
  <2>2. r.mPriorityIndex <= Len(r.mPriorityAddresses) /\ r.mSubnetIndex <= Len(r.mSubnets)
    BY <1>4, <1>6, <1>8
  <2>3. IsInjective(r.mPriorityAddresses)
    BY <1>6
  <2> QED BY <1>6, <2>1, <2>2, <2>3 DEF GeneratorOK
<1>10. TodoOf(r).priority = P
  <2> DEFINE q == g.mPriorityAddresses
  <2>1. TodoOf(r).priority = {q[i] : i \in (0 + 1)..Len(q)}
    BY <1>6 DEF TodoOf
  <2>2. DOMAIN q = 1..Len(q)
    BY <1>8
  <2>3. P = {q[i] : i \in DOMAIN q}
    BY DEF Exceptions, Range
  <2> QED BY <2>1, <2>2, <2>3
<1>11. \A i, c : <<i, c>> \in TodoOf(r).sweep <=>
          /\ ~g.mPriorityOnly
          /\ <<i, c>> \in Networks(limit)
          /\ c \notin P
  <2> TAKE i, c
  <2>1. <<i, c>> \in TodoOf(r).sweep <=> i \in (0 + 1)..Len(subnets) /\ c \in Left(subnets[i], P)
    BY <1>6, <1>7, SweepIs
  <2>2. <<i, c>> \in TodoOf(r).sweep <=> i \in 1..Len(subnets) /\ c \in Left(subnets[i], P)
    BY <2>1
  <2>3. <<i, c>> \in Networks(limit) <=> i \in DOMAIN interfaces /\ c \in HostsOf(interfaces[i], limit)
    BY NetworksAre
  <2>4. DOMAIN interfaces = 1..Len(interfaces)
    BY EntryIs
  <2> HIDE DEF P
  <2>5. CASE g.mPriorityOnly
    BY <1>4, <2>2, <2>5
  <2>6. CASE ~g.mPriorityOnly
    BY <1>2, <1>4, <1>5, <2>2, <2>3, <2>4, <2>6
  <2> QED BY <2>5, <2>6
<1>12. TodoOf(r).sweep = IF g.mPriorityOnly THEN {}
                         ELSE {p \in Networks(limit) : p[2] \notin P}
  <2>1. /\ \A p \in TodoOf(r).sweep : p = <<p[1], p[2]>>
        /\ \A p \in Networks(limit) : p = <<p[1], p[2]>>
    BY SweepIs, NetworksAre
  <2> DEFINE T == TodoOf(r).sweep
             N == Networks(limit)
  <2> HIDE DEF P, T, N
  <2>2. \A p : p \in T <=> ~g.mPriorityOnly /\ p \in N /\ p[2] \notin P
    <3>1. \A i, c : <<i, c>> \in T <=> ~g.mPriorityOnly /\ <<i, c>> \in N /\ c \notin P
      BY <1>11 DEF T, N
    <3>2. /\ \A p \in T : p = <<p[1], p[2]>>
          /\ \A p \in N : p = <<p[1], p[2]>>
      BY <2>1 DEF T, N
    <3>3. ASSUME NEW p, p = <<p[1], p[2]>>
          PROVE  p \in T <=> ~g.mPriorityOnly /\ p \in N /\ p[2] \notin P
      <4> DEFINE i == p[1]
                 c == p[2]
      <4>1. <<i, c>> \in T <=> ~g.mPriorityOnly /\ <<i, c>> \in N /\ c \notin P
        BY <3>1
      <4>2. p = <<i, c>>
        BY <3>3
      <4> HIDE DEF i
      <4> QED BY <4>1, <4>2
    <3> QED BY <3>2, <3>3
  <2>3. T = IF g.mPriorityOnly THEN {} ELSE {p \in N : p[2] \notin P}
    BY <2>2
  <2> QED BY <2>3 DEF T, N
<1>13. TodoOf(r) = [priority |-> TodoOf(r).priority, sweep |-> TodoOf(r).sweep]
  BY DEF TodoOf
<1> QED BY <1>1, <1>6, <1>9, <1>10, <1>12, <1>13

\* next() hands out a priority address.
LEMMA PriorityNextSound ==
    ASSUME NEW g, GeneratorOK(g), InPriority(g)
    PROVE  /\ GeneratorOK(AfterNext(g))
           /\ NextAddress(g) \in Addr
           /\ NextAddress(g) \in TodoOf(g).priority
           /\ TodoOf(AfterNext(g)).priority = TodoOf(g).priority \ {NextAddress(g)}
           /\ TodoOf(AfterNext(g)).sweep = TodoOf(g).sweep
<1> DEFINE q == g.mPriorityAddresses
           k == g.mPriorityIndex
           n == Len(q)
           a == q[k + 1]
           d == [g EXCEPT !.mPriorityIndex = k + 1]
<1>1. AfterNext(g) = d /\ NextAddress(g) = a
  BY DEF AfterNext, NextAddress
<1>2. q \in Seq(Addr) /\ n \in Nat /\ DOMAIN q = 1..n /\ k \in 0..n /\ k < n
  BY GeneratorFields DEF InPriority
<1>3. k + 1 \in 1..n /\ a \in Addr
  <2>1. k + 1 \in 1..n
    BY <1>2
  <2> HIDE DEF n, k
  <2> QED BY <1>2, <2>1
<1>4. /\ d \in GeneratorType /\ d.mPriorityIndex = k + 1
      /\ d.mPriorityAddresses = q
      /\ d.mSubnets = g.mSubnets /\ d.mSubnetIndex = g.mSubnetIndex
  <2>1. g \in GeneratorType /\ k + 1 \in Nat
    BY <1>2 DEF GeneratorOK
  <2> QED BY <2>1 DEF GeneratorType
<1> HIDE DEF d
<1>5. Exceptions(d) = Exceptions(g)
  BY <1>4 DEF Exceptions
<1>6. GeneratorOK(d)
  BY <1>3, <1>4, <1>5 DEF GeneratorOK
<1>7. TodoOf(d).sweep = TodoOf(g).sweep
  BY <1>4, <1>5 DEF TodoOf
<1>8. /\ TodoOf(g).priority = {q[i] : i \in (k + 1)..n}
      /\ TodoOf(d).priority = {q[i] : i \in ((k + 1) + 1)..n}
  BY <1>4 DEF TodoOf
<1>9. \A i, j \in 1..n : q[i] = q[j] => i = j
  BY <1>2 DEF GeneratorOK, IsInjective
<1> HIDE DEF q, k, n
<1>10. /\ \A i : i \in (k + 1)..n <=> i = k + 1 \/ i \in ((k + 1) + 1)..n
       /\ k + 1 \notin ((k + 1) + 1)..n
       /\ (k + 1)..n \subseteq 1..n
  BY <1>2
<1>11. {q[i] : i \in ((k + 1) + 1)..n} = {q[i] : i \in (k + 1)..n} \ {a}
  <2>1. ASSUME NEW i \in ((k + 1) + 1)..n PROVE q[i] # a /\ i \in (k + 1)..n
    BY <1>3, <1>9, <1>10, <2>1
  <2>2. ASSUME NEW i \in (k + 1)..n, q[i] # a PROVE i \in ((k + 1) + 1)..n
    BY <1>10, <2>2
  <2> QED BY <2>1, <2>2
<1>12. a \in {q[i] : i \in (k + 1)..n}
  BY <1>10
<1> QED BY <1>1, <1>3, <1>6, <1>7, <1>8, <1>11, <1>12

\* next() hands out an address of the first subnet that has one left.
LEMMA SweepNextSound ==
    ASSUME NEW g, GeneratorOK(g), ~InPriority(g), OpenSubnets(g) # {}
    PROVE  /\ GeneratorOK(AfterNext(g))
           /\ NextAddress(g) \in Addr
           /\ TodoOf(AfterNext(g)).priority = TodoOf(g).priority
           /\ \E i : /\ <<i, NextAddress(g)>> \in TodoOf(g).sweep
                     /\ TodoOf(AfterNext(g)).sweep =
                           TodoOf(g).sweep \ {<<i, NextAddress(g)>>}
<1> DEFINE s  == g.mSubnets
           n  == Len(s)
           i  == Min(OpenSubnets(g))
           P  == Exceptions(g)
           sn == s[i]
           a  == sn.current
           t  == Advanced(sn, P)
           w  == [s EXCEPT ![i] = t]
           d  == [g EXCEPT !.mSubnetIndex = i - 1, !.mSubnets = w]
<1>1. AfterNext(g) = d /\ NextAddress(g) = a
  BY DEF AfterNext, NextAddress
<1>2. /\ g \in GeneratorType
      /\ s \in Seq(SubnetType) /\ n \in Nat /\ g.mSubnetIndex \in 0..n
      /\ \A j \in 1..n : SubnetOK(s[j], P)
  BY GeneratorFields DEF GeneratorOK
<1>3. /\ i \in (g.mSubnetIndex + 1)..n
      /\ SubnetHasNext(sn)
      /\ \A j \in (g.mSubnetIndex + 1)..n : j < i => ~SubnetHasNext(s[j])
  BY OpenSubnetFirst
<1> HIDE DEF i
<1>4. i \in 1..n
  BY <1>2, <1>3
<1>5. /\ SubnetOK(t, P)
      /\ a \in Left(sn, P)
      /\ a \in Addr
      /\ Left(t, P) = Left(sn, P) \ {a}
  <2>1. SubnetOK(sn, P)
    BY <1>2, <1>4
  <2> HIDE DEF sn, P
  <2> QED BY <1>3, <2>1, SubnetNextSound
<1>6. t \in SubnetType
  BY <1>5 DEF SubnetOK
<1> HIDE DEF t
<1>7. /\ w \in Seq(SubnetType) /\ Len(w) = n
      /\ \A j \in 1..n : w[j] = IF j = i THEN t ELSE s[j]
  BY <1>2, <1>4, <1>6
<1> HIDE DEF w
<1>8. /\ d \in GeneratorType
      /\ d.mPriorityAddresses = g.mPriorityAddresses
      /\ d.mPriorityIndex = g.mPriorityIndex
      /\ d.mSubnets = w /\ d.mSubnetIndex = i - 1
  <2>1. i - 1 \in Nat
    BY <1>2, <1>4
  <2> QED BY <1>2, <1>7, <2>1 DEF GeneratorType
<1> HIDE DEF d
<1>9. Exceptions(d) = P
  BY <1>8 DEF Exceptions
<1>10. GeneratorOK(d)
  <2>1. \A j \in 1..Len(d.mSubnets) : SubnetOK(d.mSubnets[j], Exceptions(d))
    <3> HIDE DEF P, n, s
    <3> QED BY <1>2, <1>5, <1>7, <1>8, <1>9
  <2>2. d.mSubnetIndex <= Len(d.mSubnets)
    <3> HIDE DEF n, s
    <3> QED BY <1>2, <1>4, <1>7, <1>8
  <2>3. /\ IsInjective(d.mPriorityAddresses)
        /\ d.mPriorityIndex <= Len(d.mPriorityAddresses)
    BY <1>8 DEF GeneratorOK
  <2> QED BY <1>8, <2>1, <2>2, <2>3 DEF GeneratorOK
<1>11. TodoOf(d).priority = TodoOf(g).priority
  BY <1>8 DEF TodoOf
<1> DEFINE T == TodoOf(g).sweep
           U == TodoOf(d).sweep
<1>12. \A j, c : /\ <<j, c>> \in T <=> j \in (g.mSubnetIndex + 1)..n /\ c \in Left(s[j], P)
                 /\ <<j, c>> \in U <=> j \in ((i - 1) + 1)..n /\ c \in Left(w[j], P)
  BY <1>7, <1>8, <1>9, SweepIs
<1>13. /\ \A p \in T : p = <<p[1], p[2]>>
       /\ \A p \in U : p = <<p[1], p[2]>>
  BY SweepIs
<1>14. \A j \in (g.mSubnetIndex + 1)..n : j < i => Left(s[j], P) = {}
  BY <1>3, OpenIffLeft
<1> HIDE DEF T, U, n, P, s
<1>15. \A j : /\ j \in (g.mSubnetIndex + 1)..n <=>
                    j = i \/ j \in (i + 1)..n \/ (j \in (g.mSubnetIndex + 1)..n /\ j < i)
              /\ j \in ((i - 1) + 1)..n <=> j = i \/ j \in (i + 1)..n
              /\ j \in (i + 1)..n => j \in 1..n /\ j # i
  <2>1. g.mSubnetIndex \in Int /\ i \in Int
    BY <1>2, <1>3
  <2> QED BY <1>2, <1>3, <2>1
<1>16. ASSUME NEW j, NEW c
       PROVE  <<j, c>> \in U <=> <<j, c>> \in T /\ ~(j = i /\ c = a)
  <2>1. CASE j = i
    <3>1. w[i] = t /\ sn = s[i]
      BY <1>4, <1>7
    <3> HIDE DEF sn, a
    <3>2. <<i, c>> \in T <=> c \in Left(sn, P)
      BY <1>3, <1>12, <3>1
    <3>3. <<i, c>> \in U <=> c \in Left(t, P)
      BY <1>12, <1>15, <3>1
    <3> QED BY <1>5, <2>1, <3>2, <3>3
  <2>2. CASE j \in (i + 1)..n
    <3>1. j \in 1..n /\ j # i /\ w[j] = s[j]
      BY <1>7, <1>15, <2>2
    <3> QED BY <1>12, <1>15, <2>2, <3>1
  <2>3. CASE j # i /\ j \notin (i + 1)..n
    BY <1>12, <1>14, <1>15, <2>3
  <2> QED BY <2>1, <2>2, <2>3
<1>17. U = T \ {<<i, a>>}
  <2> HIDE DEF a
  <2>1. ASSUME NEW p, p = <<p[1], p[2]>>
        PROVE  p \in U <=> p \in T /\ p # <<i, a>>
    <3> DEFINE j == p[1]
               c == p[2]
    <3>1. <<j, c>> \in U <=> <<j, c>> \in T /\ ~(j = i /\ c = a)
      BY <1>16
    <3>2. p = <<j, c>>
      BY <2>1
    <3> HIDE DEF j, c
    <3> QED BY <3>1, <3>2
  <2> QED BY <1>13, <2>1
<1>18. <<i, a>> \in T
  BY <1>3, <1>5, <1>12
<1> QED BY <1>1, <1>5, <1>10, <1>11, <1>17, <1>18 DEF T, U

\* The setters leave a generator with the new addresses.
LEMMA RestartTyped ==
    ASSUME NEW g, GeneratorOK(g), interfaces \in InterfaceLists,
           NEW addresses \in PriorityLists, NEW only \in BOOLEAN
    PROVE  LET b == SetPriorityOnly(SetPriorityAddresses(g, addresses), only)
           IN  /\ b \in GeneratorType
               /\ b.mPriorityAddresses = addresses
               /\ b.mPriorityOnly = only
<1> DEFINE a == SetPriorityAddresses(g, addresses)
           b == SetPriorityOnly(a, only)
<1>1. addresses \in Seq(Addr) /\ IsInjective(addresses) /\ Len(addresses) \in Nat
  <2>1. addresses \in Seq(Addr) /\ IsInjective(addresses)
    BY PriorityAssumption
  <2> QED BY <2>1
<1>2. a \in GeneratorType /\ a.mPriorityAddresses = addresses
  <2> DEFINE atEnd == g.mPriorityIndex > 0 /\ g.mPriorityIndex >= Len(g.mPriorityAddresses)
             k     == IF atEnd THEN Len(addresses) ELSE 0
  <2>1. a = [g EXCEPT !.mPriorityAddresses = addresses, !.mPriorityIndex = k]
    BY DEF SetPriorityAddresses
  <2>2. k \in Nat /\ g \in GeneratorType
    BY <1>1 DEF GeneratorOK
  <2> HIDE DEF k, a
  <2> QED BY <1>1, <2>1, <2>2 DEF GeneratorType
<1> HIDE DEF a
<1>3. ASSUME NEW o \in BOOLEAN
      PROVE  /\ [a EXCEPT !.mPriorityOnly = o] \in GeneratorType
             /\ [a EXCEPT !.mPriorityOnly = o].mPriorityOnly = o
             /\ [a EXCEPT !.mPriorityOnly = o].mPriorityAddresses = addresses
  BY <1>2, Zenon DEF GeneratorType
<1>4. LimitSize \in Limits
  BY DEF Limits
<1>5. /\ b \in GeneratorType
      /\ b.mPriorityAddresses = addresses
      /\ b.mPriorityOnly = only
  <2>1. CASE a.mPriorityOnly = only
    BY <1>2, <2>1 DEF SetPriorityOnly
  <2>2. CASE a.mPriorityOnly # only /\ only = TRUE
    <3> DEFINE f == [a EXCEPT !.mPriorityOnly = TRUE]
    <3>1. b = Reset(f, LimitSize)
      BY <2>2 DEF SetPriorityOnly
    <3>2. f \in GeneratorType /\ f.mPriorityOnly = TRUE /\ f.mPriorityAddresses = addresses
      BY <1>3
    <3> HIDE DEF f, b
    <3>3. /\ GeneratorOK(b)
          /\ b.mPriorityAddresses = addresses
          /\ b.mPriorityOnly = TRUE
      BY <1>1, <1>4, <3>1, <3>2, ResetSound
    <3> QED BY <2>2, <3>3 DEF GeneratorOK
  <2>3. CASE a.mPriorityOnly # only /\ only = FALSE
    <3>1. b = [a EXCEPT !.mPriorityOnly = FALSE]
      BY <2>3 DEF SetPriorityOnly
    <3> HIDE DEF b
    <3> QED BY <1>3, <2>3, <3>1
  <2> QED BY <2>1, <2>2, <2>3
<1> QED BY <1>5 DEF a

\* What Restart makes of the generator.
LEMMA RestartSound ==
    ASSUME NEW g, GeneratorOK(g), interfaces \in InterfaceLists,
           NEW addresses \in PriorityLists, NEW only \in BOOLEAN,
           NEW h, h = Reset(SetPriorityOnly(SetPriorityAddresses(g, addresses), only), LimitSize)
    PROVE  /\ GeneratorOK(h)
           /\ TodoOf(h) =
                [priority |-> Range(addresses),
                 sweep |-> IF only THEN {}
                           ELSE {p \in Networks(LimitSize) : p[2] \notin Range(addresses)}]
<1> DEFINE b == SetPriorityOnly(SetPriorityAddresses(g, addresses), only)
<1>1. IsInjective(addresses)
  BY PriorityAssumption
<1>2. /\ b \in GeneratorType
      /\ b.mPriorityAddresses = addresses
      /\ b.mPriorityOnly = only
  BY RestartTyped
<1>3. h = Reset(b, LimitSize) /\ LimitSize \in Limits
  BY DEF Limits
<1> HIDE DEF b
<1>4. Exceptions(b) = Range(addresses)
  BY <1>2 DEF Exceptions
<1> QED BY <1>1, <1>2, <1>3, <1>4, ResetSound

----------------------------------------------------------------------------
(* The invariant.                                                          *)

\* The generator constructed by the gateway.
New == [mPriorityOnly |-> FALSE, mPriorityAddresses |-> <<>>, mPriorityIndex |-> 0,
        mSubnetIndex |-> 0, mSubnets |-> <<>>]

\* It has all hosts of the networks to do, and no priority addresses.
LEMMA InitIs ==
    Init => /\ GeneratorOK(gen)
            /\ TodoOf(gen) = [priority |-> {}, sweep |-> Networks(Cardinality(Addr))]
<1> SUFFICES ASSUME Init
             PROVE  /\ GeneratorOK(gen)
                    /\ TodoOf(gen) = [priority |-> {}, sweep |-> Networks(Cardinality(Addr))]
  OBVIOUS
<1>1. interfaces \in InterfaceLists /\ gen = Reset(New, Cardinality(Addr))
  BY DEF Init, New
<1>2. New \in GeneratorType /\ New.mPriorityAddresses = <<>> /\ New.mPriorityOnly = FALSE
  BY DEF New, GeneratorType
<1>3. Exceptions(New) = {} /\ IsInjective(New.mPriorityAddresses)
  BY <1>2 DEF Exceptions, Range, IsInjective
<1>4. Cardinality(Addr) \in Limits
  BY DEF Limits
<1> HIDE DEF New
<1>5. {p \in Networks(Cardinality(Addr)) : p[2] \notin {}} = Networks(Cardinality(Addr))
  OBVIOUS
<1> QED BY <1>1, <1>2, <1>3, <1>4, <1>5, ResetSound

\* GeneratorOK has the part of the type invariant that is about the generator.
LEMMA OKTyped ==
    ASSUME NEW g, GeneratorOK(g)
    PROVE  /\ g \in GeneratorType
           /\ g.mPriorityIndex \in 0..Len(g.mPriorityAddresses)
           /\ g.mSubnetIndex \in 0..Len(g.mSubnets)
  BY GeneratorFields

\* A generator has something to do if it has a next address.
LEMMA NextHostIs ==
    ASSUME GeneratorOK(gen), NextHost
    PROVE  /\ UNCHANGED interfaces
           /\ GeneratorOK(gen')
           /\ NextAddress(gen) \in Addr
           /\ issued' = issued \cup {NextAddress(gen)}
           /\ \/ /\ NextAddress(gen) \in TodoOf(gen).priority
                 /\ TodoOf(gen').priority = TodoOf(gen).priority \ {NextAddress(gen)}
                 /\ TodoOf(gen').sweep = TodoOf(gen).sweep
              \/ /\ TodoOf(gen).priority = {} /\ TodoOf(gen').priority = {}
                 /\ \E i : /\ <<i, NextAddress(gen)>> \in TodoOf(gen).sweep
                           /\ TodoOf(gen').sweep =
                                 TodoOf(gen).sweep \ {<<i, NextAddress(gen)>>}
<1>1. /\ UNCHANGED interfaces
      /\ gen' = AfterNext(gen)
      /\ issued' = issued \cup {NextAddress(gen)}
      /\ InPriority(gen) \/ OpenSubnets(gen) # {}
  BY DEF NextHost, HasNext
<1>2. CASE InPriority(gen)
  BY <1>1, <1>2, PriorityNextSound
<1>3. CASE ~InPriority(gen)
  <2>1. TodoOf(gen).priority = {}
    BY <1>3, HasNextIs
  <2> QED BY <1>1, <1>3, <2>1, SweepNextSound
<1> QED BY <1>2, <1>3

\* What Restart does.
LEMMA RestartIs ==
    ASSUME IInv, Restart
    PROVE  /\ UNCHANGED interfaces
           /\ GeneratorOK(gen')
           /\ issued' = {}
           /\ \E addresses \in PriorityLists, only \in BOOLEAN :
                 TodoOf(gen') =
                   [priority |-> Range(addresses),
                    sweep |-> IF only THEN {}
                              ELSE {p \in Networks(LimitSize) : p[2] \notin Range(addresses)}]
<1>1. PICK addresses \in PriorityLists, only \in BOOLEAN :
         gen' = Reset(SetPriorityOnly(SetPriorityAddresses(gen, addresses), only), LimitSize)
  BY DEF Restart
<1>2. GeneratorOK(gen) /\ interfaces \in InterfaceLists
  BY DEF IInv, TypeOK
<1>3. UNCHANGED interfaces /\ issued' = {}
  BY DEF Restart
<1> QED BY <1>1, <1>2, <1>3, RestartSound

\* Every step keeps the invariant.
LEMMA StepKeeps == IInv /\ [Next]_vars => IInv'
<1> SUFFICES ASSUME IInv, [Next]_vars PROVE IInv'
  OBVIOUS
<1>1. GeneratorOK(gen) /\ interfaces \in InterfaceLists /\ issued \subseteq Addr
  BY DEF IInv, TypeOK
<1>2. GeneratorOK(gen') /\ interfaces' \in InterfaceLists /\ issued' \subseteq Addr
  <2>1. CASE Restart
    BY <1>1, <2>1, RestartIs
  <2>2. CASE NextHost
    BY <1>1, <2>2, NextHostIs
  <2>3. CASE InterfacesChange
    BY <1>1, <2>3 DEF InterfacesChange
  <2>4. CASE UNCHANGED vars
    BY <1>1, <2>4 DEF vars
  <2> QED BY <2>1, <2>2, <2>3, <2>4 DEF Next
<1>3. GeneratorOK(gen)'
  BY <1>2 DEF GeneratorOK, Exceptions, SubnetOK, SubnetHasNext, Excluded, Hosts
<1> QED BY <1>2, <1>3, OKTyped DEF IInv, TypeOK

\* The invariant holds throughout.
LEMMA Invariance == Spec => []IInv
<1>1. Init => IInv
  <2> SUFFICES ASSUME Init PROVE IInv
    OBVIOUS
  <2>1. GeneratorOK(gen)
    BY InitIs
  <2>2. interfaces \in InterfaceLists /\ issued = {}
    BY DEF Init
  <2> QED BY <2>1, <2>2, OKTyped DEF IInv, TypeOK
<1> QED BY <1>1, StepKeeps, PTL DEF Spec

----------------------------------------------------------------------------
(* What the loops over the subnets add up.                                 *)

\* What holds of 0 and of the successor of whatever it holds of holds of all.
LEMMA Induction ==
    ASSUME NEW S, 0 \in S, \A k \in Nat : k \in S => k + 1 \in S
    PROVE  Nat \subseteq S
<1> DEFINE T == Nat \ S
<1>1. CASE T # {}
  <2>1. PICK x \in T : \A y \in T : x <= y
    BY <1>1, SmallestNat
  <2>2. x \in Nat \ {0}
    BY <2>1
  <2>3. x - 1 \in Nat /\ x - 1 \notin T
    BY <2>1, <2>2
  <2>4. x - 1 \in S
    BY <2>3
  <2> QED BY <2>2, <2>3, <2>4
<1> QED BY <1>1

\* f has the sums of the first k elements of s, for each k up to n.
Sums(f, s, n) == f = [k \in 0..n |-> IF k = 0 THEN 0 ELSE f[k - 1] + s[k]]

\* There is such a function.
LEMMA SumsExist ==
    ASSUME NEW s, NEW n \in Nat
    PROVE  \E f : Sums(f, s, n)
<1> DEFINE S == {k \in Nat : \E f : Sums(f, s, k)}
<1>1. 0 \in S
  <2> DEFINE f == [k \in 0..0 |-> 0]
  <2>1. Sums(f, s, 0)
    BY DEF Sums
  <2> QED BY <2>1
<1>2. ASSUME NEW m \in Nat, m \in S PROVE m + 1 \in S
  <2>1. PICK h : Sums(h, s, m)
    BY <1>2
  <2> DEFINE f == [k \in 0..(m + 1) |-> IF k <= m THEN h[k] ELSE h[m] + s[m + 1]]
  <2>2. \A k \in 0..m : h[k] = IF k = 0 THEN 0 ELSE h[k - 1] + s[k]
    BY <2>1 DEF Sums
  <2>3. \A k \in 0..m : f[k] = h[k]
    OBVIOUS
  <2>4. f[m + 1] = h[m] + s[m + 1]
    OBVIOUS
  <2>5. f = [k \in 0..(m + 1) |-> f[k]]
    OBVIOUS
  <2> HIDE DEF f
  <2>6. \A k \in 0..(m + 1) : f[k] = IF k = 0 THEN 0 ELSE f[k - 1] + s[k]
    <3> TAKE k \in 0..(m + 1)
    <3>1. CASE k \in 0..m
      <4>1. k # 0 => k - 1 \in 0..m
        BY <3>1
      <4> QED BY <2>2, <2>3, <3>1, <4>1
    <3>2. CASE k = m + 1
      <4>1. k # 0 /\ k - 1 = m /\ m \in 0..m
        BY <3>2
      <4> QED BY <2>3, <2>4, <3>2, <4>1
    <3> QED BY <3>1, <3>2
  <2>7. Sums(f, s, m + 1)
    BY <2>5, <2>6 DEF Sums
  <2> QED BY <2>7
<1> HIDE DEF S
<1>3. n \in S
  BY <1>1, <1>2, Induction
<1> QED BY <1>3 DEF S

\* AddedUp is the last of the sums.
LEMMA AddedUpIs ==
    ASSUME NEW s, Len(s) \in Nat
    PROVE  \E f : Sums(f, s, Len(s)) /\ AddedUp(s) = f[Len(s)]
<1> DEFINE f == CHOOSE f : Sums(f, s, Len(s))
<1>1. Sums(f, s, Len(s))
  BY SumsExist
<1>2. AddedUp(s) = f[Len(s)]
  BY DEF AddedUp, Sums
<1> QED BY <1>1, <1>2

\* Sums of numbers none of which is above its counterpart, and that are the same
\* where all the numbers are.
LEMMA AddedUpCompare ==
    ASSUME NEW a, NEW b, NEW n \in Nat, Len(a) = n, Len(b) = n,
           \A i \in 1..n : a[i] \in Nat /\ b[i] \in Nat /\ a[i] <= b[i]
    PROVE  /\ AddedUp(a) \in Nat /\ AddedUp(b) \in Nat
           /\ AddedUp(a) <= AddedUp(b)
           /\ AddedUp(a) = AddedUp(b) <=> \A i \in 1..n : a[i] = b[i]
<1>1. PICK f : Sums(f, a, n) /\ AddedUp(a) = f[n]
  BY AddedUpIs
<1>2. PICK h : Sums(h, b, n) /\ AddedUp(b) = h[n]
  BY AddedUpIs
<1>3. \A k \in 0..n : /\ f[k] = IF k = 0 THEN 0 ELSE f[k - 1] + a[k]
                      /\ h[k] = IF k = 0 THEN 0 ELSE h[k - 1] + b[k]
  BY <1>1, <1>2 DEF Sums
<1> DEFINE Upto(k) == /\ f[k] \in Nat /\ h[k] \in Nat /\ f[k] <= h[k]
                      /\ f[k] = h[k] <=> \A i \in 1..k : a[i] = b[i]
           S == {k \in Nat : k <= n => Upto(k)}
<1>4. 0 \in S
  <2>1. f[0] = 0 /\ h[0] = 0
    BY <1>3
  <2> QED BY <2>1
<1>5. ASSUME NEW m \in Nat, m \in S PROVE m + 1 \in S
  <2> SUFFICES ASSUME m + 1 <= n PROVE Upto(m + 1)
    BY <1>5
  <2>1. Upto(m)
    BY <1>5
  <2>2. m + 1 \in 0..n /\ m + 1 \in 1..n /\ (m + 1) - 1 = m /\ m + 1 # 0
    OBVIOUS
  <2>3. f[m + 1] = f[m] + a[m + 1] /\ h[m + 1] = h[m] + b[m + 1]
    BY <1>3, <2>2
  <2>4. a[m + 1] \in Nat /\ b[m + 1] \in Nat /\ a[m + 1] <= b[m + 1]
    BY <2>2
  <2>5. /\ f[m + 1] \in Nat /\ h[m + 1] \in Nat /\ f[m + 1] <= h[m + 1]
        /\ f[m + 1] = h[m + 1] <=> f[m] = h[m] /\ a[m + 1] = b[m + 1]
    <3> DEFINE fm == f[m]
               hm == h[m]
               am == a[m + 1]
               bm == b[m + 1]
    <3>1. /\ fm \in Nat /\ hm \in Nat /\ am \in Nat /\ bm \in Nat
          /\ fm <= hm /\ am <= bm
      BY <2>1, <2>4
    <3>2. f[m + 1] = fm + am /\ h[m + 1] = hm + bm
      BY <2>3
    <3> HIDE DEF fm, hm, am, bm
    <3>3. /\ fm + am \in Nat /\ hm + bm \in Nat /\ fm + am <= hm + bm
          /\ fm + am = hm + bm <=> fm = hm /\ am = bm
      BY <3>1
    <3> QED BY <3>2, <3>3 DEF fm, hm, am, bm
  <2>6. 1..(m + 1) = 1..m \cup {m + 1}
    OBVIOUS
  <2>7. f[m + 1] = h[m + 1] <=> \A i \in 1..(m + 1) : a[i] = b[i]
    BY <2>1, <2>5, <2>6
  <2> QED BY <2>5, <2>7
<1> HIDE DEF S
<1>6. n \in S
  BY <1>4, <1>5, Induction
<1>7. Upto(n)
  BY <1>6 DEF S
<1> QED BY <1>1, <1>2, <1>7

----------------------------------------------------------------------------
(* Progress.                                                               *)

\* Networks with at least one address between the network address and the
\* broadcast address, or at least these two: any but a point-to-point link.
WideNetworks ==
    \A ifaces \in InterfaceLists : \A i \in DOMAIN ifaces :
        ifaces[i].ip \notin LinkLocal =>
            \A limit \in Limits : Min({ifaces[i].size, limit}) >= 2

\* The cursor is at most one past the end.
SubnetCounted(sn) == sn.first <= sn.last /\ sn.current <= sn.last + 1

\* The subnets before the current one are done, and without subnets to sweep
\* there are none.
Counted(g) ==
    /\ \A i \in 1..Len(g.mSubnets) : SubnetCounted(g.mSubnets[i])
    /\ \A i \in 1..g.mSubnetIndex : ~SubnetHasNext(g.mSubnets[i])
    /\ g.mPriorityOnly => g.mSubnets = <<>>

\* Subnet::next goes no further than one past the end.
LEMMA AdvancedCounted ==
    ASSUME NEW sn \in SubnetType, NEW P, sn.first <= sn.last, SubnetHasNext(sn)
    PROVE  SubnetCounted(Advanced(sn, P))
<1>1. PICK n \in Int :
         /\ Advanced(sn, P) = [sn EXCEPT !.current = n]
         /\ sn.current <= sn.last => n <= sn.last + 1
  BY AdvancedSound
<1>2. n <= sn.last + 1
  BY <1>1 DEF SubnetHasNext
<1> QED BY <1>1, <1>2 DEF SubnetCounted, SubnetType

\* Neither does the constructor, in a network that is wide enough.
LEMMA SubnetOfCounted ==
    ASSUME NEW entry \in [ip : Addr, size : Nat \ {0}], NEW limit \in Nat \ {0}, NEW P,
           entry.ip \notin LinkLocal => Min({entry.size, limit}) >= 2
    PROVE  SubnetCounted(SubnetOf(entry, limit, P))
<1>1. entry.ip \in Addr /\ entry.ip \in Int /\ entry.size \in Nat \ {0}
  <2>1. entry.ip \in Addr /\ entry.size \in Nat \ {0}
    OBVIOUS
  <2> QED BY <2>1, AddrNat
<1>2. ASSUME NEW first \in Int, NEW last \in Int, first <= last
      PROVE  SubnetCounted(Subnet(first, last, entry.ip, P))
  <2> DEFINE sn == [first |-> first, current |-> first, last |-> last,
                    localHost |-> entry.ip]
  <2>1. sn \in SubnetType /\ sn.first <= sn.last /\ SubnetHasNext(sn)
    BY <1>1, <1>2 DEF SubnetType, SubnetHasNext
  <2>2. Subnet(first, last, entry.ip, P) = Advanced(sn, P)
    BY DEF Subnet
  <2> HIDE DEF sn
  <2> QED BY <2>1, <2>2, AdvancedCounted
<1>3. CASE entry.ip \in LinkLocal
  <2>1. FroniusAddress \in Int
    BY AddrNat
  <2> QED BY <1>2, <1>3, <2>1 DEF SubnetOf
<1>4. CASE entry.ip \notin LinkLocal
  <2> DEFINE size  == Min({entry.size, limit})
             first == entry.ip - (entry.ip % size)
             last  == first + size - 2
  <2>1. size \in Int /\ size >= 2
    BY <1>1, <1>4, PairBounds
  <2>2. SubnetOf(entry, limit, P) = Subnet(first, last, entry.ip, P)
    BY <1>4 DEF SubnetOf
  <2> HIDE DEF size
  <2>3. first \in Int
    BY <1>1, <2>1
  <2> HIDE DEF first
  <2>4. last \in Int /\ first <= last
    BY <2>1, <2>3
  <2> HIDE DEF last
  <2> QED BY <1>2, <2>2, <2>3, <2>4
<1> QED BY <1>3, <1>4

\* After a reset all subnets are ahead.
LEMMA ResetCounted ==
    ASSUME WideNetworks, interfaces \in InterfaceLists, NEW g \in GeneratorType,
           NEW limit \in Limits
    PROVE  Counted(Reset(g, limit))
<1> DEFINE P       == Exceptions(g)
           all     == [i \in DOMAIN interfaces |-> SubnetOf(interfaces[i], limit, P)]
           subnets == IF g.mPriorityOnly THEN <<>> ELSE all
           r       == Reset(g, limit)
<1>1. r = [g EXCEPT !.mPriorityIndex = 0, !.mSubnetIndex = 0, !.mSubnets = subnets]
  BY DEF Reset
<1>2. /\ r.mPriorityOnly = g.mPriorityOnly /\ r.mSubnetIndex = 0
      /\ r.mSubnets = subnets
  BY <1>1 DEF GeneratorType
<1>3. \A i \in DOMAIN interfaces : SubnetCounted(SubnetOf(interfaces[i], limit, P))
  <2> TAKE i \in DOMAIN interfaces
  <2>1. interfaces[i] \in [ip : Addr, size : Nat \ {0}] /\ limit \in Nat \ {0}
    BY EntryIs, LimitsPositive
  <2>2. interfaces[i].ip \notin LinkLocal => Min({interfaces[i].size, limit}) >= 2
    BY DEF WideNetworks
  <2> HIDE DEF P
  <2> QED BY <2>1, <2>2, SubnetOfCounted
<1>4. \A i \in 1..Len(subnets) : SubnetCounted(subnets[i])
  <2>1. CASE g.mPriorityOnly
    BY <2>1
  <2>2. CASE ~g.mPriorityOnly
    <3>1. DOMAIN interfaces = 1..Len(interfaces) /\ Len(interfaces) \in Nat
      BY EntryIs
    <3>2. Len(all) = Len(interfaces)
      BY <3>1
    <3>3. \A i \in DOMAIN interfaces : all[i] = SubnetOf(interfaces[i], limit, P)
      OBVIOUS
    <3> HIDE DEF all
    <3> QED BY <1>3, <2>2, <3>1, <3>2, <3>3
  <2> QED BY <2>1, <2>2
<1>5. r.mPriorityOnly => r.mSubnets = <<>>
  BY <1>2
<1>6. 1..r.mSubnetIndex = {}
  BY <1>2
<1> HIDE DEF r, subnets
<1> QED BY <1>2, <1>4, <1>5, <1>6 DEF Counted, r

\* next() passes a subnet when it has no more.
LEMMA NextCounted ==
    ASSUME NEW g, GeneratorOK(g), Counted(g), HasNext(g)
    PROVE  Counted(AfterNext(g))
<1>0. GeneratorOK(g) => g \in GeneratorType
  BY DEF GeneratorOK
<1>1. CASE InPriority(g)
  <2>1. AfterNext(g) = [g EXCEPT !.mPriorityIndex = @ + 1]
    BY <1>1 DEF AfterNext
  <2>2. /\ AfterNext(g).mSubnets = g.mSubnets /\ AfterNext(g).mSubnetIndex = g.mSubnetIndex
        /\ AfterNext(g).mPriorityOnly = g.mPriorityOnly
    BY <1>0, <2>1 DEF GeneratorType
  <2> QED BY <2>2 DEF Counted
<1>2. CASE ~InPriority(g)
  <2> DEFINE i == Min(OpenSubnets(g))
             s == g.mSubnets
             a == Advanced(s[i], Exceptions(g))
             h == AfterNext(g)
  <2>1. OpenSubnets(g) # {}
    BY <1>2 DEF HasNext
  <2>2. /\ i \in (g.mSubnetIndex + 1)..Len(s) /\ SubnetHasNext(s[i])
        /\ \A j \in (g.mSubnetIndex + 1)..Len(s) : j < i => ~SubnetHasNext(s[j])
    BY <2>1, OpenSubnetFirst
  <2>3. h = [g EXCEPT !.mSubnetIndex = i - 1, !.mSubnets[i] = a]
    BY <1>2 DEF AfterNext
  <2>4. /\ s \in Seq(SubnetType) /\ Len(s) \in Nat /\ g.mSubnetIndex \in 0..Len(s)
        /\ g \in GeneratorType
    BY <1>0, GeneratorFields
  <2> HIDE DEF i
  <2>5. i \in 1..Len(s) /\ i \in Int
    BY <2>2, <2>4
  <2>6. SubnetCounted(a)
    <3>1. s[i] \in SubnetType /\ s[i].first <= s[i].last
      BY <2>4, <2>5 DEF Counted, SubnetCounted
    <3> QED BY <2>2, <3>1, AdvancedCounted
  <2> HIDE DEF a
  <2>7. /\ h.mPriorityOnly = g.mPriorityOnly /\ h.mSubnetIndex = i - 1
        /\ h.mSubnets = [s EXCEPT ![i] = a]
    BY <2>3, <2>4 DEF GeneratorType
  <2>8. /\ Len(h.mSubnets) = Len(s)
        /\ \A j \in 1..Len(s) : h.mSubnets[j] = IF j = i THEN a ELSE s[j]
    BY <2>4, <2>5, <2>7
  <2>9. \A j \in 1..Len(h.mSubnets) : SubnetCounted(h.mSubnets[j])
    BY <2>6, <2>8 DEF Counted
  <2>10. \A j \in 1..h.mSubnetIndex : ~SubnetHasNext(h.mSubnets[j])
    <3> SUFFICES ASSUME NEW j \in 1..(i - 1) PROVE ~SubnetHasNext(h.mSubnets[j])
      BY <2>7
    <3>1. j \in 1..Len(s) /\ j # i /\ j < i
      BY <2>4, <2>5
    <3>2. h.mSubnets[j] = s[j]
      BY <2>8, <3>1
    <3>3. CASE j <= g.mSubnetIndex
      <4>1. j \in 1..g.mSubnetIndex
        BY <2>4, <3>1, <3>3
      <4> QED BY <3>2, <4>1 DEF Counted
    <3>4. CASE ~(j <= g.mSubnetIndex)
      <4>1. j \in (g.mSubnetIndex + 1)..Len(s)
        BY <2>4, <3>1, <3>4
      <4> QED BY <2>2, <3>1, <3>2, <4>1
    <3> QED BY <3>3, <3>4
  <2>11. ~g.mPriorityOnly
    <3>1. s # <<>>
      BY <2>5
    <3> QED BY <3>1 DEF Counted
  <2> HIDE DEF h
  <2> QED BY <2>7, <2>9, <2>10, <2>11 DEF Counted, h
<1> QED BY <1>1, <1>2

\* What is done and what is to be done in all agree when there is nothing left.
LEMMA DoneIs ==
    ASSUME NEW g, GeneratorOK(g), Counted(g)
    PROVE  /\ Done(g) \in Nat /\ Total(g) \in Nat /\ Done(g) <= Total(g)
           /\ Done(g) = Total(g) <=> ~HasNext(g)
<1> DEFINE k == g.mPriorityIndex
           l == Len(g.mPriorityAddresses)
           s == g.mSubnets
           n == Len(s)
           a == Positions(g)
           b == Sizes(g)
<1>1. /\ l \in Nat /\ k \in 0..l /\ n \in Nat /\ g.mSubnetIndex \in 0..n
      /\ s \in Seq(SubnetType) /\ DOMAIN s = 1..n
  BY GeneratorFields
<1>2. InPriority(g) <=> k < l
  BY DEF InPriority
<1>3. CASE g.mPriorityOnly
  <2>1. OpenSubnets(g) = {}
    <3>1. n = 0
      BY <1>3 DEF Counted
    <3> QED BY <1>1, <3>1 DEF OpenSubnets
  <2>2. Done(g) = k + 0 /\ Total(g) = l + 0
    BY <1>3 DEF Done, Total
  <2> QED BY <1>1, <1>2, <2>1, <2>2 DEF HasNext
<1>4. CASE ~g.mPriorityOnly
  <2>1. ASSUME NEW i \in 1..n
        PROVE  /\ a[i] \in Nat /\ b[i] \in Nat /\ a[i] <= b[i]
               /\ a[i] = b[i] <=> ~SubnetHasNext(s[i])
    <3>1. /\ s[i] \in SubnetType /\ s[i].current > s[i].first
          /\ s[i].current <= s[i].last + 1
      BY <1>1 DEF GeneratorOK, SubnetOK, Counted, SubnetCounted
    <3>2. a[i] = s[i].current - s[i].first /\ b[i] = s[i].last - s[i].first + 1
      BY <1>1 DEF Positions, Sizes, SubnetPosition, SubnetSize
    <3>3. s[i].current \in Int /\ s[i].first \in Int /\ s[i].last \in Int
      BY <3>1 DEF SubnetType
    <3> HIDE DEF a, b, s
    <3> QED BY <3>1, <3>2, <3>3 DEF SubnetHasNext
  <2>2. Len(a) = n /\ Len(b) = n
    BY <1>1 DEF Positions, Sizes
  <2>3. /\ AddedUp(a) \in Nat /\ AddedUp(b) \in Nat /\ AddedUp(a) <= AddedUp(b)
        /\ AddedUp(a) = AddedUp(b) <=> \A i \in 1..n : a[i] = b[i]
    <3>1. \A i \in 1..n : a[i] \in Nat /\ b[i] \in Nat /\ a[i] <= b[i]
      BY <2>1
    <3>2. n \in Nat
      BY <1>1
    <3> HIDE DEF a, b, n
    <3> QED BY <2>2, <3>1, <3>2, AddedUpCompare
  <2>4. (\A i \in 1..n : a[i] = b[i]) <=> OpenSubnets(g) = {}
    <3>1. (\A i \in 1..n : a[i] = b[i]) <=> \A i \in 1..n : ~SubnetHasNext(s[i])
      BY <2>1
    <3>2. \A i \in 1..n : i \in 1..g.mSubnetIndex \/ i \in (g.mSubnetIndex + 1)..n
      BY <1>1
    <3>3. (g.mSubnetIndex + 1)..n \subseteq 1..n
      BY <1>1
    <3>4. \A i \in 1..g.mSubnetIndex : ~SubnetHasNext(s[i])
      BY DEF Counted
    <3> HIDE DEF a, b
    <3> QED BY <3>1, <3>2, <3>3, <3>4 DEF OpenSubnets
  <2>5. Done(g) = k + AddedUp(a) /\ Total(g) = l + AddedUp(b)
    BY <1>4 DEF Done, Total
  <2>6. HasNext(g) <=> k < l \/ OpenSubnets(g) # {}
    BY <1>2 DEF HasNext
  <2> DEFINE x == AddedUp(a)
             y == AddedUp(b)
  <2>7. x \in Nat /\ y \in Nat /\ x <= y /\ (x = y <=> OpenSubnets(g) = {})
    BY <2>3, <2>4
  <2>8. Done(g) = k + x /\ Total(g) = l + y /\ l \in Nat /\ k \in 0..l
    BY <1>1, <2>5
  <2> HIDE DEF x, y, k, l
  <2> QED BY <2>6, <2>7, <2>8
<1> QED BY <1>3, <1>4

\* A percentage is 100 when all is done.
LEMMA Percentage ==
    ASSUME NEW d \in Nat, NEW t \in Nat \ {0}, d <= t
    PROVE  /\ (100 * d) \div t \in 0..100
           /\ (100 * d) \div t = 100 <=> d = t
<1> DEFINE q == (100 * d) \div t
<1>1. q \in Int /\ t * q <= 100 * d /\ 100 * d < t * q + t
  OBVIOUS
<1> HIDE DEF q
<1>2. q <= 100
  <2> SUFFICES ASSUME q >= 101 PROVE FALSE
    BY <1>1
  <2>1. t * q >= t * 101
    BY <1>1
  <2> QED BY <1>1, <2>1
<1>3. q >= 0
  <2> SUFFICES ASSUME q <= -1 PROVE FALSE
    BY <1>1
  <2>1. t * q <= t * (-1)
    BY <1>1
  <2> QED BY <1>1, <2>1
<1>4. d = t => q = 100
  <2> SUFFICES ASSUME d = t, q <= 99 PROVE FALSE
    BY <1>1, <1>2
  <2>1. t * q <= t * 99
    BY <1>1
  <2> QED BY <1>1, <2>1
<1>5. q = 100 => d = t
  BY <1>1
<1> QED BY <1>1, <1>2, <1>3, <1>4, <1>5 DEF q

----------------------------------------------------------------------------
(* Theorems.                                                               *)

\* The members of the generator have their types, its indices are within its
\* lists, and what it hands out are addresses.
THEOREM TypeCorrect == Spec => []TypeOK
<1>1. IInv => TypeOK
  BY DEF IInv
<1> QED BY <1>1, Invariance, PTL

\* hasNext() is exact, so next() never reaches its Q_ASSERT(false).
THEOREM HasNextIsExact == Spec => []HasNextExact
<1>1. IInv => HasNextExact
  <2> SUFFICES ASSUME IInv PROVE HasNextExact
    OBVIOUS
  <2>1. GeneratorOK(gen)
    BY DEF IInv
  <2> QED BY <2>1, HasNextIs, TodoIs DEF HasNextExact, HasNext
<1> QED BY <1>1, Invariance, PTL

\* The progress of a scan is a percentage, which is 100 when the last address
\* was handed out, and not before, for any networks but point-to-point links.
THEOREM ProgressIsComplete ==
    ASSUME WideNetworks
    PROVE  Spec => []ProgressComplete
<1>1. Init => Counted(gen)
  <2> SUFFICES ASSUME Init PROVE Counted(gen)
    OBVIOUS
  <2>1. interfaces \in InterfaceLists /\ gen = Reset(New, Cardinality(Addr))
    BY DEF Init, New
  <2>2. New \in GeneratorType /\ Cardinality(Addr) \in Limits
    BY DEF New, GeneratorType, Limits
  <2> HIDE DEF New
  <2> QED BY <2>1, <2>2, ResetCounted
<1>2. IInv /\ Counted(gen) /\ [Next]_vars => Counted(gen)'
  <2> SUFFICES ASSUME IInv, Counted(gen), [Next]_vars PROVE Counted(gen')
    BY DEF Counted, SubnetCounted, SubnetHasNext
  <2>1. GeneratorOK(gen) /\ interfaces \in InterfaceLists
    BY DEF IInv, TypeOK
  <2>2. CASE Restart
    <3>1. PICK addresses \in PriorityLists, only \in BOOLEAN :
            gen' = Reset(SetPriorityOnly(SetPriorityAddresses(gen, addresses), only),
                         LimitSize)
      BY <2>2 DEF Restart
    <3> DEFINE b == SetPriorityOnly(SetPriorityAddresses(gen, addresses), only)
    <3>2. b \in GeneratorType
      BY <2>1, RestartTyped
    <3>3. LimitSize \in Limits
      BY DEF Limits
    <3> HIDE DEF b
    <3>4. Counted(Reset(b, LimitSize))
      BY <2>1, <3>2, <3>3, ResetCounted
    <3> QED BY <3>1, <3>4 DEF b
  <2>3. CASE NextHost
    BY <2>1, <2>3, NextCounted DEF NextHost
  <2>4. CASE InterfacesChange \/ UNCHANGED vars
    BY <2>4 DEF InterfacesChange, vars
  <2> QED BY <2>2, <2>3, <2>4 DEF Next
<1>3. IInv /\ Counted(gen) => ProgressComplete
  <2> SUFFICES ASSUME IInv, Counted(gen), Total(gen) > 0
               PROVE  Progress(gen, 0) = 100 <=> ~HasNext(gen)
    BY DEF ProgressComplete
  <2>1. /\ Done(gen) \in Nat /\ Total(gen) \in Nat /\ Done(gen) <= Total(gen)
        /\ Done(gen) = Total(gen) <=> ~HasNext(gen)
    BY DoneIs DEF IInv
  <2>2. Max({0, Done(gen) - 0}) = Done(gen)
    BY <2>1, PairBounds
  <2>3. Progress(gen, 0) = (100 * Done(gen)) \div Total(gen)
    BY <2>1, <2>2 DEF Progress
  <2> QED BY <2>1, <2>3, Percentage
<1> QED BY <1>1, <1>2, <1>3, Invariance, PTL DEF Spec

\* The hosts of the networks, as the refinement takes them.
LEMMA NetworksTyped ==
    ASSUME interfaces \in InterfaceLists, NEW limit \in Limits
    PROVE  Networks(limit) \subseteq Nat \X Addr
<1> SUFFICES ASSUME NEW p \in Networks(limit) PROVE p \in Nat \X Addr
  OBVIOUS
<1> DEFINE i == p[1]
           c == p[2]
<1>1. p = <<i, c>>
  BY NetworksAre
<1> HIDE DEF i, c
<1>2. i \in DOMAIN interfaces /\ c \in HostsOf(interfaces[i], limit)
  BY <1>1, NetworksAre
<1>3. i \in Nat /\ c \in Addr
  BY <1>2, EntryIs
<1> QED BY <1>1, <1>3

\* What there is to do has its type.
LEMMA TodoTyped ==
    ASSUME NEW g, GeneratorOK(g)
    PROVE  TodoOf(g) \in [priority : SUBSET Addr, sweep : SUBSET (Nat \X Addr)]
<1>1. TodoOf(g).priority \subseteq Addr
  <2> DEFINE q == g.mPriorityAddresses
             n == Len(q)
             k == g.mPriorityIndex
  <2>1. /\ k \in Nat /\ n \in Nat
        /\ \A i \in 1..n : q[i] \in Addr
    BY GeneratorFields
  <2>2. TodoOf(g).priority = {q[i] : i \in (k + 1)..n}
    BY DEF TodoOf
  <2> HIDE DEF q, n, k
  <2> QED BY <2>1, <2>2
<1>2. TodoOf(g).sweep \subseteq Nat \X Addr
  <2> SUFFICES ASSUME NEW p \in TodoOf(g).sweep PROVE p \in Nat \X Addr
    OBVIOUS
  <2> DEFINE i == p[1]
             c == p[2]
  <2>1. p = <<i, c>>
    BY SweepIs
  <2> HIDE DEF i, c
  <2>2. /\ i \in (g.mSubnetIndex + 1)..Len(g.mSubnets)
        /\ c \in Left(g.mSubnets[i], Exceptions(g))
    BY <2>1, SweepIs
  <2>3. i \in 1..Len(g.mSubnets)
    BY <2>2, GeneratorFields
  <2>4. SubnetOK(g.mSubnets[i], Exceptions(g))
    BY <2>3 DEF GeneratorOK
  <2>5. c \in Addr
    <3> DEFINE sn == g.mSubnets[i]
               P  == Exceptions(g)
    <3> HIDE DEF sn, P
    <3>1. SubnetOK(sn, P) /\ c \in Left(sn, P)
      BY <2>2, <2>4 DEF sn, P
    <3>2. c \in Hosts(sn)
      BY <3>1 DEF SubnetOK, SubnetType, Left, Excluded, Hosts
    <3> QED BY <3>1, <3>2 DEF SubnetOK
  <2>6. i \in Nat
    BY <2>3
  <2> QED BY <2>1, <2>5, <2>6
<1>3. TodoOf(g) = [priority |-> TodoOf(g).priority, sweep |-> TodoOf(g).sweep]
  BY DEF TodoOf
<1> QED BY <1>1, <1>2, <1>3

\* The iterator implements its contract: behind indices, cursors and exceptions
\* each host of each network is handed out, once, after the priority addresses,
\* also when the gateway restarts it in the middle with other addresses.
THEOREM ImplementsSweep == Spec => Sweeps
<1>1. Init => Sweep!Init
  <2> SUFFICES ASSUME Init PROVE Sweep!Init
    OBVIOUS
  <2>1. /\ GeneratorOK(gen)
        /\ TodoOf(gen).priority = {}
        /\ interfaces \in InterfaceLists /\ issued = {}
    BY InitIs DEF Init
  <2>2. LimitSize \in Limits
    BY DEF Limits
  <2> QED BY <2>1, <2>2, TodoIs, TodoTyped, NetworksTyped
          DEF Sweep!Init, Sweep!TypeOK, Networks
<1>2. Todo' = TodoOf(gen')
  BY DEF Todo, TodoOf, Remaining, Left, Excluded, Exceptions
<1>3. IInv /\ IInv' /\ [Next]_vars
        => [Sweep!Next]_<<Networks(LimitSize), Todo, issued>>
  <2> SUFFICES ASSUME IInv, IInv', [Next]_vars
               PROVE  Sweep!Next \/ UNCHANGED <<Networks(LimitSize), Todo, issued>>
    OBVIOUS
  <2>1. GeneratorOK(gen) /\ interfaces \in InterfaceLists /\ issued \subseteq Addr
    BY DEF IInv, TypeOK
  <2>2. interfaces' \in InterfaceLists /\ issued' \subseteq Addr
    BY DEF IInv, TypeOK
  <2>3. LimitSize \in Limits
    BY DEF Limits
  <2>4. CASE Restart
    <3>1. /\ UNCHANGED interfaces /\ GeneratorOK(gen') /\ issued' = {}
          /\ \E addresses \in PriorityLists, only \in BOOLEAN :
                TodoOf(gen') =
                   [priority |-> Range(addresses),
                    sweep |-> IF only THEN {}
                              ELSE {p \in Networks(LimitSize) : p[2] \notin Range(addresses)}]
      BY <2>4, RestartIs
    <3>2. PICK list \in PriorityLists, all \in BOOLEAN :
             Todo' = [priority |-> Range(list),
                      sweep |-> IF all
                                THEN {p \in Networks(LimitSize) : p[2] \notin Range(list)}
                                ELSE {}]
      <4>1. PICK addresses \in PriorityLists, only \in BOOLEAN :
                TodoOf(gen') =
                   [priority |-> Range(addresses),
                    sweep |-> IF only THEN {}
                              ELSE {p \in Networks(LimitSize) : p[2] \notin Range(addresses)}]
        BY <3>1
      <4> DEFINE P   == Range(addresses)
                 S   == {p \in Networks(LimitSize) : p[2] \notin P}
                 all == ~only
      <4>2. Todo' = [priority |-> P, sweep |-> IF only THEN {} ELSE S]
        BY <1>2, <4>1
      <4>3. Todo' = [priority |-> P, sweep |-> IF all THEN S ELSE {}]
        <5> HIDE DEF P, S
        <5> QED BY <4>2
      <4>4. all \in BOOLEAN
        OBVIOUS
      <4> HIDE DEF all
      <4> QED BY <4>3, <4>4
    <3>3. Networks(LimitSize)' = Networks(LimitSize)
      BY <3>1 DEF Networks
    <3>4. Sweep!TypeOK'
      <4>1. Todo' \in [priority : SUBSET Addr, sweep : SUBSET (Nat \X Addr)]
        BY <1>2, <3>1, TodoTyped
      <4>2. Networks(LimitSize)' \subseteq Nat \X Addr
        BY <2>1, <2>3, <3>3, NetworksTyped
      <4> QED BY <2>2, <4>1, <4>2 DEF Sweep!TypeOK, Networks
    <3>5. Todo'.priority = Range(list)
      BY <3>2
    <3>6. Sweep!Restarted(Todo'.priority \cup {}, all) = Todo'
      BY <3>2, <3>5 DEF Sweep!Restarted, Networks
    <3>7. Sweep!Take(Sweep!Restarted(Todo'.priority \cup {}, all), {})
      BY <3>1, <3>6 DEF Sweep!Take
    <3>8. Sweep!Restart
      BY <3>3, <3>4, <3>7 DEF Sweep!Restart, Networks
    <3> QED BY <3>8 DEF Sweep!Next
  <2>5. CASE NextHost
    <3> DEFINE a == NextAddress(gen)
               T == Todo
               U == Todo'
    <3>1. /\ UNCHANGED interfaces
          /\ issued' = issued \cup {a}
          /\ \/ /\ a \in T.priority
                /\ U.priority = T.priority \ {a}
                /\ U.sweep = T.sweep
             \/ /\ T.priority = {} /\ U.priority = {}
                /\ \E i : <<i, a>> \in T.sweep /\ U.sweep = T.sweep \ {<<i, a>>}
      BY <1>2, <2>1, <2>5, TodoIs, NextHostIs
    <3> HIDE DEF a, T, U
    <3>2. /\ U.priority \subseteq T.priority
          /\ U.sweep \subseteq T.sweep
          /\ U.priority # {} => U.sweep = T.sweep
      BY <3>1
    <3>3. issued' = issued \cup (T.priority \ U.priority)
                           \cup {p[2] : p \in T.sweep \ U.sweep}
      <4>1. CASE /\ a \in T.priority
                 /\ U.priority = T.priority \ {a}
                 /\ U.sweep = T.sweep
        BY <3>1, <4>1
      <4>2. CASE /\ T.priority = {} /\ U.priority = {}
                 /\ \E i : <<i, a>> \in T.sweep /\ U.sweep = T.sweep \ {<<i, a>>}
        <5>1. PICK i : <<i, a>> \in T.sweep /\ U.sweep = T.sweep \ {<<i, a>>}
          BY <4>2
        <5>2. T.sweep \ U.sweep = {<<i, a>>}
          BY <5>1
        <5>3. {p[2] : p \in T.sweep \ U.sweep} = {a}
          <6>1. {p[2] : p \in {<<i, a>>}} = {a}
            <7>1. <<i, a>>[2] = a
              OBVIOUS
            <7> QED BY <7>1
          <6> QED BY <5>2, <6>1
        <5> QED BY <3>1, <4>2, <5>3
      <4> QED BY <3>1, <4>1, <4>2
    <3>4. Sweep!Take(Todo, issued)
      BY <3>2, <3>3 DEF Sweep!Take, T, U
    <3>5. Sweep!Issue
      BY <3>1, <3>4 DEF Sweep!Issue
    <3> QED BY <3>5 DEF Sweep!Next
  <2>6. CASE InterfacesChange
    <3>1. UNCHANGED <<gen, issued>>
      BY <2>6 DEF InterfacesChange
    <3>2. Todo' = Todo
      BY <1>2, <3>1, TodoIs
    <3>3. Networks(LimitSize)' \subseteq Nat \X Addr
      <4>1. \A i \in DOMAIN interfaces' : HostsOf(interfaces'[i], LimitSize) \subseteq Addr
        BY <2>2, NetworkAssumption
      <4>2. DOMAIN interfaces' \subseteq Nat
        <5> DEFINE E == [ip : Addr, size : Nat \ {0}]
        <5>1. interfaces' \in Seq(E)
          BY <2>2, EntryAssumption
        <5> HIDE DEF E
        <5> QED BY <5>1
      <4> QED BY <4>1, <4>2 DEF Networks
    <3>4. Sweep!NetworkChange
      BY <3>1, <3>2, <3>3 DEF Sweep!NetworkChange, Networks
    <3> QED BY <3>4 DEF Sweep!Next
  <2>7. CASE UNCHANGED vars
    <3>1. UNCHANGED <<interfaces, gen, issued>>
      BY <2>7 DEF vars
    <3>2. Todo' = Todo
      BY <1>2, <3>1, TodoIs
    <3>3. Networks(LimitSize)' = Networks(LimitSize)
      BY <3>1 DEF Networks
    <3> QED BY <3>1, <3>2, <3>3
  <2> QED BY <2>4, <2>5, <2>6, <2>7 DEF Next
<1>4. [Sweep!Next]_<<Networks(LimitSize), Todo, issued>> =>
        [Sweep!Next]_<<UNION {{i} \X HostsOf(interfaces[i], LimitSize) :
                                 i \in DOMAIN interfaces}, Todo, issued>>
  BY DEF Networks
<1> QED BY <1>1, <1>3, <1>4, Invariance, PTL DEF Spec, Sweeps, Sweep!Spec
=============================================================================
