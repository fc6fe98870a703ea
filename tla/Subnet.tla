--------------------------------- MODULE Subnet ---------------------------------
(***************************************************************************)
(* The in-memory IPAM: the Subnet of pkg/ipam/subnet.go, over the range    *)
(* lists of IPRanges.  A subnet gives pods an address of its choice, or    *)
(* the one they ask for, with a MAC address, and takes both back.          *)
(*                                                                         *)
(* The mutex of Subnet makes each operation one step.  A call that returns *)
(* an error before it has changed anything is a stutter.  An address is    *)
(* written one way only, so that the code's comparisons of strings and of  *)
(* numbers agree.                                                          *)
(***************************************************************************)
EXTENDS IPRanges, Functions

CONSTANTS
    Pod,        \* pod names
    Mac,        \* MAC addresses, those pods ask for and those GenerateMac makes up
    Nil,        \* no pod, no address: a missing key of a map
    Args,       \* the arguments of NewSubnet: [base, size] with the addresses to exclude
    MaxMoves,   \* bound: how often a pod with an address gets another one
    MaxPhantoms \* bound: how often an address is given away that is not free

ASSUME SubnetAssumption ==
    /\ Nil \notin Pod /\ Nil \notin Mac /\ Nil \notin IPs
    /\ \A a \in Args :
        /\ a.cidr.base \in IPs /\ a.cidr.size \in Nat \ {0}
        /\ a.cidr.base + a.cidr.size <= Top
        /\ a.excludeIps \in Seq(IPs)
    /\ MaxMoves \in Nat /\ MaxPhantoms \in Nat

VARIABLES
    cidr,       \* CIDR
    reserved,   \* ReservedIPList
    made,       \* the free list that NewSubnet made
    free,       \* FreeIPList
    PodToIP, IPToPod, PodToMac, MacToPod,
    told,       \* told[p]: the address of the last answer p got, until it is released
    moves,      \* how often a pod was given another address while it had one
    tail,       \* the last address of a longer free range has been taken out of it
    phantoms,   \* how often an address was given away that was not free, or not usable
    clash       \* GenerateMac has made up an address that was in use

ipVars == <<free, PodToIP, IPToPod, told, moves, tail, phantoms>>
macVars == <<PodToMac, MacToPod, clash>>
subnetVars == <<cidr, reserved, made, ipVars, macVars>>

SubnetTypeOK ==
    /\ cidr \in {a.cidr : a \in Args}
    /\ {reserved, made, free} \subseteq Seq(IPRange)
    /\ PodToIP \in [Pod -> IPs \cup {Nil}]
    /\ IPToPod \in [IPs -> Pod \cup {Nil}]
    /\ PodToMac \in [Pod -> Mac \cup {Nil}]
    /\ MacToPod \in [Mac -> Pod \cup {Nil}]
    /\ told \in [Pod -> IPs \cup {Nil}]
    /\ moves \in 0 .. MaxMoves
    /\ phantoms \in 0 .. MaxPhantoms
    /\ {tail, clash} \subseteq BOOLEAN

--------------------------------------------------------------------------------
(***************************************************************************)
(* NewSubnet                                                               *)
(***************************************************************************)

Block(c) == c.base .. c.base + c.size - 1
GetFirstIP(c) == Add(c.base, 1)
GetLastIP(c) == Sub(c.base + c.size - 1, 1)

\* A range is added to a list, or joined with the last range of it.
Join(l, r) ==
    IF l # <<>> /\ Add(l[Len(l)].end, 1) = r.start
    THEN [l EXCEPT ![Len(l)].end = r.end]
    ELSE Append(l, r)

\* The ranges of l, one after the other, joined where they touch: what the loop has made
\* of the first k of them, and of all.
Joins(l) == LET j[k \in 0 .. Len(l)] == IF k = 0 THEN <<>> ELSE Join(j[k - 1], l[k]) IN j
Joined(l) == Joins(l)[Len(l)]

\* sort.Sort: ips in ascending order.
Sorted(ips) ==
    {s \in {[i \in DOMAIN ips |-> ips[f[i]]] : f \in Bijection(DOMAIN ips, DOMAIN ips)} :
        \A i, j \in DOMAIN s : i < j => s[i] <= s[j]}

\* The range lists of a list of addresses: one for each way to sort it, and these agree.
GetIPRangeList(ips) == {Joined([i \in DOMAIN s |-> Rg(s[i], s[i])]) : s \in Sorted(ips)}

\* The sequences of ss, one after the other: those of the first k, and all.
Concats(ss) == LET c[k \in 0 .. Len(ss)] == IF k = 0 THEN <<>> ELSE c[k - 1] \o ss[k] IN c
Concat(ss) == Concats(ss)[Len(ss)]

\* The ranges of f without those of b.
Cut(f, b) == Concat([i \in DOMAIN f |-> splitRange(f[i], b)])

Cuts(l, reserves) ==
    LET c[k \in 0 .. Len(reserves)] == IF k = 0 THEN l ELSE Cut(c[k - 1], reserves[k]) IN c

splitFreeWithReserve(l, reserves) == Cuts(l, reserves)[Len(reserves)]

NewSubnet(c, excludeIps) ==
    /\ cidr = c
    /\ reserved \in GetIPRangeList(excludeIps)
    /\ made = splitFreeWithReserve(<<Rg(GetFirstIP(c), GetLastIP(c))>>, reserved)
    /\ free = made
    /\ PodToIP = [p \in Pod |-> Nil]
    /\ IPToPod = [ip \in IPs |-> Nil]
    /\ PodToMac = [p \in Pod |-> Nil]
    /\ MacToPod = [m \in Mac |-> Nil]
    /\ told = [p \in Pod |-> Nil]
    /\ moves = 0 /\ phantoms = 0
    /\ tail = FALSE /\ clash = FALSE

SubnetInit == \E a \in Args : NewSubnet(a.cidr, a.excludeIps)

--------------------------------------------------------------------------------
(***************************************************************************)
(* MAC addresses                                                           *)
(***************************************************************************)

RecordMac(p, m) ==
    /\ PodToMac' = [PodToMac EXCEPT ![p] = m]
    /\ MacToPod' = [MacToPod EXCEPT ![m] = p]

\* A pod keeps its address; a new one is random, and nothing looks whether it is taken.
GetRandomMac(p) ==
    IF PodToMac[p] # Nil THEN UNCHANGED macVars
    ELSE \E m \in Mac : RecordMac(p, m) /\ clash' = (clash \/ MacToPod[m] # Nil)

\* The address of another pod is taken (mutant of GetStaticMac).
GetStaticMacTaken(p, m) == RecordMac(p, m) /\ UNCHANGED clash

\* An address in use, be it by the pod itself, is refused.
GetStaticMac(p, m) ==
    /\ MacToPod[m] = Nil
    /\ RecordMac(p, m)
    /\ UNCHANGED clash

--------------------------------------------------------------------------------
(***************************************************************************)
(* Addresses                                                               *)
(***************************************************************************)

\* p gets ip, whether or not it has an address.
RecordIP(p, ip) ==
    /\ PodToIP' = [PodToIP EXCEPT ![p] = ip]
    /\ IPToPod' = [IPToPod EXCEPT ![ip] = p]
    /\ told' = [told EXCEPT ![p] = ip]
    /\ moves' = IF PodToIP[p] = Nil THEN moves ELSE moves + 1
    /\ moves' <= MaxMoves

\* The addresses of the subnet that are for pods: all but the first and the last.
Usable == cidr.base + 1 .. cidr.base + cidr.size - 2

\* ip, where a free range starts or which is in one, is taken from the free list.
TakeIP(p, ip) ==
    /\ RecordIP(p, ip)
    /\ phantoms' = IF ip \in Members(free) \cap Usable THEN phantoms ELSE phantoms + 1
    /\ phantoms' <= MaxPhantoms

\* The free list without the address that its first range starts with.
FirstTaken(l) ==
    IF l[1].start = l[1].end THEN Tail(l) ELSE [l EXCEPT ![1].start = Add(@, 1)]

GetRandomAddress(p) ==
    \/ /\ PodToIP[p] # Nil
       /\ told' = [told EXCEPT ![p] = PodToIP[p]]
       /\ UNCHANGED <<cidr, reserved, made, free, PodToIP, IPToPod, moves, tail, phantoms, macVars>>
    \/ /\ PodToIP[p] = Nil /\ free # <<>>
       /\ GetRandomMac(p)
       /\ TakeIP(p, free[1].start)
       /\ free' = FirstTaken(free)
       /\ UNCHANGED <<cidr, reserved, made, tail>>

\* The end of a longer range is asked for.
CutsTail(l, ip) == \E i \in Hits(l, ip) : l[i].end = ip /\ l[i].start < ip

\* A free address is taken out of the free list.
TakeFree(p, ip) ==
    /\ Hits(free, ip) # {}
    /\ TakeIP(p, ip)
    /\ free' = SplitIPRangeList(free, ip)
    /\ tail' = (tail \/ CutsTail(free, ip))

\* The pod that has the address is not looked up (mutant of StaticIP).
StaticIPUnchecked(p, ip) ==
    IF ip \in Members(reserved)
    THEN RecordIP(p, ip) /\ UNCHANGED <<free, tail, phantoms>>
    ELSE TakeFree(p, ip) \/ (Hits(free, ip) = {} /\ UNCHANGED ipVars)

\* An address that is taken is given to the pod that has it, and refused to others; a
\* reserved one is given to whoever asks first; any other must be free.
StaticIP(p, ip) ==
    \/ /\ IPToPod[ip] = p
       /\ told' = [told EXCEPT ![p] = ip]
       /\ UNCHANGED <<free, PodToIP, IPToPod, moves, tail, phantoms>>
    \/ /\ IPToPod[ip] \notin {p, Nil}
       /\ UNCHANGED ipVars
    \/ /\ IPToPod[ip] = Nil /\ ip \in Members(reserved)
       /\ RecordIP(p, ip)
       /\ UNCHANGED <<free, tail, phantoms>>
    \/ /\ IPToPod[ip] = Nil /\ ip \notin Members(reserved)
       /\ TakeFree(p, ip) \/ (Hits(free, ip) = {} /\ UNCHANGED ipVars)

\* The MAC address comes first and stays when the IP address is refused.
GetStaticAddress(p, ip, mac) ==
    /\ ip \in Block(cidr)
    /\ IF mac = Nil THEN GetRandomMac(p) ELSE GetStaticMac(p, mac)
    /\ StaticIP(p, ip)
    /\ UNCHANGED <<cidr, reserved, made>>

\* The free list with ip, which is in none of its ranges, put in its place.
Inserted(l, ip) ==
    LET later == {i \in DOMAIN l : l[i].start > ip}
        k == IF later = {} THEN Len(l) + 1 ELSE CHOOSE i \in later : \A j \in later : i <= j
        before == Concat([i \in 1 .. k - 1 |-> IF l[i].start < ip THEN <<l[i]>> ELSE <<>>])
    IN  before \o <<Rg(ip, ip)>> \o SubSeq(l, k, Len(l))

MergeIPRangeList(l, ip) == IF ip \in Members(l) THEN l ELSE Joined(Inserted(l, ip))

\* A reserved address is freed as well (mutant of Freed).
FreedReserved(ip) == IF ip \in Block(cidr) THEN MergeIPRangeList(free, ip) ELSE free

\* The free list after the release of ip.
Freed(ip) ==
    IF ip \in Block(cidr) /\ ip \notin Members(reserved) THEN MergeIPRangeList(free, ip) ELSE free

ReleaseAddress(p) ==
    /\ PodToIP[p] # Nil
    /\ PodToIP' = [PodToIP EXCEPT ![p] = Nil]
    /\ IPToPod' = [IPToPod EXCEPT ![PodToIP[p]] = Nil]
    /\ PodToMac' = [PodToMac EXCEPT ![p] = Nil]
    /\ MacToPod' = [m \in Mac |-> IF m = PodToMac[p] THEN Nil ELSE MacToPod[m]]
    /\ free' = Freed(PodToIP[p])
    /\ told' = [told EXCEPT ![p] = Nil]
    /\ UNCHANGED <<cidr, reserved, made, moves, tail, phantoms, clash>>

--------------------------------------------------------------------------------
\* GetRandomMac and GetStaticMac are called by themselves, too.
SubnetNext ==
    \E p \in Pod :
        \/ GetRandomMac(p) /\ UNCHANGED <<cidr, reserved, made, ipVars>>
        \/ \E m \in Mac : GetStaticMac(p, m) /\ UNCHANGED <<cidr, reserved, made, ipVars>>
        \/ GetRandomAddress(p)
        \/ \E ip \in IPs, mac \in Mac \cup {Nil} : GetStaticAddress(p, ip, mac)
        \/ ReleaseAddress(p)

SubnetSpec == SubnetInit /\ [][SubnetNext]_subnetVars

--------------------------------------------------------------------------------
(***************************************************************************)
(* Properties                                                              *)
(***************************************************************************)

\* NewSubnet made the pool of every address that is usable and not reserved.
Exact == Members(made) = Usable \ Members(reserved)

\* "从 FreeIPList 中去除 ReservedIPList，形成实际可分配的 ip pool" (subnet.go:43), whatever is
\* excluded, twice and in whatever order, as long as the subnet has room for addresses and
\* its last one is not reserved, or all are.
NewSubnetExact ==
    cidr.size >= 4 /\ (Usable \subseteq Members(reserved) \/ cidr.base + cidr.size - 2 \notin Members(reserved))
        => Exact

\* No two pods have the same address and the two maps agree on who has which, as long as
\* the pool is exact (an address may be in it and reserved otherwise, and be given away as
\* either) and no address was given away that was not free; and while no pod was given a
\* second address (which leaves the entry of the first in IPToPod) every entry of IPToPod
\* is that of the pod's address and every answer said so (subnet.go:84-185).
MapsAgree ==
    Exact /\ phantoms = 0 =>
        /\ \A p \in Pod : PodToIP[p] # Nil => IPToPod[PodToIP[p]] = p
        /\ moves = 0 =>
            /\ \A ip \in IPs : IPToPod[ip] # Nil => PodToIP[IPToPod[ip]] = ip
            /\ told = PodToIP

\* Nothing gets lost and nothing is counted twice, through any number of cuts and merges
\* (subnet.go:98-103, 148, 179): the free addresses are those of the pool that no pod was
\* given, and no two free ranges overlap.
PoolConserved ==
    Exact /\ phantoms = 0 =>
        /\ Members(free) = {ip \in Members(made) : IPToPod[ip] = Nil}
        /\ \A i, j \in DOMAIN free :
            i # j => RangeMembers(free[i]) \cap RangeMembers(free[j]) = {}

\* In a subnet that started with an exact pool, GetRandomAddress gives away an address
\* that is not free (subnet.go:95-103) only after GetStaticAddress has cut the last
\* address off a free range, which leaves a range that ends before it starts
\* (util.go:132-136).
PhantomOnlyByTail == Exact /\ cidr.size >= 4 /\ phantoms > 0 => tail

\* A MAC address is recorded for the pod that has it, unless GenerateMac made up one that
\* was in use (subnet.go:61-82): refusals, re-addressing and releases leave no pod with
\* the address of another.
MacOwned ==
    ~ clash => \A p \in Pod : PodToMac[p] # Nil => MacToPod[PodToMac[p]] = p

================================================================================
