-------------------------------- MODULE RangeIter --------------------------------
(***************************************************************************)
(* The allocation strategy of one IPAllocator (allocator.go): Get with and *)
(* without a requested address, GetIter, Next and Reserve over one range   *)
(* set, and the release of addresses.  The caller holds the cluster lock   *)
(* from GetIter to the end of Get, so that nothing else happens meanwhile; *)
(* IpamServer models what happens when it does not.                        *)
(***************************************************************************)
EXTENDS AddrRange

CONSTANT RangeSets      \* the range sets to try

\* What the allocator takes for granted of its range set: ranges are filled in and not
\* empty, their addresses lie in their subnets, those of different ranges differ.
\* LoadIPAMConfig would check it (IpamConfig); kubeovsd does not call it.
ASSUME RangeSetsAssumption ==
    \A s \in RangeSets :
        /\ WellFormedSet(s)
        /\ \A i \in DOMAIN s : \A a \in Members(s[i]) : Contains(s[i], a)
        /\ \A i, j \in DOMAIN s : i # j => Members(s[i]) \cap Members(s[j]) = {}

VARIABLES
    rs,         \* the range set of the allocator
    taken,      \* addresses with a key in the store
    last,       \* last_reserved_ip, or Nil
    iter,       \* the iterator, or Nil between two calls of Get
    offered,    \* addresses the iterator has returned in this call of Get
    since,      \* since[a]: addresses offered by iterators since a was reserved
    moved       \* a request has moved the last reserved address

iterVars == <<rs, taken, last, iter, offered, since, moved>>

\* What an allocator may hand out.
Allocatable(s) ==
    {a \in Addresses(s) : \E i \in DOMAIN s : Contains(s[i], a) /\ a # s[i].gw}

\* The store may hold the last reserved address of an earlier configuration.
IterInit ==
    /\ rs \in RangeSets
    /\ taken = {}
    /\ last \in Addresses(rs) \cup {Nil, rs[1].subnet.ip}
    /\ iter = Nil
    /\ offered = {}
    /\ since = [a \in Addresses(rs) |-> Addresses(rs)]
    /\ moved = FALSE

\* The last reserved address is not stored (mutant of Reserve).
ReserveNoLast(a, seen) ==
    /\ taken' = taken \cup {a}
    /\ UNCHANGED last
    /\ since' = [b \in Addresses(rs) |-> IF b = a THEN {} ELSE since[b] \cup seen]

\* The store keeps the address and makes it the last reserved one.
Reserve(a, seen) ==
    /\ taken' = taken \cup {a}
    /\ last' = a
    /\ since' = [b \in Addresses(rs) |-> IF b = a THEN {} ELSE since[b] \cup seen]

\* Get without a requested address starts an iterator.
GetBegin ==
    /\ iter = Nil
    /\ iter' = GetIter(rs, last)
    /\ offered' = {}
    /\ UNCHANGED <<rs, taken, last, since, moved>>

\* Next meets a gateway and goes on.
NextSkips ==
    /\ iter # Nil
    /\ IterStep(rs, iter).out = "skip"
    /\ iter' = IterStep(rs, iter).iter
    /\ UNCHANGED <<rs, taken, last, offered, since, moved>>

\* Next returns an address that is reserved already, and Get tries the next one.
NextTaken ==
    LET step == IterStep(rs, iter)
        a == step.iter.cur
    IN
    /\ iter # Nil
    /\ step.out = "ip"
    /\ a \in taken
    /\ iter' = step.iter
    /\ offered' = offered \cup {a}
    /\ since' = [b \in Addresses(rs) |-> since[b] \cup {a}]
    /\ UNCHANGED <<rs, taken, last, moved>>

\* Next returns a free address, and Get reserves it and returns.
NextFree ==
    LET step == IterStep(rs, iter)
        a == step.iter.cur
    IN
    /\ iter # Nil
    /\ step.out = "ip"
    /\ a \notin taken
    /\ Reserve(a, {a})
    /\ iter' = Nil
    /\ offered' = {}
    /\ UNCHANGED <<rs, moved>>

\* Next returns nil: "no IP addresses available in range set".
NextExhausted ==
    /\ iter # Nil
    /\ IterStep(rs, iter).out = "nil"
    /\ iter' = Nil
    /\ offered' = {}
    /\ UNCHANGED <<rs, taken, last, since, moved>>

\* Get for a requested address.
GetRequested(a) ==
    /\ iter = Nil
    /\ SetContains(rs, a)
    /\ ~ IsGateway(rs[RangeFor(rs, a)], a)
    /\ a \notin taken
    /\ Reserve(a, {})
    /\ moved' = TRUE
    /\ UNCHANGED <<rs, iter, offered>>

\* Release: the key goes, the last reserved address stays.
Release(a) ==
    /\ iter = Nil
    /\ a \in taken
    /\ taken' = taken \ {a}
    /\ UNCHANGED <<rs, last, iter, offered, since, moved>>

IterMove == NextSkips \/ NextTaken \/ NextFree \/ NextExhausted

IterNext ==
    \/ GetBegin
    \/ IterMove
    \/ \E a \in Addresses(rs) : GetRequested(a) \/ Release(a)

\* A call of Get runs to its end.
IterSpec == IterInit /\ [][IterNext]_iterVars /\ WF_iterVars(IterMove)

--------------------------------------------------------------------------------
(***************************************************************************)
(* Properties                                                              *)
(***************************************************************************)

\* A call of Get tries nothing outside its range set and no gateway, and over a single
\* range no address twice (allocator.go:206-225, "RangeEnd is inclusive as well").
OffersFresh ==
    LET step == IterStep(rs, iter) IN
    iter # Nil /\ step.out = "ip" =>
        /\ step.iter.cur \in Allocatable(rs)
        /\ Len(rs) = 1 => step.iter.cur \notin offered

\* When Next gives up (allocator.go:219), every address the allocator may hand out has
\* been tried: "no IP addresses available" is never said of a range set that has one.
ExhaustedMeansFull ==
    iter # Nil /\ IterStep(rs, iter).out = "nil" =>
        Allocatable(rs) = offered /\ offered \subseteq taken

\* "a crash-looping container will not see the same IP until the entire range has been
\* run through" (allocator.go:147): between two choices of an address by Get, every other
\* one was offered, as long as nobody has asked for an address.  (A request moves the
\* last reserved address, allocator.go:65, and the cursor may skip or repeat.)
RoundRobin ==
    [][\A a \in Addresses(rs) :
        (iter # Nil /\ ~ moved /\ a \in taken' \ taken) =>
            Allocatable(rs) \ {a} \subseteq since[a]]_iterVars

\* "Returns nil if the iterator has been exhausted" (allocator.go:188): a call of Get
\* ends, unless it starts from an address at the end of one of several ranges.  Then Next
\* sets startIP in the range after startRange, the test of line 218 never holds, and Get
\* walks round a full range set for ever.
GetReturns ==
    (iter # Nil /\ (Len(rs) = 1 \/ last # rs[iter.startRange].end)) ~> iter = Nil

\* The same without the exception: every call of Get ends, whichever address was reserved
\* last (allocator.go:188, 216-221).
EveryGetReturns == iter # Nil ~> iter = Nil

================================================================================
