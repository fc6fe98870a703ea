-------------------------------- MODULE AddrRange --------------------------------
(***************************************************************************)
(* Address ranges, range sets and the iterator over a range set:           *)
(* range.go, range_set.go and RangeIter of allocator.go, in                *)
(* pkg/ipametcd/backend/allocator.                                         *)
(*                                                                         *)
(* An address is a natural number.  Those below V6 are the IPv4 addresses, *)
(* the others the IPv6 ones; NextIP adds one and Cmp is the order of the   *)
(* numbers.  Nil is a nil net.IP: an absent field, or a string that does   *)
(* not parse.  canonicalizeIP changes the length of the byte slice, never  *)
(* the address, and fails on Nil alone.                                    *)
(*                                                                         *)
(* A subnet is [ip, size]: size addresses, a power of two, from ip on.     *)
(* A range is [subnet, start, end, gw].  A range set is a sequence of them.*)
(***************************************************************************)
EXTENDS Integers, Sequences

CONSTANTS
    Nil,        \* nil
    V6          \* the first number that stands for an IPv6 address

ASSUME AddrAssumption == V6 \in Nat /\ Nil \notin Int

Fam(a) == IF a < V6 THEN 4 ELSE 6

\* The addresses of a range, from RangeStart to RangeEnd inclusive.
Members(r) == r.start .. r.end

\* A range an iterator can run over: filled in and not empty.  Canonicalize sees to that;
\* kubeovsd makes its range from its own configuration without a check (main.go:218-230),
\* and there it is an assumption on what the administrator wrote.
WellFormed(r) ==
    /\ r.subnet.ip \in Nat /\ r.start \in Nat /\ r.end \in Nat /\ r.gw \in Nat
    /\ r.start <= r.end

WellFormedSet(rs) ==
    /\ Len(rs) \in Nat \ {0} /\ DOMAIN rs = 1 .. Len(rs)
    /\ \A i \in DOMAIN rs : WellFormed(rs[i])

\* net.IPNet.Contains
InSubnet(s, a) == a >= s.ip /\ a < s.ip + s.size

--------------------------------------------------------------------------------
(***************************************************************************)
(* Range                                                                   *)
(***************************************************************************)

\* An off-by-one at the end of the range (mutant of Contains).
ContainsOpenEnd(r, a) ==
    /\ a # Nil
    /\ Fam(a) = Fam(r.subnet.ip)
    /\ InSubnet(r.subnet, a)
    /\ r.start # Nil => a >= r.start
    /\ r.end # Nil => a < r.end

\* Start and end are ignored while they are nil, as Canonicalize fills them in.
Contains(r, a) ==
    /\ a # Nil
    /\ Fam(a) = Fam(r.subnet.ip)
    /\ InSubnet(r.subnet, a)
    /\ r.start # Nil => a >= r.start
    /\ r.end # Nil => a <= r.end

\* Only the ends of the second range are looked up (mutant of RangesOverlap).
RangesOverlapOneWay(r, r1) ==
    /\ Fam(r.start) = Fam(r1.start)
    /\ Contains(r, r1.start) \/ Contains(r, r1.end)

RangesOverlap(r, r1) ==
    /\ Fam(r.start) = Fam(r1.start)
    /\ \/ Contains(r, r1.start) \/ Contains(r, r1.end)
       \/ Contains(r1, r.start) \/ Contains(r1, r.end)

\* The last address of a subnet, excluding the broadcast address if IPv4.
lastIP(s) == s.ip + s.size - (IF Fam(s.ip) = 4 THEN 2 ELSE 1)

\* r.Canonicalize(): is r accepted, and what it becomes.  r.Contains is asked about
\* RangeStart before RangeEnd has its default and about RangeEnd after RangeStart has.
CanonicalStart(r) == IF r.start = Nil THEN r.subnet.ip + 1 ELSE r.start

\* The end of the range is not checked against the subnet (mutant of RangeAccepted).
RangeAcceptedNoEnd(r) ==
    /\ r.subnet.size >= 4
    /\ r.subnet.ip % r.subnet.size = 0
    /\ r.start # Nil => Contains(r, r.start)

RangeAccepted(r) ==
    /\ r.subnet.size >= 4
    /\ r.subnet.ip % r.subnet.size = 0
    /\ r.start # Nil => Contains(r, r.start)
    /\ r.end # Nil => Contains([r EXCEPT !.start = CanonicalStart(r)], r.end)

CanonicalRange(r) ==
    [subnet |-> r.subnet,
     start  |-> CanonicalStart(r),
     end    |-> IF r.end = Nil THEN lastIP(r.subnet) ELSE r.end,
     gw     |-> IF r.gw = Nil THEN r.subnet.ip + 1 ELSE r.gw]

--------------------------------------------------------------------------------
(***************************************************************************)
(* RangeSet                                                                *)
(***************************************************************************)

Addresses(rs) == UNION {Members(rs[i]) : i \in DOMAIN rs}

SetContains(rs, a) == \E i \in DOMAIN rs : Contains(rs[i], a)

\* The index of the range RangeFor returns: the first that contains a.
RangeFor(rs, a) ==
    CHOOSE i \in DOMAIN rs :
        Contains(rs[i], a) /\ \A j \in DOMAIN rs : Contains(rs[j], a) => i <= j

SetsOverlap(rs, ps) ==
    \E i \in DOMAIN rs, j \in DOMAIN ps : RangesOverlap(rs[i], ps[j])

CanonicalSet(rs) == [i \in DOMAIN rs |-> CanonicalRange(rs[i])]

\* rs.Canonicalize() returns no error.
SetAccepted(rs) ==
    LET cs == CanonicalSet(rs) IN
    /\ rs # <<>>
    /\ \A i \in DOMAIN rs : RangeAccepted(rs[i])
    /\ \A i \in DOMAIN rs : Fam(cs[i].start) = Fam(cs[1].start)
    /\ \A i, j \in DOMAIN rs : i < j => ~ RangesOverlap(cs[i], cs[j])

--------------------------------------------------------------------------------
(***************************************************************************)
(* RangeIter                                                               *)
(***************************************************************************)

Iterator == [idx : Nat, startRange : Nat, cur : Nat \cup {Nil}, startIP : Nat \cup {Nil}]

ASSUME NilAssumption == Nil \notin Iterator

\* GetIter: from the last reserved address if a range of the set contains it, else
\* from the start of the first range.  Next advances cur before it looks at it.
GetIter(rs, last) ==
    IF SetContains(rs, last)
    THEN [idx |-> RangeFor(rs, last), startRange |-> RangeFor(rs, last),
          cur |-> last, startIP |-> Nil]
    ELSE [idx |-> 1, startRange |-> 1, cur |-> Nil, startIP |-> rs[1].start]

\* RangeEnd taken for exclusive (mutant of AtRangeEnd).
AtRangeEndExclusive(rs, it) == it.cur + 1 = rs[it.idx].end

AtRangeEnd(rs, it) == it.cur = rs[it.idx].end

\* Where Next moves to: the start of a range, on the first call and past the end of
\* the previous one, else the next address.
NextIdx(rs, it) ==
    IF it.cur # Nil /\ AtRangeEnd(rs, it) THEN (it.idx % Len(rs)) + 1 ELSE it.idx

NextCur(rs, it) ==
    IF it.cur = Nil \/ AtRangeEnd(rs, it) THEN rs[NextIdx(rs, it)].start ELSE it.cur + 1

\* The iterator gives up one address early (mutant of LoopedBack).
LoopedBackEarly(rs, it) ==
    /\ it.cur # Nil /\ it.startIP # Nil
    /\ NextIdx(rs, it) = it.startRange /\ NextCur(rs, it) + 1 = it.startIP

\* The start is forgotten (mutant of LoopedBack).
LoopedBackNever(rs, it) == FALSE

\* The next address is the one where iterating started, in the range where it started.
LoopedBack(rs, it) ==
    /\ it.cur # Nil /\ it.startIP # Nil
    /\ NextIdx(rs, it) = it.startRange /\ NextCur(rs, it) = it.startIP

\* The gateway is not skipped (mutant of IsGateway).
IsGatewayNever(r, a) == FALSE

IsGateway(r, a) == a = r.gw

\* One pass through the body of Next: the iterator it leaves, and whether it returns
\* the address cur ("ip"), returns nil ("nil"), or calls itself again because cur is
\* the gateway of its range ("skip").
IterStep(rs, it) ==
    LET idx == NextIdx(rs, it)
        cur == NextCur(rs, it)
    IN  [iter |-> [it EXCEPT !.idx = idx, !.cur = cur,
                             !.startIP = IF it.cur = Nil \/ @ = Nil THEN cur ELSE @],
         out  |-> IF LoopedBack(rs, it) THEN "nil"
                  ELSE IF IsGateway(rs[idx], cur) THEN "skip" ELSE "ip"]

================================================================================
