-------------------------------- MODULE IPRanges --------------------------------
(***************************************************************************)
(* Addresses, ranges and range lists of the in-memory IPAM:                *)
(* pkg/ipam/ip.go and the range functions of pkg/ipam/util.go.             *)
(*                                                                         *)
(* An address is a number below Top, which stands for 2^32: arithmetic is  *)
(* that of uint32.  A range [start, end] includes both ends; the code also *)
(* makes ranges that end before they start, which are kept as they are.    *)
(***************************************************************************)
EXTENDS Integers, Sequences

CONSTANT Top    \* the number of addresses

ASSUME TopAssumption == Top \in Nat \ {0}

IPs == 0 .. Top - 1

IPRange == [start : IPs, end : IPs]

\* Sums do not wrap (mutant of Add).
AddNoWrap(ip, n) == ip + n

Add(ip, n) == (ip + n) % Top
Sub(ip, n) == (ip - n) % Top

InRange(r, ip) == r.start <= ip /\ ip <= r.end

\* The addresses of a range and of a list of ranges.
RangeMembers(r) == {ip \in IPs : InRange(r, ip)}
Members(l) == {ip \in IPs : \E i \in DOMAIN l : InRange(l[i], ip)}

Rg(a, b) == [start |-> a, end |-> b]

--------------------------------------------------------------------------------
(***************************************************************************)
(* Cutting one range out of another, and one address out of a list         *)
(***************************************************************************)

\* The end of b is kept in a (mutant of splitRange).
splitRangeKeepsEnd(a, b) ==
    IF b.end < a.start \/ b.start > a.end THEN <<a>>
    ELSE IF a.start >= b.start
         THEN IF a.end <= b.end THEN <<>> ELSE <<Rg(b.end, a.end)>>
         ELSE IF a.end <= b.end
              THEN <<Rg(a.start, Add(b.start, 1))>>
              ELSE <<Rg(a.start, Sub(b.start, 1)), Rg(b.end, a.end)>>

\* What is left of range a without range b, and, where b covers the end of a, the first
\* two addresses of b with it.
splitRange(a, b) ==
    IF b.end < a.start \/ b.start > a.end THEN <<a>>
    ELSE IF a.start >= b.start
         THEN IF a.end <= b.end THEN <<>> ELSE <<Rg(Add(b.end, 1), a.end)>>
         ELSE IF a.end <= b.end
              THEN <<Rg(a.start, Add(b.start, 1))>>
              ELSE <<Rg(a.start, Sub(b.start, 1)), Rg(Add(b.end, 1), a.end)>>

\* A range of one address is cut like any other (mutant of Pieces).
PiecesOfOne(r, ip) ==
    IF r.start = ip
    THEN <<Rg(Add(ip, 1), r.end)>>
    ELSE <<Rg(r.start, Sub(ip, 1)), Rg(Add(ip, 1), r.end)>>

\* What is left of range r when ip is taken out.  If ip is the end of a longer range, the
\* second part ends before it starts.
Pieces(r, ip) ==
    IF r.start = ip
    THEN IF r.end = ip THEN <<>> ELSE <<Rg(Add(ip, 1), r.end)>>
    ELSE <<Rg(r.start, Sub(ip, 1)), Rg(Add(ip, 1), r.end)>>

\* The places of a list SplitIPRangeList could cut: it takes the first.
Hits(l, ip) == {i \in DOMAIN l : l[i].start = ip \/ InRange(l[i], ip)}

SplitIPRangeList(l, ip) ==
    LET k == CHOOSE i \in Hits(l, ip) : \A j \in Hits(l, ip) : i <= j
    IN  SubSeq(l, 1, k - 1) \o Pieces(l[k], ip) \o SubSeq(l, k + 1, Len(l))

================================================================================
