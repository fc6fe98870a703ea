------------------------------ MODULE SubnetProofs ------------------------------
(***************************************************************************)
(* Proofs about the in-memory IPAM, for every number of addresses: what    *)
(* cutting and joining ranges leaves (IPRanges), and the invariants of a   *)
(* subnet through any sequence of its operations (Subnet).                 *)
(***************************************************************************)
EXTENDS Subnet, SequenceTheorems, WellFoundedInduction, TLAPS

--------------------------------------------------------------------------------
(***************************************************************************)
(* One range                                                               *)
(***************************************************************************)

\* Inside the address space the sums of uint32 are those of the integers.
LEMMA NoWrap ==
    ASSUME NEW x \in IPs
    PROVE  /\ x + 1 < Top => Add(x, 1) = x + 1
           /\ x > 0 => Sub(x, 1) = x - 1
BY TopAssumption DEF IPs, Add, Sub

\* The parts splitRange leaves of a.
LEMMA SplitCases ==
    ASSUME NEW a \in IPRange, NEW b \in IPRange, a.start <= a.end, b.start <= b.end
    PROVE  splitRange(a, b) =
             IF b.end < a.start \/ b.start > a.end THEN <<a>>
             ELSE IF a.start >= b.start
                  THEN IF a.end <= b.end THEN <<>> ELSE <<Rg(b.end + 1, a.end)>>
                  ELSE IF a.end <= b.end
                       THEN <<Rg(a.start, Add(b.start, 1))>>
                       ELSE <<Rg(a.start, b.start - 1), Rg(b.end + 1, a.end)>>
<1>1. /\ a.start \in IPs /\ a.end \in IPs /\ b.start \in IPs /\ b.end \in IPs
  BY DEF IPRange
<1>2. b.end < a.end => Add(b.end, 1) = b.end + 1
  BY <1>1, NoWrap, TopAssumption DEF IPs
<1>3. a.start < b.start => Sub(b.start, 1) = b.start - 1
  BY <1>1, NoWrap, TopAssumption DEF IPs
<1>4. QED
  BY <1>1, <1>2, <1>3, TopAssumption DEF splitRange, IPs

\* The members of lists of at most two ranges.
LEMMA FewMembers ==
    /\ Members(<<>>) = {}
    /\ \A r : Members(<<r>>) = RangeMembers(r)
    /\ \A r, s : Members(<<r, s>>) = RangeMembers(r) \cup RangeMembers(s)
<1>1. Members(<<>>) = {}
  BY DEF Members
<1>2. ASSUME NEW r PROVE Members(<<r>>) = RangeMembers(r)
  BY DEF Members, RangeMembers
<1>3. ASSUME NEW r, NEW s PROVE Members(<<r, s>>) = RangeMembers(r) \cup RangeMembers(s)
  <2>1. DOMAIN <<r, s>> = {1, 2} /\ <<r, s>>[1] = r /\ <<r, s>>[2] = s
    OBVIOUS
  <2>2. QED
    BY <2>1 DEF Members, RangeMembers
<1>4. QED
  BY <1>1, <1>2, <1>3

\* b covers the end of a, and not its start.
RightOverlap(a, b) == a.start < b.start /\ b.start <= a.end /\ a.end <= b.end

\* splitRange (util.go:86) takes the addresses of b, and no others, out of a, unless b
\* covers the end of a and not its start.
THEOREM SplitExact ==
    ASSUME NEW a \in IPRange, NEW b \in IPRange, a.start <= a.end, b.start <= b.end,
           ~ RightOverlap(a, b)
    PROVE  Members(splitRange(a, b)) = RangeMembers(a) \ RangeMembers(b)
<1> USE TopAssumption DEF IPs, RangeMembers, InRange
<1>1. /\ a.start \in IPs /\ a.end \in IPs /\ b.start \in IPs /\ b.end \in IPs
  BY DEF IPRange
<1>2. \A x, y : Rg(x, y).start = x /\ Rg(x, y).end = y
  BY DEF Rg
<1>3. CASE b.end < a.start \/ b.start > a.end
  <2>1. splitRange(a, b) = <<a>>
    BY <1>3, SplitCases
  <2>2. QED
    BY <1>1, <1>3, <2>1, FewMembers
<1>4. CASE a.start >= b.start /\ a.end <= b.end
  <2>1. splitRange(a, b) = <<>>
    BY <1>1, <1>4, SplitCases
  <2>2. QED
    BY <1>1, <1>4, <2>1, FewMembers
<1>5. CASE a.start >= b.start /\ a.end > b.end /\ b.end >= a.start
  <2>1. splitRange(a, b) = <<Rg(b.end + 1, a.end)>>
    BY <1>1, <1>5, SplitCases
  <2>2. QED
    BY <1>1, <1>2, <1>5, <2>1, FewMembers
<1>6. CASE a.start < b.start /\ a.end > b.end
  <2>1. splitRange(a, b) = <<Rg(a.start, b.start - 1), Rg(b.end + 1, a.end)>>
    BY <1>1, <1>6, SplitCases
  <2>2. Members(splitRange(a, b)) =
            RangeMembers(Rg(a.start, b.start - 1)) \cup RangeMembers(Rg(b.end + 1, a.end))
    BY <2>1, FewMembers
  <2>3. ASSUME NEW x \in IPs
        PROVE  x \in RangeMembers(Rg(a.start, b.start - 1)) \cup RangeMembers(Rg(b.end + 1, a.end))
                 <=> x \in RangeMembers(a) \ RangeMembers(b)
    BY <1>1, <1>2, <1>6
  <2>4. QED
    BY <2>2, <2>3
<1>7. QED
  BY <1>1, <1>3, <1>4, <1>5, <1>6 DEF RightOverlap

\* If b covers the end of a and not its start, the first address of b stays (util.go:103),
\* unless b starts at the last address there is.
THEOREM SplitKeepsFirst ==
    ASSUME NEW a \in IPRange, NEW b \in IPRange, a.start <= a.end, b.start <= b.end,
           RightOverlap(a, b), b.start + 1 < Top
    PROVE  b.start \in Members(splitRange(a, b))
<1> USE TopAssumption DEF IPs, RangeMembers, InRange, RightOverlap
<1>1. /\ a.start \in IPs /\ a.end \in IPs /\ b.start \in IPs /\ b.end \in IPs
  BY DEF IPRange
<1>2. splitRange(a, b) = <<Rg(a.start, b.start + 1)>>
  <2>1. splitRange(a, b) = <<Rg(a.start, Add(b.start, 1))>>
    BY <1>1, SplitCases
  <2>2. Add(b.start, 1) = b.start + 1
    BY <1>1, NoWrap
  <2>3. QED
    BY <2>1, <2>2
<1>3. Rg(a.start, b.start + 1).start = a.start /\ Rg(a.start, b.start + 1).end = b.start + 1
  BY DEF Rg
<1>4. QED
  BY <1>1, <1>2, <1>3, FewMembers

\* SplitIPRangeList (util.go:112) leaves all addresses of the range it cuts but the one it
\* takes, unless that is the last address there is: then the sum wraps around.
THEOREM PiecesExact ==
    ASSUME NEW r \in IPRange, NEW ip \in RangeMembers(r), r.start <= r.end,
           ip + 1 < Top \/ r.start = r.end
    PROVE  Members(Pieces(r, ip)) = RangeMembers(r) \ {ip}
<1> USE TopAssumption DEF IPs, RangeMembers, InRange
<1>1. /\ r.start \in IPs /\ r.end \in IPs /\ ip \in IPs /\ r.start <= ip /\ ip <= r.end
  BY DEF IPRange
<1>2. \A x, y : Rg(x, y).start = x /\ Rg(x, y).end = y
  BY DEF Rg
<1>3. CASE r.start = ip /\ r.end = ip
  <2>1. Pieces(r, ip) = <<>>
    BY <1>3 DEF Pieces
  <2>2. QED
    BY <1>1, <1>3, <2>1, FewMembers
<1>4. CASE r.start = ip /\ r.end # ip
  <2>1. Pieces(r, ip) = <<Rg(ip + 1, r.end)>>
    BY <1>1, <1>4, NoWrap DEF Pieces
  <2>2. QED
    BY <1>1, <1>2, <1>4, <2>1, FewMembers
<1>5. CASE r.start # ip
  <2>1. Pieces(r, ip) = <<Rg(r.start, ip - 1), Rg(ip + 1, r.end)>>
    BY <1>1, <1>5, NoWrap DEF Pieces
  <2>2. QED
    BY <1>1, <1>2, <1>5, <2>1, FewMembers
<1>6. QED
  BY <1>3, <1>4, <1>5

--------------------------------------------------------------------------------
(***************************************************************************)
(* The loops over lists                                                    *)
(***************************************************************************)

\* A set of natural numbers that is not empty has a least element.
LEMMA LeastElement ==
    ASSUME NEW T, T \subseteq Nat, T # {}
    PROVE  \E x \in T : \A y \in T : x <= y
<1> DEFINE R == OpToRel(<, Nat)
<1>1. PICK x \in T : \A y \in T : ~ (<<y, x>> \in R)
  BY NatLessThanWellFounded, WFMin
<1>2. ASSUME NEW y \in T PROVE x <= y
  <2>1. <<y, x>> \notin R
    BY <1>1, <1>2
  <2>2. ~ (y < x)
    BY <2>1 DEF OpToRel
  <2>3. QED
    BY <2>2
<1>3. QED
  BY <1>1, <1>2

\* Induction over the passes of a loop, for the set T of the passes that are as they
\* should be.
LEMMA LoopInduction ==
    ASSUME NEW n \in Nat, NEW T, 0 \in T,
           \A k \in 1 .. n : k - 1 \in T => k \in T
    PROVE  0 .. n \subseteq T
<1> DEFINE B == {k \in 0 .. n : k \notin T}
<1> SUFFICES ASSUME B # {} PROVE FALSE
  OBVIOUS
<1>1. PICK k \in B : \A y \in B : k <= y
  <2>1. B \subseteq Nat
    OBVIOUS
  <2> HIDE DEF B
  <2>2. QED
    BY <2>1, LeastElement
<1>2. k \in 0 .. n /\ k \notin T
  BY <1>1
<1>3. k # 0
  BY <1>2
<1>4. k \in 1 .. n /\ k - 1 \in 0 .. n /\ ~ (k <= k - 1)
  BY <1>2, <1>3
<1>5. k - 1 \notin B
  BY <1>1, <1>4
<1>6. QED
  BY <1>2, <1>4, <1>5

\* A loop of n passes has a run.
HasRun(n, S, base, step) ==
    \E g \in [0 .. n -> S] : g[0] = base /\ \A i \in 1 .. n : g[i] = step[<<i, g[i - 1]>>]

LEMMA LoopRuns ==
    ASSUME NEW n \in Nat, NEW S, NEW base \in S, NEW step \in [(1 .. n) \X S -> S]
    PROVE  HasRun(n, S, base, step)
<1> DEFINE Good(m, g) == g[0] = base /\ \A i \in 1 .. m : g[i] = step[<<i, g[i - 1]>>]
           T == {m \in 0 .. n : \E g \in [0 .. n -> S] : Good(m, g)}
<1>1. 0 \in T
  <2>1. [i \in 0 .. n |-> base] \in [0 .. n -> S] /\ 0 \in 0 .. n
    OBVIOUS
  <2>2. Good(0, [i \in 0 .. n |-> base])
    OBVIOUS
  <2> HIDE DEF Good
  <2>3. QED
    BY <2>1, <2>2
<1>2. ASSUME NEW m \in 1 .. n, m - 1 \in T PROVE m \in T
  <2>1. PICK g \in [0 .. n -> S] : Good(m - 1, g)
    BY <1>2
  <2> DEFINE h == [g EXCEPT ![m] = step[<<m, g[m - 1]>>]]
  <2>2. m - 1 \in 0 .. n /\ m \in 0 .. n /\ m - 1 # m /\ 0 # m
    OBVIOUS
  <2>3. step[<<m, g[m - 1]>>] \in S
    <3>1. <<m, g[m - 1]>> \in (1 .. n) \X S
      BY <2>2
    <3>2. QED
      BY <3>1
  <2>4. h \in [0 .. n -> S] /\ h[m] = step[<<m, g[m - 1]>>]
        /\ \A i \in 0 .. n : i # m => h[i] = g[i]
    BY <2>2, <2>3
  <2> HIDE DEF h
  <2>5. h[0] = base
    BY <2>1, <2>2, <2>4
  <2>6. ASSUME NEW i \in 1 .. m PROVE h[i] = step[<<i, h[i - 1]>>]
    <3>1. i \in 0 .. n /\ i - 1 \in 0 .. n /\ i - 1 # m
      OBVIOUS
    <3>2. h[i - 1] = g[i - 1]
      BY <2>4, <3>1
    <3>3. CASE i = m
      BY <2>4, <3>2, <3>3
    <3>4. CASE i # m
      <4>1. i \in 1 .. m - 1
        BY <3>4
      <4>2. QED
        BY <2>1, <2>4, <3>1, <3>2, <3>4, <4>1
    <3>5. QED
      BY <3>3, <3>4
  <2>7. Good(m, h)
    BY <2>5, <2>6
  <2> HIDE DEF Good
  <2>8. QED
    BY <2>2, <2>4, <2>7
<1> HIDE DEF T
<1>3. n \in 0 .. n /\ 0 .. n \subseteq T
  BY <1>1, <1>2, LoopInduction
<1>4. n \in T
  BY <1>3
<1>5. QED
  BY <1>4 DEF T, HasRun

LEMMA JoinType ==
    ASSUME NEW l \in Seq(IPRange), NEW r \in IPRange
    PROVE  Join(l, r) \in Seq(IPRange)
<1>1. CASE l # <<>> /\ Add(l[Len(l)].end, 1) = r.start
  <2>1. Len(l) \in 1 .. Len(l) /\ l[Len(l)] \in IPRange
    BY <1>1
  <2>2. [l[Len(l)] EXCEPT !.end = r.end] \in IPRange
    BY <2>1 DEF IPRange
  <2>3. Join(l, r) = [l EXCEPT ![Len(l)] = [l[Len(l)] EXCEPT !.end = r.end]]
    BY <1>1 DEF Join
  <2>4. QED
    BY <2>1, <2>2, <2>3
<1>2. CASE ~ (l # <<>> /\ Add(l[Len(l)].end, 1) = r.start)
  BY <1>2 DEF Join
<1>3. QED
  BY <1>1, <1>2

\* Sums and differences are addresses.
LEMMA SumType ==
    ASSUME NEW x \in IPs
    PROVE  Add(x, 1) \in IPs /\ Sub(x, 1) \in IPs
BY TopAssumption DEF IPs, Add, Sub

LEMMA SplitType ==
    ASSUME NEW a \in IPRange, NEW b \in IPRange
    PROVE  splitRange(a, b) \in Seq(IPRange)
<1>1. /\ a.start \in IPs /\ a.end \in IPs /\ b.start \in IPs /\ b.end \in IPs
  BY DEF IPRange
<1>2. /\ Add(b.end, 1) \in IPs /\ Add(b.start, 1) \in IPs /\ Sub(b.start, 1) \in IPs
  BY <1>1, SumType
<1>3. \A x, y \in IPs : Rg(x, y) \in IPRange
  BY DEF Rg, IPRange
<1>4. \A r, s \in IPRange : <<r>> \in Seq(IPRange) /\ <<r, s>> \in Seq(IPRange)
  OBVIOUS
<1>5. QED
  BY <1>1, <1>2, <1>3, <1>4 DEF splitRange

\* The loop of Joined.
LEMMA JoinsAre ==
    ASSUME NEW l \in Seq(IPRange)
    PROVE  /\ Joins(l) \in [0 .. Len(l) -> Seq(IPRange)]
           /\ Joins(l)[0] = <<>>
           /\ \A k \in 1 .. Len(l) : Joins(l)[k] = Join(Joins(l)[k - 1], l[k])
<1> DEFINE S == Seq(IPRange)
           n == Len(l)
           Pass(k, x) == Join(x, l[k])
           step == [p \in (1 .. n) \X S |-> Pass(p[1], p[2])]
           Body(j) == [k \in 0 .. n |-> IF k = 0 THEN <<>> ELSE Pass(k, j[k - 1])]
           J == CHOOSE j : j = Body(j)
<1>1. n \in Nat /\ <<>> \in S
  OBVIOUS
<1>2. ASSUME NEW k \in 1 .. n, NEW x \in S PROVE Pass(k, x) \in S
  <2>1. l[k] \in IPRange
    OBVIOUS
  <2>2. QED
    BY <2>1, JoinType
<1>3. Joins(l) = J
  BY DEF Joins
<1> SUFFICES /\ J \in [0 .. n -> S] /\ J[0] = <<>>
             /\ \A k \in 1 .. n : J[k] = Pass(k, J[k - 1])
  BY <1>3
<1> HIDE DEF S, n, Pass
<1>4. step \in [(1 .. n) \X S -> S]
  BY <1>2
<1>5. HasRun(n, S, <<>>, step)
  <2> HIDE DEF step, Body, J
  <2>1. QED
    BY <1>1, <1>4, LoopRuns
<1>6. PICK g \in [0 .. n -> S] : g[0] = <<>> /\ \A i \in 1 .. n : g[i] = step[<<i, g[i - 1]>>]
  BY <1>5 DEF HasRun
<1>7. ASSUME NEW i \in 1 .. n PROVE g[i] = Pass(i, g[i - 1])
  <2>1. i - 1 \in 0 .. n
    BY <1>1
  <2>2. <<i, g[i - 1]>> \in (1 .. n) \X S
    BY <2>1
  <2>3. QED
    BY <1>6, <2>2
<1>8. g = Body(g)
  <2>1. \A i \in 0 .. n : g[i] = Body(g)[i]
    BY <1>1, <1>6, <1>7
  <2>2. g = [i \in 0 .. n |-> g[i]] /\ Body(g) = [i \in 0 .. n |-> Body(g)[i]]
    OBVIOUS
  <2> HIDE DEF Body
  <2>3. QED
    BY <2>1, <2>2
<1>9. J = Body(J)
  <2> HIDE DEF Body
  <2>1. QED
    BY <1>8
<1> HIDE DEF J
<1>10. /\ J = [i \in 0 .. n |-> J[i]] /\ J[0] = <<>>
       /\ \A i \in 1 .. n : J[i] = Pass(i, J[i - 1])
  <2>1. \A i \in 0 .. n : Body(J)[i] = IF i = 0 THEN <<>> ELSE Pass(i, J[i - 1])
    OBVIOUS
  <2>2. Body(J) = [i \in 0 .. n |-> Body(J)[i]]
    OBVIOUS
  <2> HIDE DEF Body
  <2>3. \A i \in 0 .. n : J[i] = IF i = 0 THEN <<>> ELSE Pass(i, J[i - 1])
    BY <1>9, <2>1
  <2>4. 0 \in 0 .. n /\ \A i \in 1 .. n : i \in 0 .. n /\ i # 0
    BY <1>1
  <2>5. J[0] = <<>> /\ \A i \in 1 .. n : J[i] = Pass(i, J[i - 1])
    BY <2>3, <2>4, Zenon
  <2>6. QED
    BY <1>9, <2>2, <2>5
<1> DEFINE T == {i \in 0 .. n : J[i] \in S}
<1>11. 0 .. n \subseteq T
  <2>1. ASSUME NEW k \in 1 .. n, k - 1 \in T PROVE k \in T
    <3>1. k \in 0 .. n /\ J[k - 1] \in S
      BY <1>1, <2>1
    <3>2. Pass(k, J[k - 1]) \in S
      BY <1>2, <3>1
    <3>3. QED
      BY <1>10, <3>1, <3>2
  <2>2. 0 \in T
    <3>1. 0 \in 0 .. n
      BY <1>1
    <3>2. QED
      BY <1>1, <1>10, <3>1, Zenon
  <2> HIDE DEF T
  <2>3. QED
    BY <1>1, <2>1, <2>2, LoopInduction
<1>12. \A i \in 0 .. n : J[i] \in S
  BY <1>11
<1>13. QED
  BY <1>10, <1>12

\* The loop of Concat.
LEMMA ConcatsAre ==
    ASSUME NEW ss \in Seq(Seq(IPRange))
    PROVE  /\ Concats(ss) \in [0 .. Len(ss) -> Seq(IPRange)]
           /\ Concats(ss)[0] = <<>>
           /\ \A k \in 1 .. Len(ss) : Concats(ss)[k] = Concats(ss)[k - 1] \o ss[k]
<1> DEFINE S == Seq(IPRange)
           n == Len(ss)
           Pass(k, x) == x \o ss[k]
           step == [p \in (1 .. n) \X S |-> Pass(p[1], p[2])]
           Body(j) == [k \in 0 .. n |-> IF k = 0 THEN <<>> ELSE Pass(k, j[k - 1])]
           J == CHOOSE j : j = Body(j)
<1>1. n \in Nat /\ <<>> \in S
  OBVIOUS
<1>2. ASSUME NEW k \in 1 .. n, NEW x \in S PROVE Pass(k, x) \in S
  <2>1. ss[k] \in Seq(IPRange)
    OBVIOUS
  <2>2. QED
    BY <2>1
<1>3. Concats(ss) = J
  BY DEF Concats
<1> SUFFICES /\ J \in [0 .. n -> S] /\ J[0] = <<>>
             /\ \A k \in 1 .. n : J[k] = Pass(k, J[k - 1])
  BY <1>3
<1> HIDE DEF S, n, Pass
<1>4. step \in [(1 .. n) \X S -> S]
  BY <1>2
<1>5. HasRun(n, S, <<>>, step)
  <2> HIDE DEF step, Body, J
  <2>1. QED
    BY <1>1, <1>4, LoopRuns
<1>6. PICK g \in [0 .. n -> S] : g[0] = <<>> /\ \A i \in 1 .. n : g[i] = step[<<i, g[i - 1]>>]
  BY <1>5 DEF HasRun
<1>7. ASSUME NEW i \in 1 .. n PROVE g[i] = Pass(i, g[i - 1])
  <2>1. i - 1 \in 0 .. n
    BY <1>1
  <2>2. <<i, g[i - 1]>> \in (1 .. n) \X S
    BY <2>1
  <2>3. QED
    BY <1>6, <2>2
<1>8. g = Body(g)
  <2>1. \A i \in 0 .. n : g[i] = Body(g)[i]
    BY <1>1, <1>6, <1>7
  <2>2. g = [i \in 0 .. n |-> g[i]] /\ Body(g) = [i \in 0 .. n |-> Body(g)[i]]
    OBVIOUS
  <2> HIDE DEF Body
  <2>3. QED
    BY <2>1, <2>2
<1>9. J = Body(J)
  <2> HIDE DEF Body
  <2>1. QED
    BY <1>8
<1> HIDE DEF J
<1>10. /\ J = [i \in 0 .. n |-> J[i]] /\ J[0] = <<>>
       /\ \A i \in 1 .. n : J[i] = Pass(i, J[i - 1])
  <2>1. \A i \in 0 .. n : Body(J)[i] = IF i = 0 THEN <<>> ELSE Pass(i, J[i - 1])
    OBVIOUS
  <2>2. Body(J) = [i \in 0 .. n |-> Body(J)[i]]
    OBVIOUS
  <2> HIDE DEF Body
  <2>3. \A i \in 0 .. n : J[i] = IF i = 0 THEN <<>> ELSE Pass(i, J[i - 1])
    BY <1>9, <2>1
  <2>4. 0 \in 0 .. n /\ \A i \in 1 .. n : i \in 0 .. n /\ i # 0
    BY <1>1
  <2>5. J[0] = <<>> /\ \A i \in 1 .. n : J[i] = Pass(i, J[i - 1])
    BY <2>3, <2>4, Zenon
  <2>6. QED
    BY <1>9, <2>2, <2>5
<1> DEFINE T == {i \in 0 .. n : J[i] \in S}
<1>11. 0 .. n \subseteq T
  <2>1. ASSUME NEW k \in 1 .. n, k - 1 \in T PROVE k \in T
    <3>1. k \in 0 .. n /\ J[k - 1] \in S
      BY <1>1, <2>1
    <3>2. Pass(k, J[k - 1]) \in S
      BY <1>2, <3>1
    <3>3. QED
      BY <1>10, <3>1, <3>2
  <2>2. 0 \in T
    <3>1. 0 \in 0 .. n
      BY <1>1
    <3>2. QED
      BY <1>1, <1>10, <3>1, Zenon
  <2> HIDE DEF T
  <2>3. QED
    BY <1>1, <2>1, <2>2, LoopInduction
<1>12. \A i \in 0 .. n : J[i] \in S
  BY <1>11
<1>13. QED
  BY <1>10, <1>12

LEMMA CutType ==
    ASSUME NEW f \in Seq(IPRange), NEW b \in IPRange
    PROVE  /\ [i \in DOMAIN f |-> splitRange(f[i], b)] \in Seq(Seq(IPRange))
           /\ Len([i \in DOMAIN f |-> splitRange(f[i], b)]) = Len(f)
           /\ Cut(f, b) \in Seq(IPRange)
<1> DEFINE ss == [i \in DOMAIN f |-> splitRange(f[i], b)]
<1>1. ss \in Seq(Seq(IPRange)) /\ Len(ss) = Len(f)
  <2>1. \A i \in 1 .. Len(f) : splitRange(f[i], b) \in Seq(IPRange)
    BY SplitType
  <2>2. ss = [i \in 1 .. Len(f) |-> splitRange(f[i], b)]
    OBVIOUS
  <2>3. QED
    BY <2>1, <2>2
<1> HIDE DEF ss
<1>2. Concat(ss) \in Seq(IPRange)
  <2>1. Len(ss) \in 0 .. Len(ss)
    BY <1>1
  <2>2. QED
    BY <1>1, <2>1, ConcatsAre DEF Concat
<1>3. QED
  BY <1>1, <1>2 DEF Cut, ss

\* The loop of splitFreeWithReserve.
LEMMA CutsAre ==
    ASSUME NEW l \in Seq(IPRange), NEW rl \in Seq(IPRange)
    PROVE  /\ Cuts(l, rl) \in [0 .. Len(rl) -> Seq(IPRange)]
           /\ Cuts(l, rl)[0] = l
           /\ \A k \in 1 .. Len(rl) : Cuts(l, rl)[k] = Cut(Cuts(l, rl)[k - 1], rl[k])
<1> DEFINE S == Seq(IPRange)
           n == Len(rl)
           Pass(k, x) == Cut(x, rl[k])
           step == [p \in (1 .. n) \X S |-> Pass(p[1], p[2])]
           Body(j) == [k \in 0 .. n |-> IF k = 0 THEN l ELSE Pass(k, j[k - 1])]
           J == CHOOSE j : j = Body(j)
<1>1. n \in Nat /\ l \in S
  OBVIOUS
<1>2. ASSUME NEW k \in 1 .. n, NEW x \in S PROVE Pass(k, x) \in S
  <2>1. rl[k] \in IPRange
    OBVIOUS
  <2>2. QED
    BY <2>1, CutType
<1>3. Cuts(l, rl) = J
  BY DEF Cuts
<1> SUFFICES /\ J \in [0 .. n -> S] /\ J[0] = l
             /\ \A k \in 1 .. n : J[k] = Pass(k, J[k - 1])
  BY <1>3
<1> HIDE DEF S, n, Pass
<1>4. step \in [(1 .. n) \X S -> S]
  BY <1>2
<1>5. HasRun(n, S, l, step)
  <2> HIDE DEF step, Body, J
  <2>1. QED
    BY <1>1, <1>4, LoopRuns
<1>6. PICK g \in [0 .. n -> S] : g[0] = l /\ \A i \in 1 .. n : g[i] = step[<<i, g[i - 1]>>]
  BY <1>5 DEF HasRun
<1>7. ASSUME NEW i \in 1 .. n PROVE g[i] = Pass(i, g[i - 1])
  <2>1. i - 1 \in 0 .. n
    BY <1>1
  <2>2. <<i, g[i - 1]>> \in (1 .. n) \X S
    BY <2>1
  <2>3. QED
    BY <1>6, <2>2
<1>8. g = Body(g)
  <2>1. \A i \in 0 .. n : g[i] = Body(g)[i]
    BY <1>1, <1>6, <1>7
  <2>2. g = [i \in 0 .. n |-> g[i]] /\ Body(g) = [i \in 0 .. n |-> Body(g)[i]]
    OBVIOUS
  <2> HIDE DEF Body
  <2>3. QED
    BY <2>1, <2>2
<1>9. J = Body(J)
  <2> HIDE DEF Body
  <2>1. QED
    BY <1>8
<1> HIDE DEF J
<1>10. /\ J = [i \in 0 .. n |-> J[i]] /\ J[0] = l
       /\ \A i \in 1 .. n : J[i] = Pass(i, J[i - 1])
  <2>1. \A i \in 0 .. n : Body(J)[i] = IF i = 0 THEN l ELSE Pass(i, J[i - 1])
    OBVIOUS
  <2>2. Body(J) = [i \in 0 .. n |-> Body(J)[i]]
    OBVIOUS
  <2> HIDE DEF Body
  <2>3. \A i \in 0 .. n : J[i] = IF i = 0 THEN l ELSE Pass(i, J[i - 1])
    BY <1>9, <2>1
  <2>4. 0 \in 0 .. n /\ \A i \in 1 .. n : i \in 0 .. n /\ i # 0
    BY <1>1
  <2>5. J[0] = l /\ \A i \in 1 .. n : J[i] = Pass(i, J[i - 1])
    BY <2>3, <2>4, Zenon
  <2>6. QED
    BY <1>9, <2>2, <2>5
<1> DEFINE T == {i \in 0 .. n : J[i] \in S}
<1>11. 0 .. n \subseteq T
  <2>1. ASSUME NEW k \in 1 .. n, k - 1 \in T PROVE k \in T
    <3>1. k \in 0 .. n /\ J[k - 1] \in S
      BY <1>1, <2>1
    <3>2. Pass(k, J[k - 1]) \in S
      BY <1>2, <3>1
    <3>3. QED
      BY <1>10, <3>1, <3>2
  <2>2. 0 \in T
    <3>1. 0 \in 0 .. n
      BY <1>1
    <3>2. QED
      BY <1>1, <1>10, <3>1, Zenon
  <2> HIDE DEF T
  <2>3. QED
    BY <1>1, <2>1, <2>2, LoopInduction
<1>12. \A i \in 0 .. n : J[i] \in S
  BY <1>11
<1>13. QED
  BY <1>10, <1>12

--------------------------------------------------------------------------------
(***************************************************************************)
(* The types of the lists                                                  *)
(***************************************************************************)

LEMMA JoinedType ==
    ASSUME NEW l \in Seq(IPRange)
    PROVE  Joined(l) \in Seq(IPRange)
<1>1. Len(l) \in 0 .. Len(l)
  OBVIOUS
<1>2. QED
  BY <1>1, JoinsAre DEF Joined

LEMMA ConcatType ==
    ASSUME NEW ss \in Seq(Seq(IPRange))
    PROVE  Concat(ss) \in Seq(IPRange)
<1>1. Len(ss) \in 0 .. Len(ss)
  OBVIOUS
<1>2. QED
  BY <1>1, ConcatsAre DEF Concat

LEMMA SplitFreeType ==
    ASSUME NEW l \in Seq(IPRange), NEW rl \in Seq(IPRange)
    PROVE  splitFreeWithReserve(l, rl) \in Seq(IPRange)
<1>1. Len(rl) \in 0 .. Len(rl)
  OBVIOUS
<1>2. QED
  BY <1>1, CutsAre DEF splitFreeWithReserve

\* The ranges of one address of a sorted list of addresses.
Singles(s) == [i \in DOMAIN s |-> Rg(s[i], s[i])]

LEMMA ReservedLists ==
    ASSUME NEW ips \in Seq(IPs), NEW l \in GetIPRangeList(ips)
    PROVE  \E s \in Seq(IPs) :
            /\ \A i, j \in DOMAIN s : i < j => s[i] <= s[j]
            /\ Singles(s) \in Seq(IPRange) /\ Len(Singles(s)) = Len(s)
            /\ l = Joined(Singles(s))
<1>1. PICK s \in Sorted(ips) : l = Joined(Singles(s))
  BY DEF GetIPRangeList, Singles
<1>2. PICK f \in [DOMAIN ips -> DOMAIN ips] : s = [i \in DOMAIN ips |-> ips[f[i]]]
  BY DEF Sorted, Bijection, Injection, Surjection
<1>3. DOMAIN ips = 1 .. Len(ips) /\ Len(ips) \in Nat
  OBVIOUS
<1>4. s \in Seq(IPs)
  <2>1. \A i \in 1 .. Len(ips) : ips[f[i]] \in IPs
    BY <1>3
  <2>2. s = [i \in 1 .. Len(ips) |-> ips[f[i]]]
    BY <1>2, <1>3
  <2>3. QED
    BY <1>3, <2>1, <2>2
<1>5. Singles(s) \in Seq(IPRange) /\ Len(Singles(s)) = Len(s)
  <2>1. \A i \in 1 .. Len(s) : Rg(s[i], s[i]) \in IPRange
    BY <1>4 DEF Rg, IPRange
  <2>2. Singles(s) = [i \in 1 .. Len(s) |-> Rg(s[i], s[i])] /\ Len(s) \in Nat
    BY <1>4 DEF Singles
  <2>3. QED
    BY <2>1, <2>2
<1>6. \A i, j \in DOMAIN s : i < j => s[i] <= s[j]
  BY DEF Sorted
<1>7. QED
  BY <1>1, <1>4, <1>5, <1>6

LEMMA PiecesType ==
    ASSUME NEW r \in IPRange, NEW ip \in IPs
    PROVE  Pieces(r, ip) \in Seq(IPRange)
<1>1. r.start \in IPs /\ r.end \in IPs /\ Add(ip, 1) \in IPs /\ Sub(ip, 1) \in IPs
  BY SumType DEF IPRange
<1>2. \A x, y \in IPs : Rg(x, y) \in IPRange
  BY DEF Rg, IPRange
<1>3. \A a, b \in IPRange : <<a>> \in Seq(IPRange) /\ <<a, b>> \in Seq(IPRange)
  OBVIOUS
<1>4. QED
  BY <1>1, <1>2, <1>3 DEF Pieces

\* SplitIPRangeList cuts at the first hit.
LEMMA SplitAt ==
    ASSUME NEW l \in Seq(IPRange), NEW ip \in IPs, Hits(l, ip) # {}
    PROVE  \E k \in Hits(l, ip) :
            /\ k \in 1 .. Len(l)
            /\ SplitIPRangeList(l, ip) =
                    SubSeq(l, 1, k - 1) \o Pieces(l[k], ip) \o SubSeq(l, k + 1, Len(l))
<1> DEFINE k == CHOOSE i \in Hits(l, ip) : \A j \in Hits(l, ip) : i <= j
<1>1. Hits(l, ip) \subseteq Nat /\ Hits(l, ip) \subseteq 1 .. Len(l)
  BY DEF Hits
<1>2. k \in Hits(l, ip)
  BY <1>1, LeastElement
<1>3. SplitIPRangeList(l, ip) =
            SubSeq(l, 1, k - 1) \o Pieces(l[k], ip) \o SubSeq(l, k + 1, Len(l))
  BY DEF SplitIPRangeList
<1> HIDE DEF k
<1>4. QED
  BY <1>1, <1>2, <1>3

LEMMA SubSeqType ==
    ASSUME NEW S, NEW l \in Seq(S), NEW m \in 1 .. Len(l) + 1, NEW n \in 0 .. Len(l)
    PROVE  /\ SubSeq(l, m, n) \in Seq(S)
           /\ Len(SubSeq(l, m, n)) = IF m <= n THEN n - m + 1 ELSE 0
           /\ \A i \in 1 .. n - m + 1 : SubSeq(l, m, n)[i] = l[m + i - 1]
BY SubSeqProperties

LEMMA SplitListType ==
    ASSUME NEW l \in Seq(IPRange), NEW ip \in IPs, Hits(l, ip) # {}
    PROVE  SplitIPRangeList(l, ip) \in Seq(IPRange)
<1>1. PICK k \in Hits(l, ip) :
            /\ k \in 1 .. Len(l)
            /\ SplitIPRangeList(l, ip) =
                    SubSeq(l, 1, k - 1) \o Pieces(l[k], ip) \o SubSeq(l, k + 1, Len(l))
  BY SplitAt
<1>2. l[k] \in IPRange /\ k - 1 \in 0 .. Len(l) /\ k + 1 \in 1 .. Len(l) + 1 /\ Len(l) \in Nat
  BY <1>1
<1>3. SubSeq(l, 1, k - 1) \in Seq(IPRange) /\ SubSeq(l, k + 1, Len(l)) \in Seq(IPRange)
  BY <1>2, SubSeqType
<1>4. Pieces(l[k], ip) \in Seq(IPRange)
  BY <1>2, PiecesType
<1>5. QED
  BY <1>1, <1>3, <1>4

LEMMA FirstTakenType ==
    ASSUME NEW l \in Seq(IPRange), l # <<>>
    PROVE  FirstTaken(l) \in Seq(IPRange)
<1>1. l[1] \in IPRange /\ 1 \in 1 .. Len(l)
  OBVIOUS
<1>2. CASE l[1].start = l[1].end
  BY <1>2 DEF FirstTaken
<1>3. CASE l[1].start # l[1].end
  <2> DEFINE r == [l[1] EXCEPT !.start = Add(l[1].start, 1)]
  <2>1. r \in IPRange
    BY <1>1, SumType DEF IPRange
  <2>2. FirstTaken(l) = [l EXCEPT ![1] = r]
    BY <1>3 DEF FirstTaken
  <2> HIDE DEF r
  <2>3. QED
    BY <1>1, <2>1, <2>2
<1>4. QED
  BY <1>2, <1>3

\* The ranges before the place of ip that stay.
Kept(l, k, ip) == [i \in 1 .. k - 1 |-> IF l[i].start < ip THEN <<l[i]>> ELSE <<>>]

LEMMA InsertAt ==
    ASSUME NEW l \in Seq(IPRange), NEW ip \in IPs
    PROVE  \E k \in 1 .. Len(l) + 1 :
            /\ \A i \in 1 .. k - 1 : ~ (l[i].start > ip)
            /\ k <= Len(l) => l[k].start > ip
            /\ Kept(l, k, ip) \in Seq(Seq(IPRange)) /\ Len(Kept(l, k, ip)) = k - 1
            /\ Inserted(l, ip) =
                    Concat(Kept(l, k, ip)) \o <<Rg(ip, ip)>> \o SubSeq(l, k, Len(l))
<1> DEFINE later == {i \in DOMAIN l : l[i].start > ip}
           k == IF later = {} THEN Len(l) + 1 ELSE CHOOSE i \in later : \A j \in later : i <= j
<1>1. Len(l) \in Nat /\ DOMAIN l = 1 .. Len(l)
  OBVIOUS
<1>2. /\ k \in 1 .. Len(l) + 1
      /\ \A i \in 1 .. k - 1 : ~ (l[i].start > ip)
      /\ k <= Len(l) => l[k].start > ip
  <2>1. CASE later = {}
    <3>1. k = Len(l) + 1
      BY <2>1
    <3>2. \A i \in 1 .. Len(l) : ~ (l[i].start > ip)
      BY <1>1, <2>1
    <3> HIDE DEF k
    <3>3. QED
      BY <1>1, <3>1, <3>2
  <2>2. CASE later # {}
    <3>1. later \subseteq Nat
      BY <1>1
    <3>2. \E i \in later : \A j \in later : i <= j
      <4> HIDE DEF later
      <4>1. QED
        BY <2>2, <3>1, LeastElement
    <3>3. k \in later /\ \A j \in later : k <= j
      <4> HIDE DEF later
      <4>1. QED
        BY <2>2, <3>2
    <3> HIDE DEF k
    <3>4. k \in 1 .. Len(l) /\ l[k].start > ip
      BY <1>1, <3>3
    <3>5. ASSUME NEW i \in 1 .. k - 1, l[i].start > ip PROVE FALSE
      <4>1. i \in 1 .. Len(l) /\ i < k
        BY <1>1, <3>4
      <4>2. i \in later
        BY <1>1, <3>5, <4>1
      <4>3. QED
        BY <1>1, <3>3, <3>4, <4>1, <4>2
    <3>6. QED
      BY <1>1, <3>4, <3>5
  <2>3. QED
    BY <2>1, <2>2
<1>3. Inserted(l, ip) = Concat(Kept(l, k, ip)) \o <<Rg(ip, ip)>> \o SubSeq(l, k, Len(l))
  BY DEF Inserted, Kept
<1> HIDE DEF k
<1>4. Kept(l, k, ip) \in Seq(Seq(IPRange)) /\ Len(Kept(l, k, ip)) = k - 1
  <2>1. k - 1 \in Nat /\ \A i \in 1 .. k - 1 : l[i] \in IPRange
    BY <1>1, <1>2
  <2>2. \A i \in 1 .. k - 1 : <<l[i]>> \in Seq(IPRange) /\ <<>> \in Seq(IPRange)
    BY <2>1
  <2>3. \A i \in 1 .. k - 1 :
            (IF l[i].start < ip THEN <<l[i]>> ELSE <<>>) \in Seq(IPRange)
    BY <2>2, Zenon
  <2> DEFINE part(i) == IF l[i].start < ip THEN <<l[i]>> ELSE <<>>
  <2>4. Kept(l, k, ip) = [i \in 1 .. k - 1 |-> part(i)]
    BY DEF Kept
  <2>5. \A i \in 1 .. k - 1 : part(i) \in Seq(IPRange)
    BY <2>3
  <2> HIDE DEF part
  <2>6. QED
    BY <2>1, <2>4, <2>5
<1>5. QED
  BY <1>2, <1>3, <1>4

LEMMA MergeType ==
    ASSUME NEW l \in Seq(IPRange), NEW ip \in IPs
    PROVE  /\ Inserted(l, ip) \in Seq(IPRange)
           /\ MergeIPRangeList(l, ip) \in Seq(IPRange)
<1>1. PICK k \in 1 .. Len(l) + 1 :
            /\ Kept(l, k, ip) \in Seq(Seq(IPRange))
            /\ Inserted(l, ip) =
                    Concat(Kept(l, k, ip)) \o <<Rg(ip, ip)>> \o SubSeq(l, k, Len(l))
  BY InsertAt
<1>2. Concat(Kept(l, k, ip)) \in Seq(IPRange)
  BY <1>1, ConcatType
<1>3. <<Rg(ip, ip)>> \in Seq(IPRange)
  BY DEF Rg, IPRange
<1>4. SubSeq(l, k, Len(l)) \in Seq(IPRange)
  <2>1. Len(l) \in 0 .. Len(l)
    OBVIOUS
  <2>2. QED
    BY <2>1, SubSeqType
<1>5. Inserted(l, ip) \in Seq(IPRange)
  BY <1>1, <1>2, <1>3, <1>4
<1>6. QED
  BY <1>5, JoinedType DEF MergeIPRangeList

--------------------------------------------------------------------------------
(***************************************************************************)
(* The type invariant and the MAC addresses                                *)
(***************************************************************************)

\* What NewSubnet leaves in the lists.
LEMMA NewSubnetLists ==
    ASSUME SubnetInit
    PROVE  /\ cidr \in {a.cidr : a \in Args}
           /\ cidr.base \in IPs /\ cidr.size \in Nat \ {0} /\ cidr.base + cidr.size <= Top
           /\ \E ips \in Seq(IPs) : reserved \in GetIPRangeList(ips)
           /\ made = splitFreeWithReserve(<<Rg(GetFirstIP(cidr), GetLastIP(cidr))>>, reserved)
           /\ free = made /\ {reserved, made} \subseteq Seq(IPRange)
<1>1. PICK a \in Args : NewSubnet(a.cidr, a.excludeIps)
  BY DEF SubnetInit
<1>2. /\ a.cidr.base \in IPs /\ a.cidr.size \in Nat \ {0} /\ a.cidr.base + a.cidr.size <= Top
      /\ a.excludeIps \in Seq(IPs)
  BY SubnetAssumption
<1>3. /\ cidr = a.cidr /\ reserved \in GetIPRangeList(a.excludeIps) /\ free = made
      /\ made = splitFreeWithReserve(<<Rg(GetFirstIP(cidr), GetLastIP(cidr))>>, reserved)
  BY <1>1 DEF NewSubnet
<1>4. reserved \in Seq(IPRange)
  BY <1>2, <1>3, ReservedLists, JoinedType
<1>5. <<Rg(GetFirstIP(cidr), GetLastIP(cidr))>> \in Seq(IPRange)
  <2>1. cidr.base \in IPs /\ cidr.base + cidr.size - 1 \in IPs
    <3> DEFINE b == cidr.base
               n == cidr.size
    <3>1. b \in IPs /\ n \in Nat \ {0} /\ b + n <= Top
      BY <1>2, <1>3
    <3> HIDE DEF b, n
    <3>2. b + n - 1 \in IPs
      BY <3>1, TopAssumption DEF IPs
    <3>3. QED
      BY <3>1, <3>2 DEF b, n
  <2>2. GetFirstIP(cidr) \in IPs /\ GetLastIP(cidr) \in IPs
    BY <2>1, SumType DEF GetFirstIP, GetLastIP
  <2>3. Rg(GetFirstIP(cidr), GetLastIP(cidr)) \in IPRange
    BY <2>2 DEF Rg, IPRange
  <2>4. QED
    BY <2>3
<1>6. made \in Seq(IPRange)
  BY <1>3, <1>4, <1>5, SplitFreeType
<1>7. QED
  BY <1>2, <1>3, <1>4, <1>6

\* The type invariant with what the arguments of NewSubnet say of the block.
SubnetTypeInv ==
    /\ SubnetTypeOK
    /\ cidr.base \in IPs /\ cidr.size \in Nat \ {0} /\ cidr.base + cidr.size <= Top

LEMMA FreedType ==
    ASSUME SubnetTypeInv, NEW ip \in IPs
    PROVE  Freed(ip) \in Seq(IPRange)
BY MergeType DEF Freed, SubnetTypeInv, SubnetTypeOK

MacInv ==
    /\ PodToMac \in [Pod -> Mac \cup {Nil}]
    /\ MacToPod \in [Mac -> Pod \cup {Nil}]
    /\ clash \in BOOLEAN
    /\ MacOwned

\* A new MAC address is recorded for a pod that may have had another one.
LEMMA RecordMacKeeps ==
    ASSUME MacInv, NEW p \in Pod, NEW m \in Mac, RecordMac(p, m),
           clash' \in BOOLEAN, clash => clash', MacToPod[m] # Nil => clash'
    PROVE  MacInv'
<1>1. /\ PodToMac' \in [Pod -> Mac \cup {Nil}]
      /\ MacToPod' \in [Mac -> Pod \cup {Nil}]
  BY DEF RecordMac, MacInv
<1>2. ASSUME ~ clash', NEW q \in Pod, PodToMac'[q] # Nil
      PROVE  MacToPod'[PodToMac'[q]] = q
  <2>1. MacToPod[m] = Nil /\ Nil \notin Pod /\ Nil \notin Mac
    BY <1>2, SubnetAssumption
  <2>2. CASE q = p
    BY <2>2 DEF RecordMac, MacInv
  <2>3. CASE q # p
    <3>1. PodToMac'[q] = PodToMac[q] /\ PodToMac[q] \in Mac
      BY <1>2, <2>3 DEF RecordMac, MacInv
    <3>2. MacToPod[PodToMac[q]] = q
      BY <1>2, <3>1 DEF MacInv, MacOwned
    <3>3. PodToMac[q] # m
      BY <2>1, <3>2
    <3>4. QED
      BY <3>1, <3>2, <3>3 DEF RecordMac, MacInv
  <2>4. QED
    BY <2>2, <2>3
<1>3. QED
  BY <1>1, <1>2 DEF MacInv, MacOwned

LEMMA MacsKeep ==
    ASSUME MacInv, NEW p \in Pod
    PROVE  /\ GetRandomMac(p) => MacInv'
           /\ \A m \in Mac : GetStaticMac(p, m) => MacInv'
           /\ UNCHANGED macVars => MacInv'
<1>1. ASSUME UNCHANGED macVars PROVE MacInv'
  BY <1>1 DEF macVars, MacInv, MacOwned
<1>2. ASSUME GetRandomMac(p) PROVE MacInv'
  <2>1. CASE PodToMac[p] # Nil
    BY <1>1, <1>2, <2>1 DEF GetRandomMac
  <2>2. CASE PodToMac[p] = Nil
    <3>1. PICK m \in Mac : RecordMac(p, m) /\ clash' = (clash \/ MacToPod[m] # Nil)
      BY <1>2, <2>2 DEF GetRandomMac
    <3>2. clash' \in BOOLEAN /\ (clash => clash') /\ (MacToPod[m] # Nil => clash')
      BY <3>1
    <3>3. QED
      BY <3>1, <3>2, RecordMacKeeps
  <2>3. QED
    BY <2>1, <2>2
<1>3. ASSUME NEW m \in Mac, GetStaticMac(p, m) PROVE MacInv'
  <2>1. /\ MacToPod[m] = Nil /\ RecordMac(p, m) /\ clash' = clash
    BY <1>3 DEF GetStaticMac
  <2>2. clash' \in BOOLEAN
    BY <2>1 DEF MacInv
  <2>3. QED
    BY <2>1, <2>2, RecordMacKeeps
<1>4. QED
  BY <1>1, <1>2, <1>3

LEMMA ReleaseKeepsMacs ==
    ASSUME MacInv, NEW p \in Pod, ReleaseAddress(p)
    PROVE  MacInv'
<1>1. /\ PodToMac' = [PodToMac EXCEPT ![p] = Nil] /\ clash' = clash
      /\ MacToPod' = [m \in Mac |-> IF m = PodToMac[p] THEN Nil ELSE MacToPod[m]]
  BY DEF ReleaseAddress
<1>2. /\ PodToMac' \in [Pod -> Mac \cup {Nil}]
      /\ MacToPod' \in [Mac -> Pod \cup {Nil}] /\ clash' \in BOOLEAN
  BY <1>1 DEF MacInv
<1>3. ASSUME ~ clash', NEW q \in Pod, PodToMac'[q] # Nil
      PROVE  MacToPod'[PodToMac'[q]] = q
  <2>1. q # p /\ PodToMac'[q] = PodToMac[q] /\ PodToMac[q] \in Mac
    BY <1>1, <1>3 DEF MacInv
  <2>2. MacToPod[PodToMac[q]] = q
    BY <1>1, <1>3, <2>1 DEF MacInv, MacOwned
  <2>3. PodToMac[q] # PodToMac[p]
    <3>1. CASE PodToMac[p] = Nil
      BY <1>3, <2>1, <3>1
    <3>2. CASE PodToMac[p] # Nil
      <4>1. MacToPod[PodToMac[p]] = p
        BY <1>1, <1>3, <3>2 DEF MacInv, MacOwned
      <4>2. QED
        BY <2>1, <2>2, <4>1
    <3>3. QED
      BY <3>1, <3>2
  <2>4. QED
    BY <1>1, <2>1, <2>2, <2>3
<1>4. QED
  BY <1>2, <1>3 DEF MacInv, MacOwned

\* Every step leaves the MAC addresses as one of these operations does.
LEMMA NextKeepsMacs ==
    ASSUME MacInv, [SubnetNext]_subnetVars
    PROVE  MacInv'
<1>1. CASE UNCHANGED subnetVars
  <2>1. UNCHANGED macVars
    BY <1>1 DEF subnetVars, macVars
  <2>2. QED
    BY <2>1 DEF macVars, MacInv, MacOwned
<1>2. CASE SubnetNext
  <2>1. PICK p \in Pod :
            \/ GetRandomMac(p) /\ UNCHANGED <<cidr, reserved, made, ipVars>>
            \/ \E m \in Mac : GetStaticMac(p, m) /\ UNCHANGED <<cidr, reserved, made, ipVars>>
            \/ GetRandomAddress(p)
            \/ \E ip \in IPs, mac \in Mac \cup {Nil} : GetStaticAddress(p, ip, mac)
            \/ ReleaseAddress(p)
    BY <1>2 DEF SubnetNext
  <2>2. CASE GetRandomAddress(p)
    BY <2>2, MacsKeep DEF GetRandomAddress
  <2>3. CASE \E ip \in IPs, mac \in Mac \cup {Nil} : GetStaticAddress(p, ip, mac)
    BY <2>3, MacsKeep DEF GetStaticAddress
  <2>4. QED
    BY <2>1, <2>2, <2>3, MacsKeep, ReleaseKeepsMacs
<1>3. QED
  BY <1>1, <1>2

\* For every number of pods and MAC addresses: no pod has the MAC address of another,
\* unless GenerateMac made up one that was in use (subnet.go:61-82).
THEOREM MacsOwned == SubnetSpec => []MacOwned
<1>1. SubnetInit => MacInv
  <2> SUFFICES ASSUME SubnetInit PROVE MacInv
    OBVIOUS
  <2>1. PICK a \in Args : NewSubnet(a.cidr, a.excludeIps)
    BY DEF SubnetInit
  <2>2. QED
    BY <2>1 DEF NewSubnet, MacInv, MacOwned
<1>2. MacInv /\ [SubnetNext]_subnetVars => MacInv'
  BY NextKeepsMacs
<1>3. MacInv => MacOwned
  BY DEF MacInv
<1>4. QED
  BY <1>1, <1>2, <1>3, PTL DEF SubnetSpec

\* The part of the type invariant that operations on addresses change.
IPTypes ==
    /\ free \in Seq(IPRange)
    /\ PodToIP \in [Pod -> IPs \cup {Nil}]
    /\ IPToPod \in [IPs -> Pod \cup {Nil}]
    /\ told \in [Pod -> IPs \cup {Nil}]
    /\ moves \in 0 .. MaxMoves
    /\ phantoms \in 0 .. MaxPhantoms
    /\ tail \in BOOLEAN

LEMMA RecordIPTypes ==
    ASSUME IPTypes, NEW p \in Pod, NEW ip \in IPs, RecordIP(p, ip)
    PROVE  /\ PodToIP' \in [Pod -> IPs \cup {Nil}]
           /\ IPToPod' \in [IPs -> Pod \cup {Nil}]
           /\ told' \in [Pod -> IPs \cup {Nil}]
           /\ moves' \in 0 .. MaxMoves
<1>1. /\ PodToIP' \in [Pod -> IPs \cup {Nil}]
      /\ IPToPod' \in [IPs -> Pod \cup {Nil}]
      /\ told' \in [Pod -> IPs \cup {Nil}]
  BY DEF RecordIP, IPTypes
<1>2. moves' \in 0 .. MaxMoves
  BY SubnetAssumption DEF RecordIP, IPTypes
<1>3. QED
  BY <1>1, <1>2

LEMMA TakeIPTypes ==
    ASSUME IPTypes, NEW p \in Pod, NEW ip \in IPs, TakeIP(p, ip)
    PROVE  phantoms' \in 0 .. MaxPhantoms
BY SubnetAssumption DEF TakeIP, IPTypes

LEMMA RandomAddressTypes ==
    ASSUME IPTypes, NEW p \in Pod, GetRandomAddress(p)
    PROVE  IPTypes'
<1>1. CASE PodToIP[p] # Nil
  <2>1. /\ told' = [told EXCEPT ![p] = PodToIP[p]]
        /\ UNCHANGED <<free, PodToIP, IPToPod, moves, tail, phantoms>>
    BY <1>1 DEF GetRandomAddress
  <2>2. told' \in [Pod -> IPs \cup {Nil}]
    BY <2>1 DEF IPTypes
  <2>3. QED
    BY <2>1, <2>2 DEF IPTypes
<1>2. CASE PodToIP[p] = Nil
  <2>1. /\ free # <<>> /\ TakeIP(p, free[1].start) /\ free' = FirstTaken(free)
        /\ tail' = tail
    BY <1>2 DEF GetRandomAddress
  <2>2. free[1].start \in IPs
    <3>1. free[1] \in IPRange
      BY <2>1 DEF IPTypes
    <3>2. QED
      BY <3>1 DEF IPRange
  <2>3. RecordIP(p, free[1].start)
    BY <2>1 DEF TakeIP
  <2>4. free' \in Seq(IPRange)
    BY <2>1, FirstTakenType DEF IPTypes
  <2>5. /\ PodToIP' \in [Pod -> IPs \cup {Nil}] /\ IPToPod' \in [IPs -> Pod \cup {Nil}]
        /\ told' \in [Pod -> IPs \cup {Nil}] /\ moves' \in 0 .. MaxMoves
        /\ phantoms' \in 0 .. MaxPhantoms
    BY <2>1, <2>2, <2>3, RecordIPTypes, TakeIPTypes
  <2>6. QED
    BY <2>1, <2>4, <2>5 DEF IPTypes
<1>3. QED
  BY <1>1, <1>2

LEMMA StaticIPTypes ==
    ASSUME IPTypes, NEW p \in Pod, NEW ip \in IPs, StaticIP(p, ip)
    PROVE  IPTypes'
<1>1. CASE UNCHANGED ipVars
  BY <1>1 DEF ipVars, IPTypes
<1>2. CASE /\ told' = [told EXCEPT ![p] = ip]
           /\ UNCHANGED <<free, PodToIP, IPToPod, moves, tail, phantoms>>
  <2>1. told' \in [Pod -> IPs \cup {Nil}]
    BY <1>2 DEF IPTypes
  <2>2. QED
    BY <1>2, <2>1 DEF IPTypes
<1>3. CASE RecordIP(p, ip) /\ UNCHANGED <<free, tail, phantoms>>
  BY <1>3, RecordIPTypes DEF IPTypes
<1>4. CASE TakeFree(p, ip)
  <2>1. /\ Hits(free, ip) # {} /\ TakeIP(p, ip) /\ RecordIP(p, ip)
        /\ free' = SplitIPRangeList(free, ip) /\ tail' = (tail \/ CutsTail(free, ip))
    BY <1>4 DEF TakeFree, TakeIP
  <2>2. free' \in Seq(IPRange)
    BY <2>1, SplitListType DEF IPTypes
  <2>3. tail' \in BOOLEAN
    BY <2>1
  <2>4. QED
    BY <2>1, <2>2, <2>3, RecordIPTypes, TakeIPTypes DEF IPTypes
<1>5. QED
  BY <1>1, <1>2, <1>3, <1>4 DEF StaticIP

LEMMA ReleaseTypes ==
    ASSUME SubnetTypeInv, NEW p \in Pod, ReleaseAddress(p)
    PROVE  IPTypes'
<1>1. /\ PodToIP[p] \in IPs
      /\ PodToIP' = [PodToIP EXCEPT ![p] = Nil]
      /\ IPToPod' = [IPToPod EXCEPT ![PodToIP[p]] = Nil]
      /\ free' = Freed(PodToIP[p])
      /\ told' = [told EXCEPT ![p] = Nil]
      /\ UNCHANGED <<moves, tail, phantoms>>
  BY DEF ReleaseAddress, SubnetTypeInv, SubnetTypeOK
<1>2. free' \in Seq(IPRange)
  BY <1>1, FreedType
<1>3. /\ PodToIP' \in [Pod -> IPs \cup {Nil}] /\ IPToPod' \in [IPs -> Pod \cup {Nil}]
      /\ told' \in [Pod -> IPs \cup {Nil}]
  BY <1>1 DEF SubnetTypeInv, SubnetTypeOK
<1>4. QED
  BY <1>1, <1>2, <1>3 DEF IPTypes, SubnetTypeInv, SubnetTypeOK

LEMMA NextKeepsTypes ==
    ASSUME SubnetTypeInv, MacInv, [SubnetNext]_subnetVars
    PROVE  SubnetTypeInv'
<1>1. IPTypes
  BY DEF SubnetTypeInv, SubnetTypeOK, IPTypes
<1>2. MacInv'
  BY NextKeepsMacs
<1>3. UNCHANGED <<cidr, reserved, made>> /\ IPTypes'
  <2>1. CASE UNCHANGED subnetVars
    BY <1>1, <2>1 DEF subnetVars, ipVars, IPTypes
  <2>2. CASE SubnetNext
    <3>1. PICK p \in Pod :
            \/ GetRandomMac(p) /\ UNCHANGED <<cidr, reserved, made, ipVars>>
            \/ \E m \in Mac : GetStaticMac(p, m) /\ UNCHANGED <<cidr, reserved, made, ipVars>>
            \/ GetRandomAddress(p)
            \/ \E ip \in IPs, mac \in Mac \cup {Nil} : GetStaticAddress(p, ip, mac)
            \/ ReleaseAddress(p)
      BY <2>2 DEF SubnetNext
    <3>2. CASE UNCHANGED <<cidr, reserved, made, ipVars>>
      BY <1>1, <3>2 DEF ipVars, IPTypes
    <3>3. CASE GetRandomAddress(p)
      <4>1. UNCHANGED <<cidr, reserved, made>>
        BY <3>3 DEF GetRandomAddress
      <4>2. QED
        BY <1>1, <3>3, <4>1, RandomAddressTypes
    <3>4. CASE \E ip \in IPs, mac \in Mac \cup {Nil} : GetStaticAddress(p, ip, mac)
      <4>1. PICK ip \in IPs, mac \in Mac \cup {Nil} : GetStaticAddress(p, ip, mac)
        BY <3>4
      <4>2. UNCHANGED <<cidr, reserved, made>> /\ StaticIP(p, ip)
        BY <4>1 DEF GetStaticAddress
      <4>3. QED
        BY <1>1, <4>2, StaticIPTypes
    <3>5. CASE ReleaseAddress(p)
      <4>1. UNCHANGED <<cidr, reserved, made>>
        BY <3>5 DEF ReleaseAddress
      <4>2. QED
        BY <3>5, <4>1, ReleaseTypes
    <3>6. QED
      BY <3>1, <3>2, <3>3, <3>4, <3>5
  <2>3. QED
    BY <2>1, <2>2
<1>4. QED
  BY <1>2, <1>3 DEF SubnetTypeInv, SubnetTypeOK, IPTypes, MacInv

LEMMA InitTypes ==
    ASSUME SubnetInit
    PROVE  SubnetTypeInv /\ MacInv
<1>1. PICK a \in Args : NewSubnet(a.cidr, a.excludeIps)
  BY DEF SubnetInit
<1>2. /\ cidr \in {b.cidr : b \in Args} /\ {reserved, made, free} \subseteq Seq(IPRange)
      /\ cidr.base \in IPs /\ cidr.size \in Nat \ {0} /\ cidr.base + cidr.size <= Top
  BY NewSubnetLists
<1>3. MacInv
  BY <1>1 DEF NewSubnet, MacInv, MacOwned
<1>4. /\ PodToIP \in [Pod -> IPs \cup {Nil}] /\ IPToPod \in [IPs -> Pod \cup {Nil}]
      /\ told \in [Pod -> IPs \cup {Nil}]
      /\ moves \in 0 .. MaxMoves /\ phantoms \in 0 .. MaxPhantoms /\ tail \in BOOLEAN
  <2>1. PodToIP = [p \in Pod |-> Nil] /\ IPToPod = [ip \in IPs |-> Nil] /\ told = [p \in Pod |-> Nil]
    BY <1>1 DEF NewSubnet
  <2>2. moves = 0 /\ phantoms = 0 /\ tail = FALSE
    BY <1>1 DEF NewSubnet
  <2>3. moves \in 0 .. MaxMoves /\ phantoms \in 0 .. MaxPhantoms
    BY <2>2, SubnetAssumption
  <2>4. QED
    BY <2>1, <2>2, <2>3
<1>5. QED
  BY <1>2, <1>3, <1>4 DEF SubnetTypeInv, SubnetTypeOK, MacInv

\* For every set of arguments, pods and MAC addresses: the lists of a subnet stay lists of
\* ranges of addresses, also where sums wrap around, and its maps stay maps.
THEOREM SubnetTypeCorrect == SubnetSpec => []SubnetTypeOK
<1>1. SubnetInit => SubnetTypeInv /\ MacInv
  BY InitTypes
<1>2. SubnetTypeInv /\ MacInv /\ [SubnetNext]_subnetVars => SubnetTypeInv' /\ MacInv'
  BY NextKeepsTypes, NextKeepsMacs
<1>3. SubnetTypeInv => SubnetTypeOK
  BY DEF SubnetTypeInv
<1>4. QED
  BY <1>1, <1>2, <1>3, PTL DEF SubnetSpec

--------------------------------------------------------------------------------
(***************************************************************************)
(* Lists of ranges in order                                                *)
(***************************************************************************)

\* The ranges of l are in order, between lo and hi, with more than g between the end of one
\* and the start of a later one; a range may end d before it starts.
Spaced(l, lo, hi, d, g) ==
    /\ \A i \in DOMAIN l : lo <= l[i].start /\ l[i].start <= l[i].end + d /\ l[i].end <= hi
    /\ \A i, j \in DOMAIN l : i < j => l[i].end + g < l[j].start

LEMMA Fields ==
    ASSUME NEW l \in Seq(IPRange), NEW i \in DOMAIN l
    PROVE  l[i] \in IPRange /\ l[i].start \in Nat /\ l[i].end \in Nat
                /\ l[i].start < Top /\ l[i].end < Top
<1>1. l[i] \in IPRange
  OBVIOUS
<1>2. l[i].start \in IPs /\ l[i].end \in IPs
  BY <1>1 DEF IPRange
<1>3. QED
  BY <1>1, <1>2, TopAssumption DEF IPs

\* One list after another.
LEMMA Appended ==
    ASSUME NEW a \in Seq(IPRange), NEW b \in Seq(IPRange)
    PROVE  /\ a \o b \in Seq(IPRange)
           /\ DOMAIN a = 1 .. Len(a) /\ DOMAIN b = 1 .. Len(b) /\ Len(a) \in Nat /\ Len(b) \in Nat
           /\ DOMAIN (a \o b) = 1 .. Len(a) + Len(b)
           /\ \A i \in DOMAIN a : (a \o b)[i] = a[i]
           /\ \A j \in DOMAIN b : (a \o b)[Len(a) + j] = b[j]
           /\ \A i \in DOMAIN (a \o b) : i \notin DOMAIN a => i - Len(a) \in DOMAIN b
OBVIOUS

LEMMA AppendedAt ==
    ASSUME NEW a \in Seq(IPRange), NEW b \in Seq(IPRange), NEW i \in DOMAIN (a \o b)
    PROVE  (i \in DOMAIN a /\ (a \o b)[i] = a[i]) \/ (\E j \in DOMAIN b : (a \o b)[i] = b[j])
<1>1. CASE i \in DOMAIN a
  BY <1>1
<1>2. CASE i \notin DOMAIN a
  <2>1. i - Len(a) \in DOMAIN b /\ (a \o b)[i] = b[i - Len(a)]
    BY <1>2
  <2>2. QED
    BY <2>1, Zenon
<1>3. QED
  BY <1>1, <1>2

LEMMA AppendedMembers ==
    ASSUME NEW a \in Seq(IPRange), NEW b \in Seq(IPRange)
    PROVE  Members(a \o b) = Members(a) \cup Members(b)
<1> DEFINE c == a \o b
<1>1. /\ DOMAIN a = 1 .. Len(a) /\ DOMAIN b = 1 .. Len(b) /\ Len(a) \in Nat /\ Len(b) \in Nat
      /\ DOMAIN c = 1 .. Len(a) + Len(b)
      /\ \A i \in DOMAIN a : c[i] = a[i]
      /\ \A j \in DOMAIN b : c[Len(a) + j] = b[j]
      /\ \A i \in DOMAIN c : i \notin DOMAIN a => i - Len(a) \in DOMAIN b
  BY Appended
<1> HIDE DEF c
<1>2. ASSUME NEW ip \in IPs
      PROVE  (\E i \in DOMAIN c : InRange(c[i], ip)) <=>
                (\E i \in DOMAIN a : InRange(a[i], ip)) \/ (\E j \in DOMAIN b : InRange(b[j], ip))
  <2>1. ASSUME NEW i \in DOMAIN c, InRange(c[i], ip)
        PROVE  (\E j \in DOMAIN a : InRange(a[j], ip)) \/ (\E j \in DOMAIN b : InRange(b[j], ip))
    <3>1. CASE i \in DOMAIN a
      BY <1>1, <2>1, <3>1, Zenon
    <3>2. CASE i \notin DOMAIN a
      <4>1. i - Len(a) \in DOMAIN b /\ Len(a) + (i - Len(a)) = i
        BY <1>1, <3>2
      <4>2. b[i - Len(a)] = c[i]
        BY <1>1, <4>1, Zenon
      <4>3. QED
        BY <2>1, <4>1, <4>2, Zenon
    <3>3. QED
      BY <3>1, <3>2
  <2>2. ASSUME NEW i \in DOMAIN a, InRange(a[i], ip) PROVE \E j \in DOMAIN c : InRange(c[j], ip)
    <3>1. i \in DOMAIN c
      BY <1>1
    <3>2. QED
      BY <1>1, <2>2, <3>1, Zenon
  <2>3. ASSUME NEW i \in DOMAIN b, InRange(b[i], ip) PROVE \E j \in DOMAIN c : InRange(c[j], ip)
    <3>1. Len(a) + i \in DOMAIN c
      BY <1>1
    <3>2. QED
      BY <1>1, <2>3, <3>1, Zenon
  <2>4. QED
    BY <2>1, <2>2, <2>3, Zenon
<1>3. QED
  BY <1>2, Zenon DEF Members, c

LEMMA AppendedSpaced ==
    ASSUME NEW a \in Seq(IPRange), NEW b \in Seq(IPRange),
           NEW lo \in Int, NEW hi \in Int, NEW d \in Int, NEW g \in Int,
           Spaced(a, lo, hi, d, g), Spaced(b, lo, hi, d, g),
           \A i \in DOMAIN a, j \in DOMAIN b : a[i].end + g < b[j].start
    PROVE  Spaced(a \o b, lo, hi, d, g)
<1> DEFINE c == a \o b
           P(r) == lo <= r.start /\ r.start <= r.end + d /\ r.end <= hi
           Q(r, s) == r.end + g < s.start
<1>1. /\ DOMAIN a = 1 .. Len(a) /\ DOMAIN b = 1 .. Len(b) /\ Len(a) \in Nat /\ Len(b) \in Nat
      /\ DOMAIN c = 1 .. Len(a) + Len(b)
      /\ \A i \in DOMAIN a : c[i] = a[i]
      /\ \A j \in DOMAIN b : c[Len(a) + j] = b[j]
      /\ \A i \in DOMAIN c : i \notin DOMAIN a => i - Len(a) \in DOMAIN b
  BY Appended
<1>2. /\ (\A i \in DOMAIN a : P(a[i])) /\ \A i, j \in DOMAIN a : i < j => Q(a[i], a[j])
      /\ (\A i \in DOMAIN b : P(b[i])) /\ \A i, j \in DOMAIN b : i < j => Q(b[i], b[j])
      /\ \A i \in DOMAIN a, j \in DOMAIN b : Q(a[i], b[j])
  BY DEF Spaced
<1> HIDE DEF c, P, Q
<1>3. \A i \in DOMAIN c : i \notin DOMAIN a => i - Len(a) \in DOMAIN b /\ c[i] = b[i - Len(a)]
  <2> SUFFICES ASSUME NEW i \in DOMAIN c, i \notin DOMAIN a
               PROVE  i - Len(a) \in DOMAIN b /\ c[i] = b[i - Len(a)]
    OBVIOUS
  <2>1. i - Len(a) \in DOMAIN b /\ Len(a) + (i - Len(a)) = i
    BY <1>1
  <2>2. QED
    BY <1>1, <2>1, Zenon
<1>4. ASSUME NEW i \in DOMAIN c PROVE P(c[i])
  BY <1>1, <1>2, <1>3, Zenon
<1>5. ASSUME NEW i \in DOMAIN c, NEW j \in DOMAIN c, i < j PROVE Q(c[i], c[j])
  <2>1. CASE i \in DOMAIN a /\ j \in DOMAIN a
    BY <1>1, <1>2, <1>5, <2>1, Zenon
  <2>2. CASE i \in DOMAIN a /\ j \notin DOMAIN a
    BY <1>1, <1>2, <1>3, <2>2, Zenon
  <2>3. CASE i \notin DOMAIN a
    <3>1. j \notin DOMAIN a /\ i - Len(a) < j - Len(a)
      BY <1>1, <1>5, <2>3
    <3>2. QED
      BY <1>2, <1>3, <2>3, <3>1, Zenon
  <2>4. QED
    BY <2>1, <2>2, <2>3
<1>6. QED
  BY <1>4, <1>5 DEF Spaced, P, Q, c

LEMMA PartSpaced ==
    ASSUME NEW l \in Seq(IPRange), NEW m \in 1 .. Len(l) + 1, NEW n \in 0 .. Len(l),
           NEW lo \in Int, NEW hi \in Int, NEW d \in Int, NEW g \in Int,
           Spaced(l, lo, hi, d, g)
    PROVE  Spaced(SubSeq(l, m, n), lo, hi, d, g)
<1> DEFINE c == SubSeq(l, m, n)
           P(r) == lo <= r.start /\ r.start <= r.end + d /\ r.end <= hi
           Q(r, s) == r.end + g < s.start
<1>1. /\ c \in Seq(IPRange) /\ Len(c) = (IF m <= n THEN n - m + 1 ELSE 0)
      /\ \A i \in 1 .. n - m + 1 : c[i] = l[m + i - 1]
  BY SubSeqType
<1>2. /\ (\A i \in DOMAIN l : P(l[i])) /\ \A i, j \in DOMAIN l : i < j => Q(l[i], l[j])
  BY DEF Spaced
<1>3. DOMAIN l = 1 .. Len(l) /\ Len(l) \in Nat /\ DOMAIN c = 1 .. Len(c)
  BY <1>1
<1> HIDE DEF c, P, Q
<1>4. ASSUME NEW i \in DOMAIN c
      PROVE  i \in Int /\ m + i - 1 \in DOMAIN l /\ c[i] = l[m + i - 1]
  <2>1. i \in 1 .. n - m + 1
    BY <1>1, <1>3
  <2>2. i \in Int /\ m + i - 1 \in 1 .. Len(l)
    BY <1>3, <2>1
  <2>3. QED
    BY <1>1, <1>3, <2>1, <2>2
<1>5. ASSUME NEW i \in DOMAIN c PROVE P(c[i])
  BY <1>2, <1>4, Zenon
<1>6. ASSUME NEW i \in DOMAIN c, NEW j \in DOMAIN c, i < j PROVE Q(c[i], c[j])
  <2>1. m + i - 1 < m + j - 1
    BY <1>4, <1>6
  <2>2. QED
    BY <1>2, <1>4, <2>1, Zenon
<1>7. QED
  BY <1>5, <1>6 DEF Spaced, P, Q, c

\* Lists of one range each, and one list of any length after them.
LEMMA ConcatPrefix ==
    ASSUME NEW ss \in Seq(Seq(IPRange)), ss # <<>>, NEW l \in Seq(IPRange), Len(ss) <= Len(l),
           \A i \in 1 .. Len(ss) - 1 : ss[i] = <<l[i]>>
    PROVE  Concat(ss) = SubSeq(l, 1, Len(ss) - 1) \o ss[Len(ss)]
<1> DEFINE n == Len(ss)
           c == Concats(ss)
           T == {k \in 0 .. n - 1 : c[k] = SubSeq(l, 1, k)}
<1>1. /\ n \in Nat /\ n >= 1 /\ n - 1 \in Nat /\ n \in 1 .. n
      /\ c[0] = <<>> /\ \A k \in 1 .. n : c[k] = c[k - 1] \o ss[k]
  <2>1. c[0] = <<>> /\ \A k \in 1 .. n : c[k] = c[k - 1] \o ss[k]
    BY ConcatsAre
  <2>2. n \in Nat /\ n # 0
    OBVIOUS
  <2> HIDE DEF n
  <2>3. n >= 1 /\ n - 1 \in Nat /\ n \in 1 .. n
    BY <2>2
  <2>4. QED
    BY <2>1, <2>2, <2>3
<1>2. 0 \in T
  <2>1. SubSeq(l, 1, 0) = <<>>
    BY SubSeqEmpty
  <2>2. 0 \in 0 .. n - 1
    BY <1>1
  <2>3. QED
    BY <1>1, <2>1, <2>2
<1>3. ASSUME NEW k \in 1 .. n - 1, k - 1 \in T PROVE k \in T
  <2>1. k \in 1 .. n /\ k \in 0 .. n - 1 /\ k \in 1 .. Len(l) /\ ss[k] = <<l[k]>>
    BY <1>1
  <2>2. c[k] = SubSeq(l, 1, k - 1) \o <<l[k]>>
    BY <1>1, <1>3, <2>1
  <2>3. SubSeq(l, 1, k - 1) \o <<l[k]>> = SubSeq(l, 1, k)
    <3> DEFINE a == SubSeq(l, 1, k - 1)
               b == SubSeq(l, 1, k)
    <3>1. /\ a \in Seq(IPRange) /\ Len(a) = k - 1 /\ \A i \in 1 .. k - 1 : a[i] = l[i]
      <4>1. 1 \in 1 .. Len(l) + 1 /\ k - 1 \in 0 .. Len(l)
        BY <2>1
      <4>2. /\ a \in Seq(IPRange) /\ Len(a) = (IF 1 <= k - 1 THEN k - 1 - 1 + 1 ELSE 0)
            /\ \A i \in 1 .. k - 1 - 1 + 1 : a[i] = l[1 + i - 1]
        BY <4>1, SubSeqType
      <4> HIDE DEF a
      <4>3. QED
        BY <2>1, <4>2
    <3>2. /\ b \in Seq(IPRange) /\ Len(b) = k /\ \A i \in 1 .. k : b[i] = l[i]
      <4>1. 1 \in 1 .. Len(l) + 1 /\ k \in 0 .. Len(l)
        BY <2>1
      <4>2. /\ b \in Seq(IPRange) /\ Len(b) = (IF 1 <= k THEN k - 1 + 1 ELSE 0)
            /\ \A i \in 1 .. k - 1 + 1 : b[i] = l[1 + i - 1]
        BY <4>1, SubSeqType
      <4> HIDE DEF b
      <4>3. QED
        BY <2>1, <4>2
    <3>3. l[k] \in IPRange
      BY <2>1
    <3> HIDE DEF a, b
    <3>4. a \o <<l[k]>> = b
      BY <2>1, <3>1, <3>2, <3>3
    <3>5. QED
      BY <3>4 DEF a, b
  <2>4. QED
    BY <2>1, <2>2, <2>3
<1>4. 0 .. n - 1 \subseteq T
  <2> HIDE DEF T, n
  <2>1. QED
    BY <1>1, <1>2, <1>3, LoopInduction
<1>5. n - 1 \in T
  <2>1. n - 1 \in 0 .. n - 1
    BY <1>1
  <2>2. QED
    BY <1>4, <2>1, Zenon
<1>6. c[n] = c[n - 1] \o ss[n]
  BY <1>1, Zenon
<1>7. QED
  BY <1>5, <1>6 DEF Concat

\* A list of ranges is what is before a place, what is there and what is after it.
LEMMA Halves ==
    ASSUME NEW l \in Seq(IPRange), NEW k \in 1 .. Len(l)
    PROVE  /\ l = SubSeq(l, 1, k - 1) \o <<l[k]>> \o SubSeq(l, k + 1, Len(l))
           /\ SubSeq(l, 1, k - 1) \in Seq(IPRange) /\ SubSeq(l, k + 1, Len(l)) \in Seq(IPRange)
           /\ <<l[k]>> \in Seq(IPRange)
           /\ DOMAIN SubSeq(l, 1, k - 1) = 1 .. k - 1
           /\ \A i \in 1 .. k - 1 : SubSeq(l, 1, k - 1)[i] = l[i]
           /\ DOMAIN SubSeq(l, k + 1, Len(l)) = 1 .. Len(l) - k
           /\ \A i \in 1 .. Len(l) - k : SubSeq(l, k + 1, Len(l))[i] = l[k + i]
<1> DEFINE a == SubSeq(l, 1, k - 1)
           b == SubSeq(l, k + 1, Len(l))
<1>1. Len(l) \in Nat /\ k \in Nat /\ k >= 1 /\ k <= Len(l) /\ l[k] \in IPRange
  OBVIOUS
<1>2. /\ a \in Seq(IPRange) /\ Len(a) = k - 1 /\ \A i \in 1 .. k - 1 : a[i] = l[i]
  <2>1. 1 \in 1 .. Len(l) + 1 /\ k - 1 \in 0 .. Len(l)
    BY <1>1
  <2>2. /\ a \in Seq(IPRange) /\ Len(a) = (IF 1 <= k - 1 THEN k - 1 - 1 + 1 ELSE 0)
        /\ \A i \in 1 .. k - 1 - 1 + 1 : a[i] = l[1 + i - 1]
    BY <2>1, SubSeqType
  <2> HIDE DEF a
  <2>3. QED
    BY <1>1, <2>2
<1>3. /\ b \in Seq(IPRange) /\ Len(b) = Len(l) - k /\ \A i \in 1 .. Len(l) - k : b[i] = l[k + i]
  <2>1. k + 1 \in 1 .. Len(l) + 1 /\ Len(l) \in 0 .. Len(l)
    BY <1>1
  <2>2. /\ b \in Seq(IPRange) /\ Len(b) = (IF k + 1 <= Len(l) THEN Len(l) - (k + 1) + 1 ELSE 0)
        /\ \A i \in 1 .. Len(l) - (k + 1) + 1 : b[i] = l[k + 1 + i - 1]
    BY <2>1, SubSeqType
  <2> HIDE DEF b
  <2>3. Len(b) = Len(l) - k
    BY <1>1, <2>2
  <2>4. ASSUME NEW i \in 1 .. Len(l) - k PROVE b[i] = l[k + i]
    <3>1. i \in 1 .. Len(l) - (k + 1) + 1 /\ k + 1 + i - 1 = k + i
      BY <1>1
    <3>2. QED
      BY <2>2, <3>1
  <2>5. QED
    BY <2>2, <2>3, <2>4
<1> HIDE DEF a, b
<1>4. l = a \o <<l[k]>> \o b
  <2> DEFINE e == <<l[k]>>
             h == a \o e
             m == h \o b
  <2>1. e \in Seq(IPRange) /\ Len(e) = 1 /\ e[1] = l[k]
    BY <1>1
  <2> HIDE DEF e
  <2>2. h \in Seq(IPRange) /\ Len(h) = k /\ \A i \in 1 .. k : h[i] = l[i]
    <3>1. /\ h \in Seq(IPRange) /\ Len(h) = Len(a) + Len(e)
          /\ \A i \in 1 .. Len(a) + Len(e) : h[i] = IF i <= Len(a) THEN a[i] ELSE e[i - Len(a)]
      BY <1>2, <2>1, ConcatProperties
    <3> HIDE DEF h
    <3>2. Len(h) = k
      BY <1>1, <1>2, <2>1, <3>1
    <3>3. ASSUME NEW i \in 1 .. k PROVE h[i] = l[i]
      <4>1. i \in 1 .. Len(a) + Len(e)
        BY <1>1, <1>2, <2>1
      <4>2. CASE i <= k - 1
        BY <1>1, <1>2, <3>1, <4>1, <4>2
      <4>3. CASE i = k
        <5>1. ~ (i <= Len(a)) /\ i - Len(a) = 1
          BY <1>1, <1>2, <4>3
        <5>2. QED
          BY <2>1, <3>1, <4>1, <4>3, <5>1
      <4>4. QED
        BY <1>1, <4>2, <4>3
    <3>4. QED
      BY <3>1, <3>2, <3>3
  <2> HIDE DEF h
  <2>3. /\ m \in Seq(IPRange) /\ Len(m) = Len(l)
        /\ \A i \in 1 .. Len(l) : m[i] = IF i <= k THEN h[i] ELSE b[i - k]
    <3>1. /\ m \in Seq(IPRange) /\ Len(m) = Len(h) + Len(b)
          /\ \A i \in 1 .. Len(h) + Len(b) : m[i] = IF i <= Len(h) THEN h[i] ELSE b[i - Len(h)]
      BY <1>3, <2>2, ConcatProperties
    <3> HIDE DEF m
    <3>2. Len(h) + Len(b) = Len(l)
      BY <1>1, <1>3, <2>2
    <3>3. QED
      BY <2>2, <3>1, <3>2
  <2> HIDE DEF m
  <2>4. ASSUME NEW i \in 1 .. Len(l) PROVE m[i] = l[i]
    <3>1. CASE i <= k
      BY <1>1, <2>2, <2>3, <3>1
    <3>2. CASE i > k
      <4>1. i - k \in 1 .. Len(l) - k /\ k + (i - k) = i
        BY <1>1, <3>2
      <4>2. b[i - k] = l[i]
        BY <1>3, <4>1
      <4>3. QED
        BY <1>1, <2>3, <3>2, <4>2
    <3>3. QED
      BY <1>1, <3>1, <3>2
  <2>5. m = l
    BY <2>3, <2>4
  <2>6. QED
    BY <2>5 DEF m, h, e
<1>5. <<l[k]>> \in Seq(IPRange)
  BY <1>1
<1>6. DOMAIN a = 1 .. k - 1 /\ DOMAIN b = 1 .. Len(l) - k
  BY <1>2, <1>3
<1>7. QED
  BY <1>2, <1>3, <1>4, <1>5, <1>6 DEF a, b

LEMMA SpacedWeaker ==
    ASSUME NEW l \in Seq(IPRange), NEW lo \in Int, NEW hi \in Int,
           NEW d \in Int, NEW e \in Int, d <= e, NEW g \in Int, NEW h \in Int, h <= g,
           Spaced(l, lo, hi, d, g)
    PROVE  Spaced(l, lo, hi, e, h)
<1>1. ASSUME NEW i \in DOMAIN l
      PROVE  lo <= l[i].start /\ l[i].start <= l[i].end + e /\ l[i].end <= hi
  BY Fields DEF Spaced
<1>2. ASSUME NEW i \in DOMAIN l, NEW j \in DOMAIN l, i < j PROVE l[i].end + h < l[j].start
  <2>1. l[i].end \in Int /\ l[j].start \in Int /\ l[i].end + g < l[j].start
    BY <1>2, Fields DEF Spaced
  <2>2. QED
    BY <2>1
<1>3. QED
  BY <1>1, <1>2 DEF Spaced

\* Range k of a list gives way to ranges D inside it that have all of its addresses but ip.
Replaces(l, k, D, lo, hi, d, e, ip) ==
    /\ l \in Seq(IPRange) /\ k \in 1 .. Len(l) /\ D \in Seq(IPRange)
    /\ {lo, hi, d, e} \subseteq Int /\ d <= e
    /\ Spaced(l, lo, hi, d, 1) /\ Spaced(D, lo, hi, e, 1)
    /\ \A i \in DOMAIN D : l[k].start <= D[i].start /\ D[i].end <= l[k].end
    /\ ip \in RangeMembers(l[k]) /\ Members(D) = RangeMembers(l[k]) \ {ip}

LEMMA Replaced ==
    ASSUME NEW l, NEW k, NEW D, NEW lo, NEW hi, NEW d, NEW e, NEW ip,
           Replaces(l, k, D, lo, hi, d, e, ip)
    PROVE  /\ Spaced(SubSeq(l, 1, k - 1) \o D \o SubSeq(l, k + 1, Len(l)), lo, hi, e, 1)
           /\ Members(SubSeq(l, 1, k - 1) \o D \o SubSeq(l, k + 1, Len(l))) = Members(l) \ {ip}
<1> SUFFICES
        ASSUME l \in Seq(IPRange), k \in 1 .. Len(l), D \in Seq(IPRange),
               lo \in Int, hi \in Int, d \in Int, e \in Int, d <= e,
               Spaced(l, lo, hi, d, 1), Spaced(D, lo, hi, e, 1),
               \A i \in DOMAIN D : l[k].start <= D[i].start /\ D[i].end <= l[k].end,
               ip \in RangeMembers(l[k]), Members(D) = RangeMembers(l[k]) \ {ip}
        PROVE  /\ Spaced(SubSeq(l, 1, k - 1) \o D \o SubSeq(l, k + 1, Len(l)), lo, hi, e, 1)
               /\ Members(SubSeq(l, 1, k - 1) \o D \o SubSeq(l, k + 1, Len(l))) = Members(l) \ {ip}
  BY DEF Replaces
<1> DEFINE a == SubSeq(l, 1, k - 1)
           b == SubSeq(l, k + 1, Len(l))
           c == <<l[k]>>
<1>1. /\ l = a \o c \o b
      /\ a \in Seq(IPRange) /\ b \in Seq(IPRange) /\ c \in Seq(IPRange)
      /\ DOMAIN a = 1 .. k - 1 /\ \A i \in 1 .. k - 1 : a[i] = l[i]
      /\ DOMAIN b = 1 .. Len(l) - k /\ \A i \in 1 .. Len(l) - k : b[i] = l[k + i]
  BY Halves
<1>2. Spaced(a, lo, hi, e, 1) /\ Spaced(b, lo, hi, e, 1)
  <2>1. 1 \in 1 .. Len(l) + 1 /\ k - 1 \in 0 .. Len(l) /\ k + 1 \in 1 .. Len(l) + 1 /\ Len(l) \in 0 .. Len(l)
        /\ 1 \in Int /\ 1 <= 1
    OBVIOUS
  <2>2. Spaced(a, lo, hi, d, 1)
    BY <2>1, PartSpaced, Zenon
  <2>3. Spaced(b, lo, hi, d, 1)
    BY <2>1, PartSpaced, Zenon
  <2> HIDE DEF a, b
  <2>4. Spaced(a, lo, hi, e, 1)
    BY <1>1, <2>1, <2>2, SpacedWeaker, Zenon
  <2>5. Spaced(b, lo, hi, e, 1)
    BY <1>1, <2>1, <2>3, SpacedWeaker, Zenon
  <2>6. QED
    BY <2>4, <2>5
<1>3. Members(l) = Members(a) \cup RangeMembers(l[k]) \cup Members(b)
  <2>1. Members(c) = RangeMembers(l[k])
    BY FewMembers
  <2> HIDE DEF a, b, c
  <2>2. a \o c \in Seq(IPRange) /\ Members(a \o c) = Members(a) \cup Members(c)
    BY <1>1, Appended, AppendedMembers
  <2>3. Members(l) = Members(a \o c) \cup Members(b)
    BY <1>1, <2>2, AppendedMembers, Zenon
  <2>4. QED
    BY <2>1, <2>2, <2>3
<1> HIDE DEF a, b, c
<1>4. k \in DOMAIN l /\ l[k].start \in Int /\ l[k].end \in Int
  <2>1. k \in DOMAIN l
    OBVIOUS
  <2>2. QED
    BY <2>1, Fields
<1>5. ASSUME NEW i \in DOMAIN a
      PROVE  a[i] \in IPRange /\ a[i].start \in Int /\ a[i].end \in Int /\ a[i].end + 1 < l[k].start
  <2>1. i \in DOMAIN l /\ i < k /\ a[i] = l[i]
    BY <1>1
  <2>2. QED
    BY <1>4, <2>1, Fields DEF Spaced
<1>6. ASSUME NEW j \in DOMAIN b
      PROVE  /\ b[j] \in IPRange /\ b[j].start \in Int /\ b[j].end \in Int
             /\ l[k].end + 1 < b[j].start
             /\ k + j \in DOMAIN l /\ k < k + j /\ b[j] = l[k + j]
  <2>1. k + j \in DOMAIN l /\ k < k + j /\ b[j] = l[k + j]
    BY <1>1
  <2>2. QED
    BY <1>4, <2>1, Fields DEF Spaced
<1>7. ASSUME NEW i \in DOMAIN a, NEW j \in DOMAIN b PROVE a[i].end + 1 < b[j].start
  <2>1. i \in DOMAIN l /\ i < k + j /\ a[i] = l[i]
    BY <1>1
  <2>2. k + j \in DOMAIN l /\ b[j] = l[k + j]
    BY <1>6
  <2>3. QED
    BY <2>1, <2>2 DEF Spaced
<1>8. Spaced(a \o D, lo, hi, e, 1) /\ a \o D \in Seq(IPRange)
  <2>1. ASSUME NEW i \in DOMAIN a, NEW j \in DOMAIN D PROVE a[i].end + 1 < D[j].start
    <3>1. D[j].start \in Int /\ l[k].start <= D[j].start
      BY Fields
    <3>2. QED
      BY <1>4, <1>5, <3>1
  <2>2. 1 \in Int
    OBVIOUS
  <2>3. QED
    BY <1>1, <1>2, <2>1, <2>2, Appended, AppendedSpaced, Zenon
<1>9. Spaced((a \o D) \o b, lo, hi, e, 1)
  <2> DEFINE h == a \o D
  <2>1. ASSUME NEW i \in DOMAIN h, NEW j \in DOMAIN b PROVE h[i].end + 1 < b[j].start
    <3>1. CASE i \in DOMAIN a /\ h[i] = a[i]
      BY <1>7, <3>1
    <3>2. CASE \E n \in DOMAIN D : h[i] = D[n]
      <4>1. PICK n \in DOMAIN D : h[i] = D[n]
        BY <3>2
      <4>2. D[n].end \in Int /\ D[n].end <= l[k].end
        BY Fields
      <4>3. b[j].start \in Int /\ l[k].end + 1 < b[j].start
        BY <1>6
      <4>4. D[n].end + 1 < b[j].start
        BY <1>4, <4>2, <4>3
      <4>5. QED
        BY <4>1, <4>4
    <3>3. \/ i \in DOMAIN a /\ h[i] = a[i]
          \/ \E n \in DOMAIN D : h[i] = D[n]
      <4>1. a \in Seq(IPRange) /\ D \in Seq(IPRange)
        BY <1>1
      <4>2. QED
        BY <4>1, AppendedAt
    <3>4. QED
      BY <3>1, <3>2, <3>3
  <2>2. h \in Seq(IPRange) /\ Spaced(h, lo, hi, e, 1)
    BY <1>8
  <2> HIDE DEF h
  <2>3. Spaced(h \o b, lo, hi, e, 1)
    <3>1. 1 \in Int
      OBVIOUS
    <3>2. QED
      BY <1>1, <1>2, <2>1, <2>2, <3>1, AppendedSpaced, Zenon
  <2>4. QED
    BY <2>3 DEF h
<1>10. Members((a \o D) \o b) = Members(a) \cup Members(D) \cup Members(b)
  <2>1. Members((a \o D) \o b) = Members(a \o D) \cup Members(b)
    BY <1>1, <1>8, AppendedMembers, Zenon
  <2>2. Members(a \o D) = Members(a) \cup Members(D)
    BY <1>1, AppendedMembers, Zenon
  <2>3. QED
    BY <2>1, <2>2
<1>11. ip \in IPs /\ l[k].start <= ip /\ ip <= l[k].end /\ ip \in Int
  BY TopAssumption DEF RangeMembers, InRange, IPs
<1>12. ip \notin Members(a) /\ ip \notin Members(b)
  <2>1. ASSUME NEW i \in DOMAIN a, InRange(a[i], ip) PROVE FALSE
    BY <1>4, <1>5, <1>11, <2>1 DEF InRange
  <2>2. ASSUME NEW i \in DOMAIN b, InRange(b[i], ip) PROVE FALSE
    BY <1>4, <1>6, <1>11, <2>2 DEF InRange
  <2>3. QED
    BY <2>1, <2>2 DEF Members
<1>13. Members((a \o D) \o b) = Members(l) \ {ip}
  BY <1>3, <1>10, <1>12
<1>14. QED
  BY <1>9, <1>13 DEF a, b

\* What is left of a range is in order and inside it; only where the end of a longer range
\* is taken, a part ends before it starts.
Takes(r, ip, lo, hi, e) ==
    /\ r \in IPRange /\ ip \in RangeMembers(r) /\ {lo, hi} \subseteq Int
    /\ lo <= r.start /\ r.end <= hi /\ hi + 1 < Top
    /\ e \in {0, 1} /\ (r.end = ip /\ r.start < ip => e = 1)

LEMMA PiecesSpaced ==
    ASSUME NEW r, NEW ip, NEW lo, NEW hi, NEW e, Takes(r, ip, lo, hi, e)
    PROVE  /\ Pieces(r, ip) \in Seq(IPRange)
           /\ Spaced(Pieces(r, ip), lo, hi, e, 1)
           /\ \A i \in DOMAIN Pieces(r, ip) :
                r.start <= Pieces(r, ip)[i].start /\ Pieces(r, ip)[i].end <= r.end
           /\ Members(Pieces(r, ip)) = RangeMembers(r) \ {ip}
<1> SUFFICES
        ASSUME r \in IPRange, ip \in RangeMembers(r), lo \in Int, hi \in Int,
               lo <= r.start, r.end <= hi, hi + 1 < Top,
               e \in {0, 1}, r.end = ip /\ r.start < ip => e = 1
        PROVE  /\ Pieces(r, ip) \in Seq(IPRange)
               /\ Spaced(Pieces(r, ip), lo, hi, e, 1)
               /\ \A i \in DOMAIN Pieces(r, ip) :
                    r.start <= Pieces(r, ip)[i].start /\ Pieces(r, ip)[i].end <= r.end
               /\ Members(Pieces(r, ip)) = RangeMembers(r) \ {ip}
  BY DEF Takes
<1> DEFINE s == r.start
           t == r.end
           D == Pieces(r, ip)
<1>1. /\ s \in Nat /\ t \in Nat /\ ip \in Nat /\ s <= ip /\ ip <= t /\ t + 1 < Top /\ ip \in IPs
      /\ lo <= s /\ t <= hi /\ (t = ip /\ s < ip => e = 1) /\ s \in IPs /\ t \in IPs
  BY TopAssumption DEF IPRange, RangeMembers, InRange, IPs
<1>2. Add(ip, 1) = ip + 1 /\ (s # ip => Sub(ip, 1) = ip - 1) /\ ip + 1 < Top /\ s <= t
  <2> HIDE DEF s, t, D
  <2>1. ip + 1 < Top /\ (s # ip => ip > 0) /\ s <= t
    BY <1>1, TopAssumption
  <2>2. QED
    BY <1>1, <2>1, NoWrap
<1>3. \A x, y : Rg(x, y).start = x /\ Rg(x, y).end = y
  BY DEF Rg
<1>4. D \in Seq(IPRange)
  BY <1>1, PiecesType
<1>5. Members(D) = RangeMembers(r) \ {ip}
  BY <1>2, PiecesExact
<1>6. Spaced(D, lo, hi, e, 1) /\ \A i \in DOMAIN D : s <= D[i].start /\ D[i].end <= t
  <2>1. CASE s = ip /\ t = ip
    <3>1. D = <<>>
      BY <2>1 DEF Pieces
    <3>2. QED
      BY <3>1 DEF Spaced
  <2>2. CASE s = ip /\ t # ip
    <3>1. D = <<Rg(ip + 1, t)>>
      BY <1>2, <2>2 DEF Pieces
    <3> HIDE DEF D, s, t
    <3>2. DOMAIN D = {1} /\ D[1].start = ip + 1 /\ D[1].end = t
      BY <1>3, <3>1
    <3>3. QED
      BY <1>1, <2>2, <3>2 DEF Spaced
  <2>3. CASE s # ip
    <3>1. D = <<Rg(s, ip - 1), Rg(ip + 1, t)>>
      BY <1>2, <2>3 DEF Pieces
    <3> HIDE DEF D, s, t
    <3>2. DOMAIN D = {1, 2} /\ D[1] = Rg(s, ip - 1) /\ D[2] = Rg(ip + 1, t)
      BY <3>1
    <3>3. D[1].start = s /\ D[1].end = ip - 1 /\ D[2].start = ip + 1 /\ D[2].end = t
      BY <1>3, <3>2
    <3>4. ASSUME NEW i \in DOMAIN D
          PROVE  /\ lo <= D[i].start /\ D[i].start <= D[i].end + e /\ D[i].end <= hi
                 /\ s <= D[i].start /\ D[i].end <= t
      <4>1. CASE i = 1
        BY <1>1, <2>3, <3>3, <4>1
      <4>2. CASE i = 2
        BY <1>1, <2>3, <3>3, <4>2
      <4>3. QED
        BY <3>2, <4>1, <4>2
    <3>5. ASSUME NEW i \in DOMAIN D, NEW j \in DOMAIN D, i < j PROVE D[i].end + 1 < D[j].start
      <4>1. i = 1 /\ j = 2
        BY <3>2, <3>5
      <4>2. QED
        BY <1>1, <3>3, <4>1
    <3>6. QED
      BY <3>4, <3>5 DEF Spaced
  <2>4. QED
    BY <2>1, <2>2, <2>3
<1>7. QED
  BY <1>4, <1>5, <1>6

\* In a list in order only the range that ip is in can start with ip.
LEMMA HitContains ==
    ASSUME NEW l \in Seq(IPRange), NEW lo \in Int, NEW hi \in Int, NEW d \in {0, 1},
           Spaced(l, lo, hi, d, 1), NEW ip \in Members(l), NEW k \in Hits(l, ip)
    PROVE  ip \in RangeMembers(l[k])
<1>1. PICK n \in DOMAIN l : InRange(l[n], ip)
  BY DEF Members
<1>2. /\ ip \in IPs /\ ip \in Nat /\ k \in DOMAIN l
      /\ (l[k].start = ip \/ InRange(l[k], ip))
  BY TopAssumption DEF Members, Hits, IPs
<1>3. /\ l[n].start \in Nat /\ l[n].end \in Nat /\ l[k].start \in Nat /\ l[k].end \in Nat
      /\ l[k].start <= l[k].end + d /\ d \in Int /\ d <= 1
      /\ k < n => l[k].end + 1 < l[n].start
      /\ n < k => l[n].end + 1 < l[k].start
  BY <1>2, Fields DEF Spaced
<1>4. n \in Int /\ k \in Int
  BY <1>2
<1>5. InRange(l[k], ip)
  <2>1. CASE n = k
    BY <1>1, <2>1
  <2>2. CASE k < n
    BY <1>1, <1>2, <1>3, <2>2 DEF InRange
  <2>3. CASE n < k
    BY <1>1, <1>2, <1>3, <2>3 DEF InRange
  <2>4. QED
    BY <1>4, <2>1, <2>2, <2>3
<1>6. QED
  BY <1>2, <1>5 DEF RangeMembers

\* SplitIPRangeList takes a free address out of a list in order, and leaves it in order.
LEMMA SplitListSpaced ==
    ASSUME NEW l \in Seq(IPRange), NEW lo \in Int, NEW hi \in Int, hi + 1 < Top,
           NEW d \in {0, 1}, NEW e \in {0, 1}, d <= e,
           Spaced(l, lo, hi, d, 1), NEW ip \in Members(l), CutsTail(l, ip) => e = 1
    PROVE  /\ Hits(l, ip) # {}
           /\ Spaced(SplitIPRangeList(l, ip), lo, hi, e, 1)
           /\ Members(SplitIPRangeList(l, ip)) = Members(l) \ {ip}
<1>1. Hits(l, ip) # {} /\ ip \in IPs
  BY DEF Members, Hits
<1>2. PICK k \in Hits(l, ip) :
            /\ k \in 1 .. Len(l)
            /\ SplitIPRangeList(l, ip) =
                    SubSeq(l, 1, k - 1) \o Pieces(l[k], ip) \o SubSeq(l, k + 1, Len(l))
  BY <1>1, SplitAt
<1>3. ip \in RangeMembers(l[k])
  BY HitContains
<1>4. l[k] \in IPRange /\ lo <= l[k].start /\ l[k].end <= hi /\ k \in DOMAIN l
  BY <1>2 DEF Spaced
<1>5. l[k].end = ip /\ l[k].start < ip => e = 1
  BY <1>2 DEF CutsTail
<1> DEFINE D == Pieces(l[k], ip)
<1>6. /\ D \in Seq(IPRange) /\ Spaced(D, lo, hi, e, 1)
      /\ \A i \in DOMAIN D : l[k].start <= D[i].start /\ D[i].end <= l[k].end
      /\ Members(D) = RangeMembers(l[k]) \ {ip}
  <2>1. Takes(l[k], ip, lo, hi, e)
    BY <1>3, <1>4, <1>5 DEF Takes
  <2>2. QED
    BY <2>1, PiecesSpaced
<1>7. d \in Int /\ e \in Int
  OBVIOUS
<1> HIDE DEF D
<1> DEFINE n == SubSeq(l, 1, k - 1) \o D \o SubSeq(l, k + 1, Len(l))
<1>8. Spaced(n, lo, hi, e, 1) /\ Members(n) = Members(l) \ {ip}
  <2>1. k \in 1 .. Len(l)
    BY <1>2
  <2>2. Replaces(l, k, D, lo, hi, d, e, ip)
    BY <1>3, <1>6, <1>7, <2>1 DEF Replaces
  <2>3. QED
    BY <2>2, Replaced
<1>9. SplitIPRangeList(l, ip) = n
  BY <1>2 DEF D
<1> HIDE DEF n
<1>10. QED
  BY <1>1, <1>8, <1>9

\* GetRandomAddress takes the first address of the first range, as SplitIPRangeList would.
LEMMA FirstTakenSpaced ==
    ASSUME NEW l \in Seq(IPRange), l # <<>>, NEW lo \in Int, NEW hi \in Int, hi + 1 < Top,
           NEW d \in {0, 1}, Spaced(l, lo, hi, d, 1), l[1].start \in Members(l)
    PROVE  /\ Spaced(FirstTaken(l), lo, hi, d, 1)
           /\ Members(FirstTaken(l)) = Members(l) \ {l[1].start}
<1> DEFINE ip == l[1].start
           D == Pieces(l[1], ip)
           b == SubSeq(l, 1 + 1, Len(l))
<1>1. 1 \in 1 .. Len(l) /\ 1 \in DOMAIN l /\ l[1] \in IPRange
  OBVIOUS
<1>2. 1 \in Hits(l, ip) /\ ip \in Members(l)
  BY <1>1 DEF Hits
<1>3. ip \in RangeMembers(l[1])
  <2> HIDE DEF ip
  <2>1. QED
    BY <1>2, HitContains
<1>4. lo <= l[1].start /\ l[1].end <= hi /\ ~ (l[1].start < ip) /\ l[1].end \in Nat /\ ip \in Nat
  BY <1>1, Fields DEF Spaced
<1>5. /\ D \in Seq(IPRange) /\ Spaced(D, lo, hi, d, 1)
      /\ \A i \in DOMAIN D : l[1].start <= D[i].start /\ D[i].end <= l[1].end
      /\ Members(D) = RangeMembers(l[1]) \ {ip}
  <2> HIDE DEF ip
  <2>1. l[1].end = ip /\ l[1].start < ip => d = 1
    BY <1>4
  <2>2. Takes(l[1], ip, lo, hi, d)
    BY <1>1, <1>3, <1>4, <2>1 DEF Takes
  <2>3. QED
    BY <2>2, PiecesSpaced
<1>6. d \in Int /\ d <= d
  OBVIOUS
<1>7. b \in Seq(IPRange) /\ SubSeq(l, 1, 1 - 1) = <<>> /\ l = <<>> \o <<l[1]>> \o b
  <2>1. SubSeq(l, 1, 1 - 1) = <<>>
    BY SubSeqEmpty
  <2>2. QED
    BY <1>1, <2>1, Halves
<1>8. FirstTaken(l) = <<>> \o D \o b
  <2>1. b = Tail(l)
    BY <1>1, <1>7
  <2>2. CASE l[1].start = l[1].end
    BY <1>7, <2>1, <2>2 DEF FirstTaken, Pieces
  <2>3. CASE l[1].start # l[1].end
    <3> DEFINE q == Rg(Add(ip, 1), l[1].end)
    <3>1. D = <<q>>
      BY <2>3 DEF Pieces
    <3>2. [l[1] EXCEPT !.start = Add(l[1].start, 1)] = q
      BY <1>1 DEF Rg, IPRange
    <3>3. FirstTaken(l) = [l EXCEPT ![1] = q]
      BY <2>3, <3>2 DEF FirstTaken
    <3>4. q \in IPRange
      BY <1>1, <3>2, SumType DEF IPRange
    <3> HIDE DEF q, D, ip
    <3>5. [l EXCEPT ![1] = q] = <<q>> \o Tail(l)
      BY <1>1, <3>4
    <3>6. QED
      BY <1>7, <2>1, <3>1, <3>3, <3>4, <3>5
  <2>4. QED
    BY <2>2, <2>3
<1> HIDE DEF D, ip
<1> DEFINE n == SubSeq(l, 1, 1 - 1) \o D \o SubSeq(l, 1 + 1, Len(l))
<1>9. Spaced(n, lo, hi, d, 1) /\ Members(n) = Members(l) \ {ip}
  <2>1. \A i \in DOMAIN D : l[1].start <= D[i].start /\ D[i].end <= l[1].end
    BY <1>5
  <2>2. Replaces(l, 1, D, lo, hi, d, d, ip)
    BY <1>1, <1>3, <1>5, <1>6, <2>1 DEF Replaces
  <2>3. QED
    BY <2>2, Replaced
<1>10. FirstTaken(l) = n
  BY <1>7, <1>8
<1> HIDE DEF n
<1>11. QED
  BY <1>9, <1>10 DEF ip

--------------------------------------------------------------------------------
(***************************************************************************)
(* Joining ranges, and giving an address back                              *)
(***************************************************************************)

\* Where x is not after y, y follows x exactly when it is x + 1: no sum wraps around.
LEMMA Follows ==
    ASSUME NEW x \in IPs, NEW y \in IPs, x <= y, Top > 1
    PROVE  Add(x, 1) = y <=> x + 1 = y
BY TopAssumption DEF IPs, Add

\* Range r may be added to the list acc, which is in order with gaps of h.
Joinable(acc, r, lo, hi, d, g, h) ==
    /\ acc \in Seq(IPRange) /\ r \in IPRange /\ {lo, hi} \subseteq Int /\ Top > 1
    /\ <<d, g, h>> \in {<<0, 0, 1>>, <<1, 0, 1>>, <<0, -1, -1>>}
    /\ Spaced(acc, lo, hi, d, h)
    /\ lo <= r.start /\ r.start <= r.end + d /\ r.end <= hi
    /\ acc # <<>> => acc[Len(acc)].end + g < r.start

LEMMA JoinSpaced ==
    ASSUME NEW acc, NEW r, NEW lo, NEW hi, NEW d, NEW g, NEW h,
           Joinable(acc, r, lo, hi, d, g, h)
    PROVE  /\ Join(acc, r) \in Seq(IPRange) /\ Join(acc, r) # <<>>
           /\ Join(acc, r)[Len(Join(acc, r))].end = r.end
           /\ Spaced(Join(acc, r), lo, hi, d, h)
           /\ Members(Join(acc, r)) = Members(acc) \cup RangeMembers(r)
<1> DEFINE n == Len(acc)
           J == Join(acc, r)
<1>1. /\ acc \in Seq(IPRange) /\ r \in IPRange /\ lo \in Int /\ hi \in Int /\ Top > 1
      /\ Spaced(acc, lo, hi, d, h)
      /\ lo <= r.start /\ r.start <= r.end + d /\ r.end <= hi
  BY DEF Joinable
<1>2. /\ d \in Int /\ g \in Int /\ h \in Int /\ d <= g + 1 /\ g <= 0 /\ g <= h /\ 0 <= d
      /\ g = 0 => h = 1
      /\ g # 0 => h = g
  <2>1. <<d, g, h>> \in {<<0, 0, 1>>, <<1, 0, 1>>, <<0, -1, -1>>}
    BY DEF Joinable
  <2>2. \/ d = 0 /\ g = 0 /\ h = 1
        \/ d = 1 /\ g = 0 /\ h = 1
        \/ d = 0 /\ g = -1 /\ h = -1
    BY <2>1
  <2>3. QED
    BY <2>2
<1>3. r.start \in Nat /\ r.end \in Nat /\ r.start \in IPs /\ r.end \in IPs
  BY <1>1, TopAssumption DEF IPRange, IPs
<1>4. J \in Seq(IPRange)
  BY <1>1, JoinType
<1>5. CASE acc = <<>>
  <2>1. J = <<r>>
    BY <1>5 DEF Join
  <2>2. Members(J) = RangeMembers(r) /\ Members(acc) = {}
    BY <1>5, <2>1, FewMembers
  <2>3. Spaced(J, lo, hi, d, h)
    BY <1>1, <2>1 DEF Spaced
  <2>4. J # <<>> /\ J[Len(J)].end = r.end
    BY <2>1
  <2>5. QED
    BY <1>4, <2>2, <2>3, <2>4
<1>6. CASE acc # <<>>
  <2> DEFINE q == acc[n]
  <2>1. n \in DOMAIN acc /\ n \in Nat /\ n >= 1 /\ DOMAIN acc = 1 .. n /\ q \in IPRange
    BY <1>1, <1>6
  <2>2. q.start \in Nat /\ q.end \in Nat /\ q.end \in IPs /\ q.end + g < r.start
        /\ q.start <= q.end + d
    <3>1. q.end + g < r.start
      BY <1>6 DEF Joinable
    <3>2. q.start \in Nat /\ q.end \in Nat /\ q.end \in IPs
      BY <2>1, TopAssumption DEF IPRange, IPs
    <3>3. q.start <= q.end + d
      BY <1>1, <2>1 DEF Spaced
    <3>4. QED
      BY <3>1, <3>2, <3>3
  <2>3. Add(q.end, 1) = r.start <=> q.end + 1 = r.start
    <3>1. q.end <= r.start
      <4> DEFINE x == q.end
                 y == r.start
      <4>1. x \in Nat /\ y \in Nat /\ x + g < y
        BY <1>3, <2>2
      <4>2. g = 0 \/ g = -1
        BY <1>2, <2>2 DEF Joinable
      <4> HIDE DEF x, y
      <4>3. x <= y
        BY <4>1, <4>2
      <4>4. QED
        BY <4>3 DEF x, y
    <3>2. QED
      BY <1>1, <1>3, <2>2, <3>1, Follows
  <2>4. CASE q.end + 1 = r.start
    <3> DEFINE w == [q EXCEPT !.end = r.end]
    <3>1. J = [acc EXCEPT ![n] = w]
      BY <1>6, <2>3, <2>4 DEF Join
    <3>2. w.start = q.start /\ w.end = r.end /\ w \in IPRange
      BY <1>3, <2>1 DEF IPRange
    <3> HIDE DEF w, q
    <3>3. DOMAIN J = 1 .. n /\ J[n] = w /\ \A i \in 1 .. n - 1 : J[i] = acc[i]
      BY <1>1, <2>1, <3>1
    <3>4. Len(J) = n /\ J # <<>> /\ J[Len(J)].end = r.end
      BY <1>4, <2>1, <3>2, <3>3
    <3> HIDE DEF J
    <3>5. ASSUME NEW i \in DOMAIN J
          PROVE  lo <= J[i].start /\ J[i].start <= J[i].end + d /\ J[i].end <= hi
      <4>1. CASE i = n
        <5>1. lo <= q.start
          BY <1>1, <2>1 DEF Spaced, q
        <5>2. q.start <= r.end + d
          BY <1>1, <1>2, <1>3, <2>2, <2>4
        <5>3. QED
          BY <1>1, <3>2, <3>3, <4>1, <5>1, <5>2
      <4>2. CASE i # n
        <5>1. i \in 1 .. n - 1 /\ i \in DOMAIN acc
          BY <2>1, <3>3, <4>2
        <5>2. QED
          BY <1>1, <3>3, <5>1 DEF Spaced
      <4>3. QED
        BY <4>1, <4>2
    <3>6. ASSUME NEW i \in DOMAIN J, NEW j \in DOMAIN J, i < j PROVE J[i].end + h < J[j].start
      <4>1. i \in 1 .. n - 1 /\ i \in DOMAIN acc /\ j \in DOMAIN acc /\ J[i] = acc[i]
        BY <2>1, <3>3, <3>6
      <4>2. acc[i].end + h < acc[j].start
        BY <1>1, <3>6, <4>1 DEF Spaced
      <4>3. CASE j = n
        BY <3>2, <3>3, <4>1, <4>2, <4>3 DEF q
      <4>4. CASE j # n
        <5>1. j \in 1 .. n - 1
          BY <2>1, <4>1, <4>4
        <5>2. J[j] = acc[j]
          BY <3>3, <5>1
        <5>3. QED
          BY <4>1, <4>2, <5>2
      <4>5. QED
        BY <4>3, <4>4
    <3>7. ASSUME NEW ip \in IPs
          PROVE  (\E i \in DOMAIN J : InRange(J[i], ip)) <=>
                    (\E i \in DOMAIN acc : InRange(acc[i], ip)) \/ InRange(r, ip)
      <4>1. InRange(w, ip) <=> InRange(q, ip) \/ InRange(r, ip)
        <5>1. ip \in Nat
          BY TopAssumption DEF IPs
        <5>2. q.start <= r.start /\ r.start <= r.end + 1
          <6>1. d <= 1
            BY <1>2
          <6>2. \A x, y \in Nat : x <= y + d => x <= y + 1
            BY <1>2, <6>1
          <6>3. r.start <= r.end + 1
            BY <1>1, <1>3, <6>2
          <6>4. q.start <= q.end + 1
            BY <2>2, <6>2
          <6>5. QED
            BY <2>4, <6>3, <6>4
        <5>3. QED
          BY <1>3, <2>2, <2>4, <3>2, <5>1, <5>2 DEF InRange
      <4>2. \A i \in DOMAIN J : i = n \/ (i \in DOMAIN acc /\ J[i] = acc[i])
        BY <2>1, <3>3
      <4>3. \A i \in DOMAIN acc : i \in DOMAIN J /\ (i = n \/ J[i] = acc[i])
        BY <2>1, <3>3
      <4>4. J[n] = w /\ acc[n] = q /\ n \in DOMAIN J /\ n \in DOMAIN acc
        BY <2>1, <3>3 DEF q
      <4>5. QED
        BY <4>1, <4>2, <4>3, <4>4, Zenon
    <3>8. Members(J) = Members(acc) \cup RangeMembers(r)
      BY <3>7, Zenon DEF Members, RangeMembers
    <3>9. QED
      BY <1>4, <3>4, <3>5, <3>6, <3>8 DEF Spaced, J
  <2>5. CASE q.end + 1 # r.start
    <3>1. J = acc \o <<r>>
      BY <1>1, <1>6, <2>3, <2>5 DEF Join
    <3>2. /\ <<r>> \in Seq(IPRange) /\ Members(<<r>>) = RangeMembers(r)
          /\ Spaced(<<r>>, lo, hi, d, h) /\ DOMAIN <<r>> = {1} /\ <<r>>[1] = r
      <4>1. <<r>> \in Seq(IPRange) /\ DOMAIN <<r>> = {1} /\ <<r>>[1] = r
        BY <1>1
      <4>2. Spaced(<<r>>, lo, hi, d, h)
        BY <1>1, <4>1 DEF Spaced
      <4>3. QED
        BY <4>1, <4>2, FewMembers
    <3>3. Members(J) = Members(acc) \cup RangeMembers(r)
      BY <1>1, <3>1, <3>2, AppendedMembers
    <3>4. J # <<>> /\ J[Len(J)].end = r.end
      BY <1>1, <3>1, <3>2
    <3> HIDE DEF J, q
    <3>5. q.end + h < r.start
      <4>1. CASE g = 0
        BY <1>2, <1>3, <2>2, <2>5, <4>1
      <4>2. CASE g # 0
        BY <1>2, <1>3, <2>2, <4>2
      <4>3. QED
        BY <4>1, <4>2
    <3>6. ASSUME NEW i \in DOMAIN acc PROVE acc[i].end + h < r.start
      <4>1. CASE i = n
        BY <3>5, <4>1 DEF q
      <4>2. CASE i # n
        <5>1. i < n
          BY <2>1, <4>2
        <5>2. acc[i].end + h < q.start /\ acc[i].end \in Nat
          BY <1>1, <2>1, <5>1, Fields DEF Spaced, q
        <5>3. q.start <= r.start
          BY <1>2, <1>3, <2>2
        <5>4. QED
          BY <1>2, <1>3, <2>2, <5>2, <5>3
      <4>3. QED
        BY <4>1, <4>2
    <3>7. \A i \in DOMAIN acc, j \in DOMAIN <<r>> : acc[i].end + h < <<r>>[j].start
      BY <3>2, <3>6
    <3>8. Spaced(acc \o <<r>>, lo, hi, d, h)
      BY <1>1, <1>2, <3>2, <3>7, AppendedSpaced, Zenon
    <3>9. QED
      BY <1>4, <3>1, <3>3, <3>4, <3>8 DEF J
  <2>6. QED
    BY <2>4, <2>5
<1>7. QED
  BY <1>5, <1>6

\* The addresses of the first k ranges of a list.
MembersTo(l, k) == {ip \in IPs : \E i \in 1 .. k : InRange(l[i], ip)}

LEMMA MembersToNext ==
    ASSUME NEW l \in Seq(IPRange), NEW k \in 1 .. Len(l)
    PROVE  MembersTo(l, k) = MembersTo(l, k - 1) \cup RangeMembers(l[k])
<1>1. ASSUME NEW ip \in IPs
      PROVE  (\E i \in 1 .. k : InRange(l[i], ip)) <=>
                (\E i \in 1 .. k - 1 : InRange(l[i], ip)) \/ InRange(l[k], ip)
  <2>1. /\ \A i \in 1 .. k : i = k \/ i \in 1 .. k - 1
        /\ \A i \in 1 .. k - 1 : i \in 1 .. k
        /\ k \in 1 .. k
    OBVIOUS
  <2>2. QED
    BY <2>1, Zenon
<1>2. QED
  BY <1>1, Zenon DEF MembersTo, RangeMembers

\* The ranges of a list can be joined one after the other.
JoinableList(l, lo, hi, d, g, h) ==
    /\ l \in Seq(IPRange) /\ {lo, hi} \subseteq Int /\ Top > 1
    /\ <<d, g, h>> \in {<<0, 0, 1>>, <<1, 0, 1>>, <<0, -1, -1>>}
    /\ Spaced(l, lo, hi, d, g)

\* Joined leaves the addresses as they are and gaps between the ranges.
LEMMA JoinedSpaced ==
    ASSUME NEW l, NEW lo, NEW hi, NEW d, NEW g, NEW h, JoinableList(l, lo, hi, d, g, h)
    PROVE  /\ Joined(l) \in Seq(IPRange)
           /\ Spaced(Joined(l), lo, hi, d, h)
           /\ Members(Joined(l)) = Members(l)
<1> DEFINE n == Len(l)
           J == Joins(l)
           Ok(k) == /\ k # 0 => J[k] # <<>> /\ J[k][Len(J[k])].end = l[k].end
                    /\ Spaced(J[k], lo, hi, d, h)
                    /\ Members(J[k]) = MembersTo(l, k)
           T == {k \in 0 .. n : Ok(k)}
<1>1. l \in Seq(IPRange) /\ n \in Nat /\ DOMAIN l = 1 .. n
  BY DEF JoinableList
<1>2. /\ J \in [0 .. n -> Seq(IPRange)] /\ J[0] = <<>>
      /\ \A k \in 1 .. n : J[k] = Join(J[k - 1], l[k])
  BY <1>1, JoinsAre
<1> HIDE DEF J
<1>3. 0 \in T
  <2>1. Members(<<>>) = {} /\ MembersTo(l, 0) = {}
    BY FewMembers DEF MembersTo
  <2>2. Spaced(<<>>, lo, hi, d, h)
    BY DEF Spaced
  <2>3. 0 \in 0 .. n
    BY <1>1
  <2>4. QED
    BY <1>2, <2>1, <2>2, <2>3
<1>4. ASSUME NEW k \in 1 .. n, k - 1 \in T PROVE k \in T
  <2> DEFINE a == J[k - 1]
             r == l[k]
  <2>1. k - 1 \in 0 .. n /\ k \in 0 .. n /\ k \in DOMAIN l /\ k \in Int
    BY <1>1
  <2>2. a \in Seq(IPRange) /\ r \in IPRange /\ J[k] = Join(a, r)
    BY <1>1, <1>2, <2>1
  <2>3. /\ Spaced(a, lo, hi, d, h) /\ Members(a) = MembersTo(l, k - 1)
        /\ k - 1 # 0 => a # <<>> /\ a[Len(a)].end = l[k - 1].end
    BY <1>4
  <2>4. a # <<>> => a[Len(a)].end + g < r.start
    <3>1. CASE k - 1 = 0
      BY <1>2, <3>1
    <3>2. CASE k - 1 # 0
      <4>1. k - 1 \in DOMAIN l /\ k - 1 < k
        BY <1>1, <2>1, <3>2
      <4>2. l[k - 1].end + g < r.start
        BY <2>1, <4>1 DEF JoinableList, Spaced
      <4>3. QED
        BY <2>3, <3>2, <4>2
    <3>3. QED
      BY <3>1, <3>2
  <2>5. lo <= r.start /\ r.start <= r.end + d /\ r.end <= hi
    BY <2>1 DEF JoinableList, Spaced
  <2> HIDE DEF a, r
  <2>6. Joinable(a, r, lo, hi, d, g, h)
    BY <2>2, <2>3, <2>4, <2>5 DEF Joinable, JoinableList
  <2>7. /\ Join(a, r) # <<>> /\ Join(a, r)[Len(Join(a, r))].end = r.end
        /\ Spaced(Join(a, r), lo, hi, d, h)
        /\ Members(Join(a, r)) = Members(a) \cup RangeMembers(r)
    BY <2>6, JoinSpaced
  <2>8. MembersTo(l, k) = MembersTo(l, k - 1) \cup RangeMembers(r)
    BY <1>1, MembersToNext DEF r
  <2>9. Ok(k)
    BY <2>2, <2>3, <2>7, <2>8 DEF r
  <2> HIDE DEF Ok
  <2>10. QED
    BY <2>1, <2>9
<1>5. 0 .. n \subseteq T
  <2> HIDE DEF T, n
  <2>1. QED
    BY <1>1, <1>3, <1>4, LoopInduction
<1>6. n \in T
  <2>1. n \in 0 .. n
    BY <1>1
  <2>2. QED
    BY <1>5, <2>1, Zenon
<1>7. MembersTo(l, n) = Members(l)
  BY <1>1 DEF MembersTo, Members
<1>8. QED
  BY <1>1, <1>6, <1>7, JoinedType DEF Joined, J

LEMMA PrefixMembers ==
    ASSUME NEW l \in Seq(IPRange), NEW m \in 0 .. Len(l)
    PROVE  /\ SubSeq(l, 1, m) \in Seq(IPRange)
           /\ DOMAIN SubSeq(l, 1, m) = 1 .. m
           /\ \A i \in 1 .. m : SubSeq(l, 1, m)[i] = l[i]
           /\ Members(SubSeq(l, 1, m)) = MembersTo(l, m)
<1> DEFINE a == SubSeq(l, 1, m)
<1>1. 1 \in 1 .. Len(l) + 1
  OBVIOUS
<1>2. /\ a \in Seq(IPRange) /\ Len(a) = (IF 1 <= m THEN m - 1 + 1 ELSE 0)
      /\ \A i \in 1 .. m - 1 + 1 : a[i] = l[1 + i - 1]
  BY <1>1, SubSeqType
<1> HIDE DEF a
<1>3. DOMAIN a = 1 .. m /\ \A i \in 1 .. m : a[i] = l[i]
  BY <1>2
<1>4. Members(a) = MembersTo(l, m)
  BY <1>3, Zenon DEF Members, MembersTo
<1>5. QED
  BY <1>2, <1>3, <1>4 DEF a

\* The free list l is in order and ip is in none of its ranges.
Absent(l, lo, hi, d, ip) ==
    /\ l \in Seq(IPRange) /\ {lo, hi} \subseteq Int /\ d \in {0, 1}
    /\ Spaced(l, lo, hi, d, 1)
    /\ ip \in IPs /\ ip \notin Members(l)

\* What stays before ip: all ranges that do not start after it, but for one that starts
\* with ip, has no address and is dropped.
LEMMA KeptBefore ==
    ASSUME NEW l, NEW lo, NEW hi, NEW d, NEW ip, Absent(l, lo, hi, d, ip),
           NEW k \in 1 .. Len(l) + 1, \A i \in 1 .. k - 1 : ~ (l[i].start > ip)
    PROVE  LET A == Concat(Kept(l, k, ip))
           IN  /\ Spaced(A, lo, hi, d, 1)
               /\ \A i \in DOMAIN A : A[i].end < ip
               /\ Members(A) = MembersTo(l, k - 1)
<1> DEFINE A == Concat(Kept(l, k, ip))
           n == Len(l)
<1>1. /\ l \in Seq(IPRange) /\ lo \in Int /\ hi \in Int /\ d \in Int /\ d <= 1 /\ 0 <= d
      /\ Spaced(l, lo, hi, d, 1) /\ ip \in IPs /\ ip \in Nat
      /\ n \in Nat /\ DOMAIN l = 1 .. n
  BY TopAssumption DEF Absent, IPs
<1>2. ASSUME NEW i \in 1 .. k - 1
      PROVE  /\ i \in DOMAIN l /\ l[i] \in IPRange /\ l[i].start \in Nat /\ l[i].end \in Nat
             /\ l[i].start <= ip /\ l[i].end < ip
  <2>1. i \in DOMAIN l /\ l[i] \in IPRange /\ l[i].start \in Nat /\ l[i].end \in Nat
    BY <1>1, Fields
  <2>2. ~ InRange(l[i], ip)
    BY <1>1, <2>1 DEF Absent, Members
  <2>3. l[i].start <= ip
    BY <1>1, <2>1
  <2>4. QED
    BY <1>1, <2>1, <2>2, <2>3 DEF InRange
<1>3. CASE k = 1
  <2>1. Kept(l, k, ip) = <<>>
    BY <1>3 DEF Kept
  <2>2. A = <<>>
    <3>1. <<>> \in Seq(Seq(IPRange)) /\ Len(<<>>) = 0
      OBVIOUS
    <3>2. Concat(<<>>) = <<>>
      BY <3>1, ConcatsAre DEF Concat
    <3>3. QED
      BY <2>1, <3>2
  <2>3. MembersTo(l, k - 1) = {}
    BY <1>3 DEF MembersTo
  <2> HIDE DEF A
  <2>4. Spaced(A, lo, hi, d, 1) /\ \A i \in DOMAIN A : A[i].end < ip
    BY <2>2 DEF Spaced
  <2>5. QED
    BY <2>2, <2>3, <2>4, FewMembers DEF A
<1>4. CASE k # 1
  <2> DEFINE m == k - 1
             r == l[m]
             b == Kept(l, k, ip)[m]
             a == SubSeq(l, 1, m - 1)
  <2>1. /\ m \in Nat /\ m >= 1 /\ m <= n /\ m \in DOMAIN l /\ m \in 1 .. k - 1
        /\ m - 1 \in 0 .. n /\ k - 1 = m
    BY <1>1, <1>4
  <2>2. /\ r \in IPRange /\ r.start \in Nat /\ r.end \in Nat /\ r.start <= ip /\ r.end < ip
    BY <1>2, <2>1
  <2>3. b = IF r.start < ip THEN <<r>> ELSE <<>>
    BY <2>1 DEF Kept
  <2>4. ASSUME NEW i \in 1 .. m - 1
        PROVE  /\ Kept(l, k, ip)[i] = <<l[i]>> /\ l[i].end + 1 < r.start
    <3>1. i \in 1 .. k - 1 /\ i < m
      BY <2>1
    <3>2. l[i].end + 1 < r.start /\ l[i].start <= l[i].end + d
      BY <1>1, <1>2, <2>1, <3>1 DEF Spaced
    <3>3. l[i].start < ip
      <4>1. \A x, y, z \in Nat : x <= y + d /\ y + 1 < z /\ z <= ip => x < ip
        BY <1>1
      <4>2. l[i].start \in Nat /\ l[i].end \in Nat
        BY <1>2, <3>1
      <4>3. QED
        BY <2>2, <3>2, <4>1, <4>2
    <3>4. QED
      BY <3>1, <3>2, <3>3 DEF Kept
  <2>5. A = a \o b
    <3>1. Kept(l, k, ip) \in Seq(Seq(IPRange)) /\ Len(Kept(l, k, ip)) = m
      <4>1. \A i \in 1 .. m : (IF l[i].start < ip THEN <<l[i]>> ELSE <<>>) \in Seq(IPRange)
        <5>1. ASSUME NEW i \in 1 .. m
              PROVE  <<l[i]>> \in Seq(IPRange) /\ <<>> \in Seq(IPRange)
          BY <1>2, <2>1
        <5>2. QED
          BY <5>1, Zenon
      <4> DEFINE part(i) == IF l[i].start < ip THEN <<l[i]>> ELSE <<>>
      <4>2. Kept(l, k, ip) = [i \in 1 .. m |-> part(i)] /\ \A i \in 1 .. m : part(i) \in Seq(IPRange)
        BY <2>1, <4>1 DEF Kept
      <4> HIDE DEF part, m
      <4>3. QED
        BY <2>1, <4>2
    <3> DEFINE K == Kept(l, k, ip)
    <3>2. K # <<>> /\ Len(K) <= Len(l)
      BY <2>1, <3>1
    <3>3. \A i \in 1 .. Len(K) - 1 : K[i] = <<l[i]>>
      BY <2>4, <3>1
    <3>4. Concat(K) = SubSeq(l, 1, Len(K) - 1) \o K[Len(K)]
      <4> HIDE DEF K, m
      <4>1. QED
        BY <1>1, <3>1, <3>2, <3>3, ConcatPrefix DEF K
    <3>5. QED
      BY <3>1, <3>4
  <2>6. /\ a \in Seq(IPRange) /\ DOMAIN a = 1 .. m - 1 /\ \A i \in 1 .. m - 1 : a[i] = l[i]
        /\ Members(a) = MembersTo(l, m - 1)
    BY <1>1, <2>1, PrefixMembers
  <2>7. Spaced(a, lo, hi, d, 1)
    <3>1. 1 \in 1 .. Len(l) + 1 /\ 1 \in Int /\ m - 1 \in 0 .. Len(l)
      BY <1>1, <2>1
    <3> HIDE DEF m
    <3>2. QED
      BY <1>1, <3>1, PartSpaced, Zenon
  <2>8. /\ b \in Seq(IPRange) /\ Spaced(b, lo, hi, d, 1) /\ Members(b) = RangeMembers(r)
        /\ \A j \in DOMAIN b : b[j] = r
    <3> HIDE DEF b, a
    <3>1. CASE r.start < ip
      <4>1. b = <<r>>
        BY <2>3, <3>1
      <4>2. lo <= r.start /\ r.start <= r.end + d /\ r.end <= hi
        BY <1>1, <2>1 DEF Spaced
      <4> HIDE DEF r
      <4>3. b \in Seq(IPRange) /\ DOMAIN b = {1} /\ b[1] = r
        BY <2>2, <4>1
      <4>4. Spaced(b, lo, hi, d, 1)
        BY <4>2, <4>3 DEF Spaced
      <4>5. QED
        BY <4>1, <4>3, <4>4, FewMembers
    <3>2. CASE ~ (r.start < ip)
      <4>1. b = <<>>
        BY <2>3, <3>2
      <4>2. RangeMembers(r) = {}
        <5>1. \A x \in IPs : x \in Nat
          BY TopAssumption DEF IPs
        <5>2. \A x \in IPs : ~ InRange(r, x)
          BY <1>1, <2>2, <3>2, <5>1 DEF InRange
        <5>3. QED
          BY <5>2 DEF RangeMembers
      <4>3. Spaced(b, lo, hi, d, 1) /\ b \in Seq(IPRange)
        BY <4>1 DEF Spaced
      <4>4. QED
        BY <4>1, <4>2, <4>3, FewMembers
    <3>3. QED
      BY <3>1, <3>2
  <2> HIDE DEF a, b
  <2>9. Spaced(a \o b, lo, hi, d, 1)
    <3>1. \A i \in DOMAIN a, j \in DOMAIN b : a[i].end + 1 < b[j].start
      BY <2>4, <2>6, <2>8
    <3>2. 1 \in Int
      OBVIOUS
    <3>3. QED
      BY <1>1, <2>6, <2>7, <2>8, <3>1, <3>2, AppendedSpaced, Zenon
  <2>10. ASSUME NEW i \in DOMAIN (a \o b) PROVE (a \o b)[i].end < ip
    <3>1. (i \in DOMAIN a /\ (a \o b)[i] = a[i]) \/ (\E j \in DOMAIN b : (a \o b)[i] = b[j])
      BY <2>6, <2>8, AppendedAt
    <3>2. CASE i \in DOMAIN a /\ (a \o b)[i] = a[i]
      <4>1. i \in 1 .. k - 1 /\ a[i] = l[i]
        BY <2>1, <2>6, <3>2
      <4>2. QED
        BY <1>2, <3>2, <4>1
    <3>3. CASE \E j \in DOMAIN b : (a \o b)[i] = b[j]
      BY <2>2, <2>8, <3>3
    <3>4. QED
      BY <3>1, <3>2, <3>3
  <2>11. Members(a \o b) = MembersTo(l, k - 1)
    <3>1. Members(a \o b) = Members(a) \cup Members(b)
      BY <2>6, <2>8, AppendedMembers
    <3>2. MembersTo(l, m) = MembersTo(l, m - 1) \cup RangeMembers(r)
      BY <1>1, <2>1, MembersToNext
    <3>3. QED
      BY <2>1, <2>6, <2>8, <3>1, <3>2
  <2> HIDE DEF A
  <2>12. QED
    BY <2>5, <2>9, <2>10, <2>11 DEF A
<1>5. QED
  BY <1>3, <1>4

\* MergeIPRangeList puts an address that is not in the list into it, and leaves the list in
\* order.
LEMMA MergeSpaced ==
    ASSUME NEW l, NEW lo, NEW hi, NEW d, NEW ip, Absent(l, lo, hi, d, ip),
           lo <= ip, ip <= hi, Top > 1
    PROVE  /\ Spaced(MergeIPRangeList(l, ip), lo, hi, d, 1)
           /\ Members(MergeIPRangeList(l, ip)) = Members(l) \cup {ip}
<1> DEFINE n == Len(l)
<1>1. /\ l \in Seq(IPRange) /\ lo \in Int /\ hi \in Int /\ d \in Int /\ 0 <= d /\ 1 \in Int /\ 0 \in Int
      /\ d <= d /\ 0 <= 1
      /\ Spaced(l, lo, hi, d, 1) /\ ip \in IPs /\ ip \in Nat /\ ip \notin Members(l)
      /\ n \in Nat /\ DOMAIN l = 1 .. n
  BY TopAssumption DEF Absent, IPs
<1>2. PICK k \in 1 .. Len(l) + 1 :
            /\ \A i \in 1 .. k - 1 : ~ (l[i].start > ip)
            /\ k <= Len(l) => l[k].start > ip
            /\ Kept(l, k, ip) \in Seq(Seq(IPRange))
            /\ Inserted(l, ip) =
                    Concat(Kept(l, k, ip)) \o <<Rg(ip, ip)>> \o SubSeq(l, k, Len(l))
  BY <1>1, InsertAt
<1> DEFINE A == Concat(Kept(l, k, ip))
           r == Rg(ip, ip)
           c == <<r>>
           B == SubSeq(l, k, n)
<1>3. /\ A \in Seq(IPRange) /\ Spaced(A, lo, hi, d, 1) /\ \A i \in DOMAIN A : A[i].end < ip
      /\ Members(A) = MembersTo(l, k - 1)
  BY <1>2, ConcatType, KeptBefore
<1>4. /\ c \in Seq(IPRange) /\ DOMAIN c = {1} /\ c[1].start = ip /\ c[1].end = ip
      /\ Members(c) = {ip} /\ Spaced(c, lo, hi, d, 0)
  <2>1. r \in IPRange /\ r.start = ip /\ r.end = ip
    BY <1>1 DEF Rg, IPRange
  <2>2. RangeMembers(r) = {ip}
    BY <1>1, <2>1, TopAssumption DEF RangeMembers, InRange, IPs
  <2> HIDE DEF r
  <2>3. c \in Seq(IPRange) /\ DOMAIN c = {1} /\ c[1] = r
    BY <2>1
  <2>4. Spaced(c, lo, hi, d, 0)
    <3>1. ASSUME NEW i \in DOMAIN c
          PROVE  lo <= c[i].start /\ c[i].start <= c[i].end + d /\ c[i].end <= hi
      BY <1>1, <2>1, <2>3
    <3>2. QED
      BY <2>3, <3>1 DEF Spaced
  <2>5. QED
    BY <2>1, <2>2, <2>3, <2>4, FewMembers
<1>5. /\ B \in Seq(IPRange) /\ DOMAIN B = 1 .. n - k + 1
      /\ \A i \in 1 .. n - k + 1 : B[i] = l[k + i - 1]
  <2>1. n \in 0 .. Len(l)
    BY <1>1
  <2>2. /\ B \in Seq(IPRange) /\ Len(B) = (IF k <= n THEN n - k + 1 ELSE 0)
        /\ \A i \in 1 .. n - k + 1 : B[i] = l[k + i - 1]
    BY <1>1, <2>1, SubSeqType
  <2> HIDE DEF B
  <2>3. DOMAIN B = 1 .. n - k + 1
    BY <1>1, <2>2
  <2>4. QED
    BY <2>2, <2>3
<1>6. Spaced(B, lo, hi, d, 1)
  <2>1. n \in 0 .. Len(l)
    BY <1>1
  <2> HIDE DEF n
  <2>2. QED
    BY <1>1, <2>1, PartSpaced, Zenon
<1> HIDE DEF A, B, c, r
<1>7. ASSUME NEW j \in DOMAIN B
      PROVE  k + j - 1 \in DOMAIN l /\ B[j] = l[k + j - 1] /\ ip < B[j].start
  <2>1. j \in 1 .. n - k + 1 /\ k + j - 1 \in 1 .. n
    BY <1>1, <1>5
  <2>2. B[j] = l[k + j - 1] /\ k + j - 1 \in DOMAIN l
    BY <1>1, <1>5, <2>1
  <2>3. k \in DOMAIN l /\ ip < l[k].start /\ l[k].start \in Nat /\ l[k].end \in Nat
        /\ l[k].start <= l[k].end + d
    <3>1. k \in DOMAIN l
      BY <1>1, <2>1
    <3>2. l[k].start > ip /\ l[k].start \in Nat /\ l[k].end \in Nat
      <4>1. k <= Len(l)
        BY <1>1, <3>1
      <4>2. l[k].start > ip
        BY <1>2, <4>1
      <4>3. QED
        BY <1>1, <3>1, <4>2, Fields
    <3>3. QED
      BY <1>1, <3>1, <3>2 DEF Spaced
  <2>4. ip < l[k + j - 1].start
    <3>1. CASE j = 1
      <4>1. k + j - 1 = k
        BY <3>1
      <4>2. QED
        BY <2>3, <4>1
    <3>2. CASE j # 1
      <4>1. k < k + j - 1
        BY <2>1, <3>2
      <4>2. l[k].end + 1 < l[k + j - 1].start /\ l[k + j - 1].start \in Nat
        BY <1>1, <2>2, <2>3, <4>1, Fields DEF Spaced
      <4>3. \A x, y, z \in Nat : ip < x /\ x <= y + d /\ y + 1 < z => ip < z
        BY <1>1 DEF Absent
      <4>4. QED
        BY <2>3, <4>2, <4>3
    <3>3. QED
      BY <3>1, <3>2
  <2>5. QED
    BY <2>2, <2>4
<1>8. Members(A) \cup Members(B) = Members(l)
  <2>1. ASSUME NEW x \in IPs
        PROVE  (\E i \in DOMAIN l : InRange(l[i], x)) <=>
                 (\E i \in 1 .. k - 1 : InRange(l[i], x)) \/ (\E j \in DOMAIN B : InRange(B[j], x))
    <3>1. ASSUME NEW i \in DOMAIN l
          PROVE  i \in 1 .. k - 1 \/ \E j \in DOMAIN B : B[j] = l[i]
      <4>1. CASE i < k
        BY <1>1, <4>1
      <4>2. CASE ~ (i < k)
        <5>1. i - k + 1 \in 1 .. n - k + 1 /\ k + (i - k + 1) - 1 = i
          BY <1>1, <4>2
        <5>2. i - k + 1 \in DOMAIN B /\ B[i - k + 1] = l[i]
          BY <1>5, <5>1
        <5>3. QED
          BY <5>2, Zenon
      <4>3. QED
        BY <4>1, <4>2
    <3>2. \A i \in 1 .. k - 1 : i \in DOMAIN l
      BY <1>1
    <3>3. QED
      BY <1>7, <3>1, <3>2, Zenon
  <2>2. QED
    BY <1>3, <2>1, Zenon DEF Members, MembersTo
<1>9. Spaced(A, lo, hi, d, 0) /\ Spaced(B, lo, hi, d, 0)
  <2>1. Spaced(A, lo, hi, d, 0)
    BY <1>1, <1>3, SpacedWeaker, Zenon
  <2>2. Spaced(B, lo, hi, d, 0)
    BY <1>1, <1>5, <1>6, SpacedWeaker, Zenon
  <2>3. QED
    BY <2>1, <2>2
<1> DEFINE H == A \o c
<1>10. H \in Seq(IPRange) /\ Spaced(H, lo, hi, d, 0) /\ Members(H) = Members(A) \cup {ip}
  <2>1. \A i \in DOMAIN A, j \in DOMAIN c : A[i].end + 0 < c[j].start
    <3> SUFFICES ASSUME NEW i \in DOMAIN A, NEW j \in DOMAIN c PROVE A[i].end + 0 < c[j].start
      OBVIOUS
    <3>1. A[i].end \in Nat /\ A[i].end < ip /\ c[j].start = ip
      BY <1>3, <1>4, Fields
    <3>2. QED
      BY <1>1, <3>1
  <2>2. Spaced(H, lo, hi, d, 0)
    BY <1>1, <1>3, <1>4, <1>9, <2>1, AppendedSpaced, Zenon
  <2>3. QED
    BY <1>3, <1>4, <2>2, Appended, AppendedMembers
<1>11. Spaced(H \o B, lo, hi, d, 0) /\ H \o B \in Seq(IPRange)
       /\ Members(H \o B) = Members(H) \cup Members(B)
  <2>1. ASSUME NEW i \in DOMAIN H, NEW j \in DOMAIN B PROVE H[i].end + 0 < B[j].start
    <3>1. (i \in DOMAIN A /\ H[i] = A[i]) \/ (\E m \in DOMAIN c : H[i] = c[m])
      BY <1>3, <1>4, AppendedAt
    <3>2. H[i].end <= ip
      <4>1. CASE i \in DOMAIN A /\ H[i] = A[i]
        <5>1. A[i].end \in Nat /\ A[i].end < ip
          BY <1>3, <4>1, Fields
        <5>2. QED
          BY <1>1, <4>1, <5>1
      <4>2. CASE \E m \in DOMAIN c : H[i] = c[m]
        BY <1>1, <1>4, <4>2
      <4>3. QED
        BY <3>1, <4>1, <4>2
    <3> HIDE DEF H
    <3>3. H[i].end \in Nat /\ B[j].start \in Nat /\ ip < B[j].start
      BY <1>5, <1>7, <1>10, Fields
    <3>4. QED
      BY <1>1, <3>2, <3>3
  <2> HIDE DEF H
  <2>2. Spaced(H \o B, lo, hi, d, 0)
    BY <1>1, <1>5, <1>9, <1>10, <2>1, AppendedSpaced, Zenon
  <2>3. QED
    BY <1>5, <1>10, <2>2, Appended, AppendedMembers
<1> DEFINE I == H \o B
<1>12. Inserted(l, ip) = I
  BY <1>2 DEF A, B, c, r
<1>13. I \in Seq(IPRange) /\ Spaced(I, lo, hi, d, 0) /\ Members(I) = Members(l) \cup {ip}
  BY <1>8, <1>10, <1>11
<1>14. MergeIPRangeList(l, ip) = Joined(I)
  BY <1>1, <1>12 DEF MergeIPRangeList
<1> HIDE DEF I
<1>15. JoinableList(I, lo, hi, d, 0, 1)
  BY <1>1, <1>13 DEF JoinableList, Absent
<1>16. QED
  BY <1>13, <1>14, <1>15, JoinedSpaced

--------------------------------------------------------------------------------
(***************************************************************************)
(* The pool that NewSubnet makes                                           *)
(***************************************************************************)

\* Where all ranges but the last end before b starts, only the last is cut.
LEMMA CutLast ==
    ASSUME NEW f \in Seq(IPRange), f # <<>>, NEW b \in IPRange,
           \A i \in 1 .. Len(f) - 1 : f[i].end < b.start
    PROVE  Cut(f, b) = SubSeq(f, 1, Len(f) - 1) \o splitRange(f[Len(f)], b)
<1> DEFINE ss == [i \in DOMAIN f |-> splitRange(f[i], b)]
           n == Len(f)
<1>1. ss \in Seq(Seq(IPRange)) /\ Len(ss) = n
  BY CutType
<1>2. n \in Nat /\ n >= 1 /\ DOMAIN f = 1 .. n /\ b.start \in Nat
  <2>1. n \in Nat /\ n # 0 /\ DOMAIN f = 1 .. n
    OBVIOUS
  <2>2. b.start \in Nat
    BY TopAssumption DEF IPRange, IPs
  <2> HIDE DEF n
  <2>3. QED
    BY <2>1, <2>2
<1>3. ss[n] = splitRange(f[n], b)
  BY <1>2
<1>4. ASSUME NEW i \in 1 .. n - 1 PROVE ss[i] = <<f[i]>>
  <2>1. i \in DOMAIN f /\ f[i].end \in Nat /\ f[i].end < b.start
    BY <1>2, Fields
  <2>2. b.start > f[i].end
    BY <1>2, <2>1
  <2>3. QED
    BY <2>1, <2>2 DEF splitRange
<1> HIDE DEF ss
<1>5. ss # <<>> /\ Len(ss) <= Len(f) /\ \A i \in 1 .. Len(ss) - 1 : ss[i] = <<f[i]>>
  BY <1>1, <1>2, <1>4
<1>6. Concat(ss) = SubSeq(f, 1, Len(ss) - 1) \o ss[Len(ss)]
  BY <1>1, <1>5, ConcatPrefix
<1>7. QED
  BY <1>1, <1>3, <1>6 DEF Cut, ss

LEMMA CutNothing ==
    ASSUME NEW b \in IPRange
    PROVE  Cut(<<>>, b) = <<>>
<1> DEFINE ss == [i \in DOMAIN <<>> |-> splitRange(<<>>[i], b)]
<1>1. ss = <<>>
  OBVIOUS
<1> HIDE DEF ss
<1>2. Concat(<<>>) = <<>>
  <2>1. <<>> \in Seq(Seq(IPRange)) /\ Len(<<>>) = 0
    OBVIOUS
  <2>2. QED
    BY <2>1, ConcatsAre DEF Concat
<1>3. QED
  BY <1>1, <1>2 DEF Cut, ss

\* Where all ranges end before b starts, nothing is cut.
LEMMA CutMissed ==
    ASSUME NEW f \in Seq(IPRange), NEW b \in IPRange, \A i \in DOMAIN f : f[i].end < b.start
    PROVE  Cut(f, b) = f
<1>1. CASE f = <<>>
  BY <1>1, CutNothing
<1>2. CASE f # <<>>
  <2> DEFINE n == Len(f)
             p == SubSeq(f, 1, n - 1)
  <2>1. n \in Nat /\ n # 0 /\ DOMAIN f = 1 .. n
    BY <1>2
  <2>2. n \in 1 .. n /\ \A i \in 1 .. n - 1 : i \in DOMAIN f
    <3> HIDE DEF n
    <3>1. QED
      BY <2>1
  <2>3. Cut(f, b) = p \o splitRange(f[n], b)
    BY <1>2, <2>2, CutLast
  <2>4. splitRange(f[n], b) = <<f[n]>>
    <3>1. b.start \in Nat /\ f[n].end \in Nat /\ f[n].end < b.start
      <4>1. b.start \in Nat
        BY TopAssumption DEF IPRange, IPs
      <4>2. n \in DOMAIN f
        BY <2>1, <2>2
      <4>3. QED
        BY <4>1, <4>2, Fields
    <3>2. b.start > f[n].end
      BY <3>1
    <3>3. QED
      BY <3>2 DEF splitRange
  <2>5. f = p \o <<f[n]>> \o SubSeq(f, n + 1, n) /\ p \in Seq(IPRange) /\ <<f[n]>> \in Seq(IPRange)
    BY <2>2, Halves
  <2>6. SubSeq(f, n + 1, n) = <<>>
    BY <2>1, SubSeqEmpty
  <2> HIDE DEF n, p
  <2>7. p \o <<f[n]>> \o <<>> = p \o <<f[n]>>
    BY <2>5
  <2>8. QED
    BY <2>3, <2>4, <2>5, <2>6, <2>7
<1>3. QED
  BY <1>1, <1>2

\* A free list that has been cut by reserved ranges, the last of which starts at x, and
\* was F .. L before: it is in order; what starts after L is a single address; all but the
\* last range end before x, and the last one does not reach far beyond.
CutShape(f, x, F, L) ==
    /\ Spaced(f, F, Top - 1, 0, 1)
    /\ \A i \in DOMAIN f : f[i].start > L => f[i].end = f[i].start
    /\ \A i \in DOMAIN f : i < Len(f) => f[i].end < x
    /\ f # <<>> => f[Len(f)].end = L \/ f[Len(f)].end <= x + 1

\* Range a is the last of such a list, and b the next reserved range.
Cuttable(a, b, x, F, L) ==
    /\ a \in IPRange /\ b \in IPRange /\ {x, F, L} \subseteq Nat /\ L + 1 < Top /\ 1 <= F
    /\ F <= a.start /\ a.start <= a.end /\ (a.start > L => a.end = a.start)
    /\ a.end = L \/ a.end <= x + 1
    /\ x <= b.start /\ b.start <= b.end

\* b starts at the last address of all and a reaches it: the end of what is left wraps
\* around to 0.
Wraps(a, b, F, L) ==
    /\ b.start = Top - 1 /\ a.start < b.start /\ F <= a.start /\ a.start <= L
    /\ splitRange(a, b) = <<Rg(a.start, 0)>>

LEMMA SplitShape ==
    ASSUME NEW a, NEW b, NEW x, NEW F, NEW L, Cuttable(a, b, x, F, L)
    PROVE  LET S == splitRange(a, b)
           IN  /\ S \in Seq(IPRange)
               /\ \/ Wraps(a, b, F, L) /\ RightOverlap(a, b)
                  \/ /\ CutShape(S, b.start, F, L)
                     /\ \A j \in DOMAIN S : /\ a.start <= S[j].start /\ S[j].start \notin RangeMembers(b)
                                            /\ S[j].start = a.start \/ S[j].start = b.end + 1
               /\ ~ RightOverlap(a, b) => IF S = <<>> THEN b.start <= a.start /\ a.end <= b.end
                                                      ELSE S[Len(S)].end = a.end
<1> DEFINE S == splitRange(a, b)
           s == a.start
           t == a.end
           y == b.start
           z == b.end
           Fits == /\ CutShape(S, y, F, L)
                   /\ \A j \in DOMAIN S : /\ s <= S[j].start /\ S[j].start \notin RangeMembers(b)
                                          /\ S[j].start = s \/ S[j].start = z + 1
           Ends == IF S = <<>> THEN y <= s /\ t <= z ELSE S[Len(S)].end = t
<1>1. /\ a \in IPRange /\ b \in IPRange /\ s <= t /\ y <= z
      /\ s \in Nat /\ t \in Nat /\ y \in Nat /\ z \in Nat /\ s < Top /\ t < Top /\ y < Top /\ z < Top
      /\ Top \in Nat /\ x \in Nat /\ F \in Nat /\ L \in Nat /\ L + 1 < Top /\ 1 <= F /\ F <= s
      /\ (s > L => t = s) /\ (t = L \/ t <= x + 1) /\ x <= y
  BY TopAssumption DEF Cuttable, IPRange, IPs
<1>2. S \in Seq(IPRange)
  BY <1>1, SplitType
<1>3. S = IF z < s \/ y > t THEN <<a>>
          ELSE IF s >= y
               THEN IF t <= z THEN <<>> ELSE <<Rg(z + 1, t)>>
               ELSE IF t <= z THEN <<Rg(s, Add(y, 1))>>
                    ELSE <<Rg(s, y - 1), Rg(z + 1, t)>>
  BY <1>1, SplitCases
<1>4. \A v, w : Rg(v, w).start = v /\ Rg(v, w).end = w
  BY DEF Rg
<1>5. \A v \in Nat : v \in RangeMembers(b) => y <= v /\ v <= z
  BY DEF RangeMembers, InRange
<1>6. RightOverlap(a, b) <=> s < y /\ y <= t /\ t <= z
  BY DEF RightOverlap
<1>7. ASSUME NEW q, S = <<q>>, q.start \in Nat, q.end \in Nat, s <= q.start, q.start <= q.end, q.end < Top,
             q.start > L => q.end = q.start, q.end = L \/ q.end <= y + 1,
             q.start < y \/ q.start > z, q.start = s \/ q.start = z + 1
      PROVE  Fits /\ S # <<>> /\ S[Len(S)].end = q.end
  <2> HIDE DEF S, s, t, y, z
  <2>1. DOMAIN S = {1} /\ S[1] = q /\ Len(S) = 1 /\ S # <<>>
    BY <1>7
  <2>2. q.start \notin RangeMembers(b)
    BY <1>1, <1>5, <1>7
  <2>3. F <= q.start /\ q.start <= q.end + 0 /\ q.end <= Top - 1
    BY <1>1, <1>7
  <2>4. Spaced(S, F, Top - 1, 0, 1)
    BY <2>1, <2>3 DEF Spaced
  <2>5. CutShape(S, y, F, L)
    BY <1>7, <2>1, <2>4 DEF CutShape
  <2>6. QED
    BY <1>7, <2>1, <2>2, <2>5
<1> HIDE DEF Fits, Ends
<1>8. CASE z < s \/ y > t
  <2>1. S = <<a>>
    BY <1>3, <1>8
  <2>2. t = L \/ t <= y + 1
    BY <1>1
  <2>3. s < y \/ s > z
    BY <1>1, <1>8
  <2> HIDE DEF S
  <2>4. Fits /\ S # <<>> /\ S[Len(S)].end = t
    BY <1>1, <1>7, <2>1, <2>2, <2>3
  <2>5. QED
    BY <1>2, <2>4 DEF Fits, S
<1>9. CASE s >= y /\ t <= z
  <2>1. S = <<>>
    BY <1>1, <1>3, <1>9
  <2>2. Fits
    BY <2>1 DEF Fits, CutShape, Spaced
  <2>3. y <= s /\ t <= z
    BY <1>1, <1>9
  <2>4. QED
    BY <1>2, <2>1, <2>2, <2>3 DEF Fits
<1>10. CASE s >= y /\ t > z /\ z >= s
  <2> DEFINE q == Rg(z + 1, t)
  <2>1. S = <<q>>
    BY <1>1, <1>3, <1>10
  <2>2. q.start = z + 1 /\ q.end = t
    BY <1>4
  <2> HIDE DEF S, q, s, t, y, z
  <2>3. /\ q.start \in Nat /\ q.end \in Nat /\ s <= q.start /\ q.start <= q.end /\ q.end < Top
        /\ (q.start > L => q.end = q.start) /\ (q.end = L \/ q.end <= y + 1)
        /\ q.start > z
    BY <1>1, <1>10, <2>2
  <2>4. Fits /\ S # <<>> /\ S[Len(S)].end = t
    BY <1>7, <2>1, <2>2, <2>3
  <2>5. QED
    BY <1>2, <2>4 DEF Fits, S, s, t, y, z
<1>11. CASE s < y /\ y <= t /\ t <= z
  <2> DEFINE q == Rg(s, Add(y, 1))
  <2>1. S = <<q>> /\ RightOverlap(a, b)
    BY <1>1, <1>3, <1>6, <1>11
  <2>2. q.start = s /\ q.end = Add(y, 1)
    BY <1>4
  <2>3. s <= L
    BY <1>1, <1>11
  <2>4. CASE y + 1 < Top
    <3>1. Add(y, 1) = y + 1
      BY <1>1, <2>4, NoWrap DEF IPs
    <3> HIDE DEF S, q, s, t, y, z
    <3>2. /\ q.start \in Nat /\ q.end \in Nat /\ s <= q.start /\ q.start <= q.end /\ q.end < Top
          /\ (q.start > L => q.end = q.start) /\ (q.end = L \/ q.end <= y + 1)
          /\ q.start < y
      BY <1>1, <1>11, <2>2, <2>3, <2>4, <3>1
    <3>3. Fits
      BY <1>7, <2>1, <2>2, <3>2
    <3>4. QED
      BY <1>2, <2>1, <3>3 DEF Fits, S, s, t, y, z
  <2>5. CASE ~ (y + 1 < Top)
    <3>1. y = Top - 1
      BY <1>1, <2>5
    <3>2. Add(y, 1) = 0
      BY <1>1, <3>1 DEF Add
    <3>3. Wraps(a, b, F, L)
      BY <1>1, <1>11, <2>1, <2>3, <3>1, <3>2 DEF Wraps
    <3>4. QED
      BY <1>2, <2>1, <3>3
  <2>6. QED
    BY <2>4, <2>5
<1>12. CASE s < y /\ t > z
  <2> DEFINE q == Rg(s, y - 1)
             r == Rg(z + 1, t)
  <2>1. S = <<q, r>>
    BY <1>1, <1>3, <1>12
  <2>2. q.start = s /\ q.end = y - 1 /\ r.start = z + 1 /\ r.end = t
    BY <1>4
  <2> HIDE DEF S, q, r, s, t, y, z
  <2>3. DOMAIN S = {1, 2} /\ S[1] = q /\ S[2] = r /\ Len(S) = 2 /\ S # <<>>
    BY <2>1
  <2>4. s <= L
    BY <1>1, <1>12
  <2>5. Spaced(S, F, Top - 1, 0, 1)
    <3>1. ASSUME NEW i \in DOMAIN S
          PROVE  F <= S[i].start /\ S[i].start <= S[i].end + 0 /\ S[i].end <= Top - 1
      <4>1. CASE i = 1
        BY <1>1, <1>12, <2>2, <2>3, <4>1
      <4>2. CASE i = 2
        BY <1>1, <1>12, <2>2, <2>3, <4>2
      <4>3. QED
        BY <2>3, <4>1, <4>2
    <3>2. ASSUME NEW i \in DOMAIN S, NEW j \in DOMAIN S, i < j PROVE S[i].end + 1 < S[j].start
      <4>1. i = 1 /\ j = 2
        BY <2>3, <3>2
      <4>2. QED
        BY <1>1, <2>2, <2>3, <4>1
    <3>3. QED
      BY <3>1, <3>2 DEF Spaced
  <2>6. /\ q.start > L => q.end = q.start
        /\ r.start > L => r.end = r.start
        /\ q.end < y
        /\ r.end = L \/ r.end <= y + 1
    BY <1>1, <1>12, <2>2, <2>4
  <2>7. CutShape(S, y, F, L)
    BY <2>3, <2>5, <2>6 DEF CutShape
  <2>8. /\ q.start \notin RangeMembers(b) /\ r.start \notin RangeMembers(b)
        /\ s <= q.start /\ s <= r.start
    BY <1>1, <1>5, <1>12, <2>2
  <2>9. Fits
    BY <2>2, <2>3, <2>7, <2>8 DEF Fits
  <2>10. S[Len(S)].end = t
    BY <2>2, <2>3
  <2>11. QED
    BY <1>2, <2>3, <2>9, <2>10 DEF Fits, S, s, t, y, z
<1>13. QED
  BY <1>1, <1>8, <1>9, <1>10, <1>11, <1>12

\* The list f is as above, and b is the next reserved range.
NextCut(f, b, x, F, L) ==
    /\ f \in Seq(IPRange) /\ b \in IPRange /\ {x, F, L} \subseteq Nat /\ L + 1 < Top /\ 1 <= F
    /\ CutShape(f, x, F, L) /\ x <= b.start /\ b.start <= b.end

LEMMA CutParts ==
    ASSUME NEW f, NEW b, NEW x, NEW F, NEW L, NextCut(f, b, x, F, L), f # <<>>
    PROVE  LET n == Len(f)
               p == SubSeq(f, 1, n - 1)
           IN  /\ n \in DOMAIN f /\ n \in Nat /\ n >= 1 /\ DOMAIN f = 1 .. n
               /\ Cuttable(f[n], b, x, F, L)
               /\ Cut(f, b) = p \o splitRange(f[n], b)
               /\ f = p \o <<f[n]>> /\ <<f[n]>> \in Seq(IPRange)
               /\ p \in Seq(IPRange) /\ DOMAIN p = 1 .. n - 1
               /\ Spaced(p, F, Top - 1, 0, 1)
               /\ \A i \in DOMAIN p : /\ i \in DOMAIN f /\ p[i] = f[i]
                                      /\ p[i].end < x /\ p[i].end < b.start
                                      /\ p[i].end + 1 < f[n].start
<1> DEFINE n == Len(f)
           p == SubSeq(f, 1, n - 1)
<1>1. /\ f \in Seq(IPRange) /\ b \in IPRange /\ x \in Nat /\ F \in Nat /\ L \in Nat
      /\ L + 1 < Top /\ 1 <= F /\ CutShape(f, x, F, L) /\ Spaced(f, F, Top - 1, 0, 1)
      /\ x <= b.start /\ b.start <= b.end
  BY DEF NextCut, CutShape
<1>2. n \in Nat /\ n # 0 /\ DOMAIN f = 1 .. n
  BY <1>1
<1>3. /\ n >= 1 /\ n \in DOMAIN f /\ n \in 1 .. n
      /\ \A i \in 1 .. n - 1 : i \in DOMAIN f /\ i < n
  <2> HIDE DEF n
  <2>1. QED
    BY <1>2
<1>4. /\ b.start \in Nat /\ b.end \in Nat /\ f[n] \in IPRange
      /\ f[n].start \in Nat /\ f[n].end \in Nat
  <2>1. b.start \in Nat /\ b.end \in Nat
    BY <1>1, TopAssumption DEF IPRange, IPs
  <2>2. QED
    BY <1>1, <1>3, <2>1, Fields
<1>5. Cuttable(f[n], b, x, F, L)
  <2>1. /\ F <= f[n].start /\ f[n].start <= f[n].end + 0
        /\ (f[n].start > L => f[n].end = f[n].start)
        /\ f[n].end = L \/ f[n].end <= x + 1
    BY <1>1, <1>3 DEF CutShape, Spaced
  <2>2. f[n].start <= f[n].end
    BY <1>4, <2>1
  <2>3. QED
    BY <1>1, <1>4, <2>1, <2>2 DEF Cuttable
<1>6. ASSUME NEW i \in 1 .. n - 1
      PROVE  /\ i \in DOMAIN f /\ f[i].end < x /\ f[i].end < b.start
             /\ f[i].end + 1 < f[n].start
  <2>1. i \in DOMAIN f /\ i < n /\ f[i].end \in Nat
    BY <1>1, <1>3, Fields
  <2>2. f[i].end < x
    BY <1>1, <2>1 DEF CutShape
  <2>3. f[i].end < b.start
    BY <1>1, <1>4, <2>1, <2>2
  <2>4. f[i].end + 1 < f[n].start
    BY <1>1, <1>3, <2>1 DEF Spaced
  <2>5. QED
    BY <2>1, <2>2, <2>3, <2>4
<1>7. Cut(f, b) = p \o splitRange(f[n], b)
  BY <1>1, <1>6, CutLast
<1>8. /\ f = p \o <<f[n]>> /\ p \in Seq(IPRange) /\ <<f[n]>> \in Seq(IPRange)
      /\ DOMAIN p = 1 .. n - 1 /\ \A i \in 1 .. n - 1 : p[i] = f[i]
  <2>1. /\ f = p \o <<f[n]>> \o SubSeq(f, n + 1, n) /\ p \in Seq(IPRange) /\ <<f[n]>> \in Seq(IPRange)
        /\ DOMAIN p = 1 .. n - 1 /\ \A i \in 1 .. n - 1 : p[i] = f[i]
    BY <1>1, <1>3, Halves
  <2>2. SubSeq(f, n + 1, n) = <<>>
    BY <1>2, SubSeqEmpty
  <2> HIDE DEF n, p
  <2>3. p \o <<f[n]>> \o <<>> = p \o <<f[n]>>
    BY <2>1
  <2>4. QED
    BY <2>1, <2>2, <2>3
<1>9. Spaced(p, F, Top - 1, 0, 1)
  <2>1. 1 \in 1 .. Len(f) + 1 /\ n - 1 \in 0 .. Len(f) /\ 1 \in Int /\ 0 \in Int /\ Top - 1 \in Int
        /\ F \in Int
    BY <1>1, <1>2, <1>3, TopAssumption
  <2> HIDE DEF n
  <2>2. QED
    BY <1>1, <2>1, PartSpaced, Zenon
<1> HIDE DEF n, p
<1>10. QED
  BY <1>2, <1>3, <1>5, <1>6, <1>7, <1>8, <1>9 DEF n, p

\* A cut leaves the list as above, or its end wraps around.
LEMMA CutStep ==
    ASSUME NEW f, NEW b, NEW x, NEW F, NEW L, NextCut(f, b, x, F, L)
    PROVE  LET c == Cut(f, b)
           IN  \/ f # <<>> /\ Wraps(f[Len(f)], b, F, L) /\ RightOverlap(f[Len(f)], b)
               \/ /\ CutShape(c, b.start, F, L)
                  /\ \A i \in DOMAIN c :
                        /\ c[i].start \notin RangeMembers(b)
                        /\ (\E j \in DOMAIN f : c[i].start = f[j].start) \/ c[i].start = b.end + 1
<1>1. /\ f \in Seq(IPRange) /\ b \in IPRange /\ x \in Nat /\ F \in Nat /\ L \in Nat
      /\ x <= b.start /\ b.start <= b.end /\ CutShape(f, x, F, L)
  BY DEF NextCut
<1>2. CASE f = <<>>
  <2>1. Cut(f, b) = <<>>
    BY <1>1, <1>2, CutNothing
  <2>2. QED
    BY <2>1 DEF CutShape, Spaced
<1>3. CASE f # <<>>
  <2> DEFINE n == Len(f)
             p == SubSeq(f, 1, n - 1)
             a == f[n]
             S == splitRange(a, b)
             c == p \o S
             m == n - 1
  <2>1. /\ n \in DOMAIN f /\ n \in Nat /\ n >= 1 /\ DOMAIN f = 1 .. n
        /\ Cuttable(a, b, x, F, L)
        /\ Cut(f, b) = c
        /\ p \in Seq(IPRange) /\ DOMAIN p = 1 .. m
        /\ Spaced(p, F, Top - 1, 0, 1)
        /\ \A i \in DOMAIN p : /\ i \in DOMAIN f /\ p[i] = f[i]
                               /\ p[i].end < x /\ p[i].end < b.start
                               /\ p[i].end + 1 < a.start
    BY <1>3, CutParts
  <2>2. /\ S \in Seq(IPRange)
        /\ \/ Wraps(a, b, F, L) /\ RightOverlap(a, b)
           \/ /\ CutShape(S, b.start, F, L)
              /\ \A j \in DOMAIN S : /\ a.start <= S[j].start /\ S[j].start \notin RangeMembers(b)
                                     /\ S[j].start = a.start \/ S[j].start = b.end + 1
    BY <2>1, SplitShape
  <2>3. CASE Wraps(a, b, F, L) /\ RightOverlap(a, b)
    BY <1>3, <2>3
  <2>4. CASE /\ CutShape(S, b.start, F, L)
             /\ \A j \in DOMAIN S : /\ a.start <= S[j].start /\ S[j].start \notin RangeMembers(b)
                                    /\ S[j].start = a.start \/ S[j].start = b.end + 1
    <3> HIDE DEF p, S
    <3>1. b.start \in Nat /\ b.end \in Nat /\ a.start \in Nat
      <4>1. b.start \in Nat /\ b.end \in Nat
        BY <1>1, TopAssumption DEF IPRange, IPs
      <4>2. QED
        BY <1>1, <2>1, <4>1, Fields
    <3>2. ASSUME NEW i \in DOMAIN p
          PROVE  /\ p[i].start \in Nat /\ p[i].end \in Nat /\ p[i].start <= p[i].end
                 /\ p[i].start \notin RangeMembers(b)
      <4>1. p[i].start \in Nat /\ p[i].end \in Nat /\ p[i].start <= p[i].end + 0
        BY <2>1, Fields DEF Spaced
      <4>2. p[i].end < b.start
        BY <2>1
      <4>3. p[i].start < b.start
        BY <3>1, <4>1, <4>2
      <4>4. QED
        BY <3>1, <4>1, <4>3 DEF RangeMembers, InRange
    <3>3. Spaced(c, F, Top - 1, 0, 1)
      <4>1. ASSUME NEW i \in DOMAIN p, NEW j \in DOMAIN S PROVE p[i].end + 1 < S[j].start
        <5>1. p[i].end + 1 < a.start /\ p[i].end \in Nat
          BY <2>1, <3>2
        <5>2. S[j].start \in Nat /\ a.start <= S[j].start
          BY <2>2, <2>4, Fields
        <5>3. QED
          BY <3>1, <5>1, <5>2
      <4>2. 1 \in Int /\ 0 \in Int /\ Top - 1 \in Int /\ F \in Int
        BY <1>1, TopAssumption
      <4>3. Spaced(S, F, Top - 1, 0, 1)
        BY <2>4 DEF CutShape
      <4>4. QED
        BY <2>1, <2>2, <4>1, <4>2, <4>3, AppendedSpaced, Zenon
    <3>4. /\ c \in Seq(IPRange) /\ DOMAIN c = 1 .. m + Len(S) /\ Len(c) = m + Len(S) /\ Len(S) \in Nat
          /\ DOMAIN S = 1 .. Len(S) /\ m \in Nat /\ Len(p) = m
      <4>1. m \in Nat
        BY <2>1
      <4> HIDE DEF m
      <4>2. Len(p) = m
        BY <2>1, <4>1
      <4>3. Len(S) \in Nat /\ DOMAIN S = 1 .. Len(S)
        BY <2>2
      <4>4. c \in Seq(IPRange) /\ Len(c) = Len(p) + Len(S)
        BY <2>1, <2>2, ConcatProperties
      <4> HIDE DEF c
      <4>5. QED
        BY <4>1, <4>2, <4>3, <4>4
    <3>5. \A i \in 1 .. m : c[i] = p[i]
      BY <2>1, <2>2
    <3>6. \A j \in DOMAIN S : c[m + j] = S[j]
      <4>1. \A j \in DOMAIN S : c[Len(p) + j] = S[j]
        BY <2>1, <2>2, Appended
      <4>2. QED
        BY <3>4, <4>1
    <3> HIDE DEF c, m
    <3>7. ASSUME NEW i \in DOMAIN c
          PROVE  \/ i \in DOMAIN p /\ c[i] = p[i]
                 \/ i - m \in DOMAIN S /\ c[i] = S[i - m] /\ i \in Nat
      <4>1. CASE i <= m
        BY <2>1, <3>4, <3>5, <4>1
      <4>2. CASE ~ (i <= m)
        <5>1. i - m \in 1 .. Len(S) /\ m + (i - m) = i /\ i \in Nat
          BY <3>4, <4>2
        <5>2. QED
          BY <3>4, <3>6, <5>1
      <4>3. QED
        BY <4>1, <4>2
    <3>8. ASSUME NEW i \in DOMAIN c
          PROVE  /\ c[i].start > L => c[i].end = c[i].start
                 /\ c[i].start \notin RangeMembers(b)
                 /\ (\E j \in DOMAIN f : c[i].start = f[j].start) \/ c[i].start = b.end + 1
      <4>1. CASE i \in DOMAIN p /\ c[i] = p[i]
        <5>1. i \in DOMAIN f /\ c[i] = f[i]
          BY <2>1, <4>1
        <5>2. QED
          BY <1>1, <3>2, <4>1, <5>1 DEF CutShape
      <4>2. CASE i - m \in DOMAIN S /\ c[i] = S[i - m]
        <5>1. PICK j \in DOMAIN S : c[i] = S[j]
          BY <4>2
        <5>2. S[j].start > L => S[j].end = S[j].start
          BY <2>4 DEF CutShape
        <5>3. S[j].start \notin RangeMembers(b) /\ (S[j].start = a.start \/ S[j].start = b.end + 1)
          BY <2>4
        <5>4. QED
          BY <2>1, <5>1, <5>2, <5>3
      <4>3. QED
        BY <3>7, <4>1, <4>2
    <3>9. ASSUME NEW i \in DOMAIN c, i < Len(c) PROVE c[i].end < b.start
      <4>1. CASE i \in DOMAIN p /\ c[i] = p[i]
        BY <2>1, <4>1
      <4>2. CASE i - m \in DOMAIN S /\ c[i] = S[i - m] /\ i \in Nat
        <5>1. i - m < Len(S)
          BY <3>4, <3>9, <4>2
        <5>2. S[i - m].end < b.start
          BY <2>4, <4>2, <5>1 DEF CutShape
        <5>3. QED
          BY <4>2, <5>2
      <4>3. QED
        BY <3>7, <4>1, <4>2
    <3>10. ASSUME c # <<>> PROVE c[Len(c)].end = L \/ c[Len(c)].end <= b.start + 1
      <4>1. CASE S = <<>>
        <5>1. Len(c) \in DOMAIN p /\ c[Len(c)] = p[Len(c)]
          <6>1. Len(S) = 0 /\ Len(c) = m /\ m # 0
            BY <3>4, <3>10, <4>1
          <6>2. m \in 1 .. m
            BY <3>4, <6>1
          <6>3. QED
            BY <2>1, <3>5, <6>1, <6>2
        <5>2. p[Len(c)].end \in Nat /\ p[Len(c)].end < b.start
          BY <2>1, <3>2, <5>1
        <5>3. p[Len(c)].end <= b.start + 1
          BY <3>1, <5>2
        <5>4. QED
          BY <5>1, <5>3
      <4>2. CASE S # <<>>
        <5>1. Len(S) \in DOMAIN S
          BY <2>2, <4>2
        <5>2. c[Len(c)] = S[Len(S)]
          BY <3>4, <3>6, <5>1
        <5>3. QED
          BY <2>4, <4>2, <5>2 DEF CutShape
      <4>3. QED
        BY <4>1, <4>2
    <3>11. CutShape(c, b.start, F, L)
      BY <3>3, <3>8, <3>9, <3>10 DEF CutShape
    <3>12. QED
      BY <2>1, <3>8, <3>11
  <2>5. QED
    BY <2>2, <2>3, <2>4
<1>4. QED
  BY <1>2, <1>3

\* A cut that is not a right overlap takes the addresses of b away, and no others.
LEMMA CutExact ==
    ASSUME NEW f, NEW b, NEW x, NEW F, NEW L, NextCut(f, b, x, F, L), f # <<>>,
           ~ RightOverlap(f[Len(f)], b)
    PROVE  LET a == f[Len(f)]
               c == Cut(f, b)
           IN  /\ Members(c) = Members(f) \ RangeMembers(b)
               /\ \/ c # <<>> /\ c[Len(c)].end = a.end
                  \/ /\ b.start <= a.start /\ a.end <= b.end
                     /\ Len(f) = 1 => c = <<>>
<1> DEFINE n == Len(f)
           p == SubSeq(f, 1, n - 1)
           a == f[n]
           S == splitRange(a, b)
           c == p \o S
<1>1. /\ n \in DOMAIN f /\ n \in Nat /\ n >= 1 /\ DOMAIN f = 1 .. n
      /\ Cuttable(a, b, x, F, L)
      /\ Cut(f, b) = c
      /\ f = p \o <<a>> /\ <<a>> \in Seq(IPRange)
      /\ p \in Seq(IPRange) /\ DOMAIN p = 1 .. n - 1
      /\ \A i \in DOMAIN p : p[i].end < b.start
  BY CutParts
<1>2. S \in Seq(IPRange) /\ IF S = <<>> THEN b.start <= a.start /\ a.end <= b.end
                                        ELSE S[Len(S)].end = a.end
  BY <1>1, SplitShape
<1>3. a \in IPRange /\ b \in IPRange /\ a.start <= a.end /\ b.start <= b.end
  BY <1>1 DEF Cuttable
<1>4. Members(S) = RangeMembers(a) \ RangeMembers(b)
  BY <1>3, SplitExact
<1> HIDE DEF S
<1>5. Members(c) = Members(f) \ RangeMembers(b)
  <2>1. Members(c) = Members(p) \cup Members(S)
    BY <1>1, <1>2, AppendedMembers
  <2>2. Members(f) = Members(p) \cup RangeMembers(a)
    <3>1. Members(p \o <<a>>) = Members(p) \cup Members(<<a>>)
      BY <1>1, AppendedMembers
    <3>2. Members(<<a>>) = RangeMembers(a)
      BY FewMembers
    <3>3. QED
      BY <1>1, <3>1, <3>2
  <2>3. ASSUME NEW ip \in Members(p) PROVE ip \notin RangeMembers(b)
    <3>1. PICK i \in DOMAIN p : InRange(p[i], ip)
      BY DEF Members
    <3>2. ip \in Nat /\ ip <= p[i].end /\ p[i].end < b.start /\ p[i].end \in Nat
      <4>1. ip \in Nat
        BY TopAssumption DEF Members, IPs
      <4>2. p[i].end \in Nat
        BY <1>1, Fields
      <4>3. QED
        BY <1>1, <3>1, <4>1, <4>2 DEF InRange
    <3>3. b.start \in Nat
      BY <1>3, TopAssumption DEF IPRange, IPs
    <3>4. ~ (b.start <= ip)
      BY <3>2, <3>3
    <3>5. QED
      BY <3>4 DEF RangeMembers, InRange
  <2>4. QED
    BY <1>4, <2>1, <2>2, <2>3
<1>6. CASE S # <<>>
  <2>1. c # <<>> /\ c[Len(c)] = S[Len(S)]
    <3>1. /\ c \in Seq(IPRange) /\ Len(c) = Len(p) + Len(S)
          /\ \A i \in 1 .. Len(p) + Len(S) : c[i] = IF i <= Len(p) THEN p[i] ELSE S[i - Len(p)]
      BY <1>1, <1>2, ConcatProperties
    <3> HIDE DEF c, p
    <3>2. Len(p) \in Nat /\ Len(S) \in Nat /\ Len(S) # 0
      BY <1>1, <1>2, <1>6
    <3>3. Len(c) \in 1 .. Len(p) + Len(S) /\ ~ (Len(c) <= Len(p)) /\ Len(c) - Len(p) = Len(S)
      BY <3>1, <3>2
    <3>4. c[Len(c)] = S[Len(S)]
      BY <3>1, <3>3
    <3>5. QED
      BY <3>1, <3>3, <3>4
  <2>2. QED
    BY <1>1, <1>2, <1>5, <1>6, <2>1
<1>7. CASE S = <<>>
  <2>1. ASSUME n = 1 PROVE c = <<>>
    <3>1. DOMAIN p = 1 .. 0
      BY <1>1, <2>1
    <3> HIDE DEF p
    <3>2. p = <<>>
      BY <1>1, <3>1
    <3>3. QED
      BY <1>7, <3>2
  <2>2. QED
    BY <1>1, <1>2, <1>5, <1>7, <2>1
<1>8. QED
  BY <1>6, <1>7

\* The reserved ranges as getIPRangeList leaves them: in order, and one may start where
\* another ends.
Reserves(R, F, L) ==
    /\ R \in Seq(IPRange) /\ {F, L} \subseteq Nat /\ 1 <= F /\ F <= L /\ L + 1 < Top
    /\ \A i \in DOMAIN R : R[i].start <= R[i].end
    /\ \A i, j \in DOMAIN R : i < j => R[i].end <= R[j].start

\* The free list after the first k reserved ranges.
Stage(R, F, L, k) == Cuts(<<Rg(F, L)>>, R)[k]
LastStart(R, k) == IF k = 0 THEN 0 ELSE R[k].start

StageOk(R, F, L, k) ==
    LET f == Stage(R, F, L, k)
    IN  /\ CutShape(f, LastStart(R, k), F, L)
        /\ \A i \in DOMAIN f : f[i].start \notin MembersTo(R, k)

LEMMA Stages ==
    ASSUME NEW R, NEW F, NEW L, Reserves(R, F, L)
    PROVE  /\ Stage(R, F, L, 0) = <<Rg(F, L)>> /\ StageOk(R, F, L, 0)
           /\ \A k \in 0 .. Len(R) : Stage(R, F, L, k) \in Seq(IPRange)
           /\ \A k \in 1 .. Len(R) : Stage(R, F, L, k) = Cut(Stage(R, F, L, k - 1), R[k])
           /\ \A k \in 1 .. Len(R) : StageOk(R, F, L, k - 1) =>
                NextCut(Stage(R, F, L, k - 1), R[k], LastStart(R, k - 1), F, L)
           /\ \A j, k \in DOMAIN R : j <= k => R[j].start <= R[k].start
<1> DEFINE r == Rg(F, L)
           l == <<r>>
<1>1. /\ R \in Seq(IPRange) /\ F \in Nat /\ L \in Nat /\ 1 <= F /\ F <= L /\ L + 1 < Top
      /\ Top \in Nat /\ Len(R) \in Nat /\ DOMAIN R = 1 .. Len(R)
  BY TopAssumption DEF Reserves
<1>2. r \in IPRange /\ r.start = F /\ r.end = L
  BY <1>1 DEF Rg, IPRange, IPs
<1> HIDE DEF r
<1>3. l \in Seq(IPRange) /\ DOMAIN l = {1} /\ l[1] = r /\ Len(l) = 1
  BY <1>2
<1> HIDE DEF l
<1>4. /\ Cuts(l, R) \in [0 .. Len(R) -> Seq(IPRange)] /\ Cuts(l, R)[0] = l
      /\ \A k \in 1 .. Len(R) : Cuts(l, R)[k] = Cut(Cuts(l, R)[k - 1], R[k])
  BY <1>1, <1>3, CutsAre
<1>5. \A k : Stage(R, F, L, k) = Cuts(l, R)[k]
  BY DEF Stage, l, r
<1>6. CutShape(l, 0, F, L)
  <2>1. ASSUME NEW i \in DOMAIN l
        PROVE  /\ F <= l[i].start /\ l[i].start <= l[i].end + 0 /\ l[i].end <= Top - 1
               /\ ~ (l[i].start > L) /\ ~ (i < Len(l))
    BY <1>1, <1>2, <1>3
  <2>2. ASSUME NEW i \in DOMAIN l, NEW j \in DOMAIN l, i < j PROVE FALSE
    BY <1>3, <2>2
  <2>3. l[Len(l)].end = L
    BY <1>2, <1>3
  <2>4. QED
    BY <2>1, <2>2, <2>3 DEF CutShape, Spaced
<1>7. MembersTo(R, 0) = {}
  BY DEF MembersTo
<1>8. StageOk(R, F, L, 0)
  BY <1>4, <1>5, <1>6, <1>7 DEF StageOk, LastStart
<1>9. ASSUME NEW i \in DOMAIN R
      PROVE  /\ R[i] \in IPRange /\ R[i].start \in Nat /\ R[i].end \in Nat /\ R[i].start <= R[i].end
  BY <1>1, Fields DEF Reserves
<1>10. ASSUME NEW j \in DOMAIN R, NEW k \in DOMAIN R, j <= k PROVE R[j].start <= R[k].start
  <2>1. CASE j = k
    BY <1>9, <2>1
  <2>2. CASE j # k
    <3>1. j < k
      BY <1>1, <1>10, <2>2
    <3>2. R[j].end <= R[k].start
      BY <3>1 DEF Reserves
    <3>3. QED
      BY <1>9, <3>2
  <2>3. QED
    BY <2>1, <2>2
<1>11. ASSUME NEW k \in 1 .. Len(R), StageOk(R, F, L, k - 1)
       PROVE  NextCut(Stage(R, F, L, k - 1), R[k], LastStart(R, k - 1), F, L)
  <2>1. k - 1 \in 0 .. Len(R) /\ k \in DOMAIN R
    BY <1>1
  <2>2. Stage(R, F, L, k - 1) \in Seq(IPRange)
    BY <1>4, <1>5, <2>1
  <2>3. LastStart(R, k - 1) \in Nat /\ LastStart(R, k - 1) <= R[k].start
    <3>1. CASE k - 1 = 0
      BY <1>9, <2>1, <3>1 DEF LastStart
    <3>2. CASE k - 1 # 0
      <4>1. k - 1 \in DOMAIN R /\ k - 1 <= k
        BY <1>1, <2>1, <3>2
      <4>2. R[k - 1].start \in Nat /\ R[k - 1].start <= R[k].start
        BY <1>9, <1>10, <2>1, <4>1
      <4>3. QED
        BY <3>2, <4>2 DEF LastStart
    <3>3. QED
      BY <3>1, <3>2
  <2>4. CutShape(Stage(R, F, L, k - 1), LastStart(R, k - 1), F, L)
    BY <1>11 DEF StageOk
  <2>5. QED
    BY <1>1, <1>9, <2>1, <2>2, <2>3, <2>4 DEF NextCut
<1>12. Stage(R, F, L, 0) = <<Rg(F, L)>>
  BY <1>4, <1>5 DEF l, r
<1>13. QED
  BY <1>4, <1>5, <1>8, <1>10, <1>11, <1>12

\* The end has wrapped around: a usable address that is not reserved is lost for good,
\* since only the last address of all is left to be cut.
StageLost(R, F, L, k) ==
    LET f == Stage(R, F, L, k)
    IN  /\ k # 0 /\ R[k].start = Top - 1
        /\ \A i \in DOMAIN f : f[i].end < Top - 1
        /\ \E s \in F .. L : s \notin Members(f) /\ s \notin Members(R)

LEMMA StageKeeps ==
    ASSUME NEW R, NEW F, NEW L, Reserves(R, F, L), NEW k \in 1 .. Len(R),
           StageOk(R, F, L, k - 1)
    PROVE  \/ StageOk(R, F, L, k)
           \/ /\ StageLost(R, F, L, k)
              /\ LET f == Stage(R, F, L, k - 1) IN f # <<>> /\ RightOverlap(f[Len(f)], R[k])
<1> DEFINE f == Stage(R, F, L, k - 1)
           b == R[k]
           c == Cut(f, b)
           x == LastStart(R, k - 1)
           n == Len(f)
<1>1. /\ NextCut(f, b, x, F, L) /\ Stage(R, F, L, k) = c
      /\ \A j \in DOMAIN R : k <= j => b.start <= R[j].start
  <2>1. k \in DOMAIN R
    BY DEF Reserves
  <2>2. QED
    BY <2>1, Stages
<1>2. /\ R \in Seq(IPRange) /\ F \in Nat /\ L \in Nat /\ 1 <= F /\ L + 1 < Top /\ Top \in Nat
      /\ Len(R) \in Nat /\ DOMAIN R = 1 .. Len(R) /\ k \in DOMAIN R /\ k \in Nat /\ k # 0
  BY TopAssumption DEF Reserves
<1>3. \A i \in DOMAIN R : R[i].start \in Nat /\ R[i].end \in Nat /\ R[i].start <= R[i].end
  BY <1>2, Fields DEF Reserves
<1>4. \A i \in DOMAIN f : f[i].start \notin MembersTo(R, k - 1)
  BY DEF StageOk
<1>5. LastStart(R, k) = b.start
  BY <1>2 DEF LastStart
<1>6. MembersTo(R, k) = MembersTo(R, k - 1) \cup RangeMembers(b)
  BY <1>2, MembersToNext
<1>7. \/ f # <<>> /\ Wraps(f[n], b, F, L) /\ RightOverlap(f[n], b)
      \/ /\ CutShape(c, b.start, F, L)
         /\ \A i \in DOMAIN c :
                /\ c[i].start \notin RangeMembers(b)
                /\ (\E j \in DOMAIN f : c[i].start = f[j].start) \/ c[i].start = b.end + 1
  BY <1>1, CutStep
<1>8. CASE /\ CutShape(c, b.start, F, L)
           /\ \A i \in DOMAIN c :
                /\ c[i].start \notin RangeMembers(b)
                /\ (\E j \in DOMAIN f : c[i].start = f[j].start) \/ c[i].start = b.end + 1
  <2>1. b.end + 1 \notin MembersTo(R, k - 1)
    <3>1. ASSUME NEW i \in 1 .. k - 1 PROVE ~ (b.end + 1 <= R[i].end)
      <4>1. i \in DOMAIN R /\ i < k
        BY <1>2
      <4>2. R[i].end <= b.start
        BY <1>2, <4>1 DEF Reserves
      <4>3. QED
        BY <1>2, <1>3, <4>1, <4>2
    <3>2. QED
      BY <3>1 DEF MembersTo, InRange
  <2>2. \A i \in DOMAIN c : c[i].start \notin MembersTo(R, k)
    BY <1>4, <1>6, <1>8, <2>1
  <2> HIDE DEF c, f
  <2>3. StageOk(R, F, L, k)
    BY <1>1, <1>5, <1>8, <2>2 DEF StageOk
  <2>4. QED
    BY <2>3
<1>9. CASE f # <<>> /\ Wraps(f[n], b, F, L) /\ RightOverlap(f[n], b)
  <2> DEFINE p == SubSeq(f, 1, n - 1)
             s == f[n].start
             e == <<Rg(s, 0)>>
  <2>1. /\ n \in DOMAIN f /\ c = p \o splitRange(f[n], b)
        /\ f \in Seq(IPRange) /\ p \in Seq(IPRange)
        /\ \A i \in DOMAIN p : p[i].end < b.start /\ p[i].end + 1 < s
    <3>1. f \in Seq(IPRange)
      BY <1>1 DEF NextCut
    <3>2. QED
      BY <1>1, <1>9, <3>1, CutParts
  <2>2. /\ b.start = Top - 1 /\ s < b.start /\ F <= s /\ s <= L /\ splitRange(f[n], b) = e
    BY <1>9 DEF Wraps
  <2>3. s \in Nat /\ s \in F .. L /\ s \in IPs
    <3>1. s \in Nat
      BY <2>1, Fields
    <3> HIDE DEF s
    <3>2. QED
      BY <1>2, <2>2, <3>1 DEF IPs
  <2>4. s \notin Members(R)
    <3>1. s \notin MembersTo(R, k - 1)
      BY <1>4, <2>1
    <3>2. ASSUME NEW j \in DOMAIN R PROVE ~ InRange(R[j], s)
      <4>1. CASE j < k
        <5>1. j \in 1 .. k - 1
          BY <1>2, <4>1
        <5>2. QED
          BY <2>3, <3>1, <5>1 DEF MembersTo
      <4>2. CASE ~ (j < k)
        <5>1. k <= j
          BY <1>2, <4>2
        <5>2. b.start <= R[j].start
          BY <1>1, <5>1
        <5> HIDE DEF s
        <5>3. s < R[j].start
          BY <1>2, <1>3, <2>2, <2>3, <5>2
        <5>4. QED
          BY <1>3, <2>3, <5>3 DEF InRange
      <4>3. QED
        BY <4>1, <4>2
    <3>3. QED
      BY <3>2 DEF Members
  <2>5. e \in Seq(IPRange) /\ DOMAIN e = {1} /\ e[1].start = s /\ e[1].end = 0
    <3> HIDE DEF s
    <3>1. Rg(s, 0) \in IPRange /\ Rg(s, 0).start = s /\ Rg(s, 0).end = 0
      BY <1>2, <2>3 DEF Rg, IPRange, IPs
    <3>2. QED
      BY <3>1
  <2> HIDE DEF p, e, s
  <2>6. c = p \o e
    BY <2>1, <2>2
  <2> HIDE DEF c, f, n
  <2>7. ASSUME NEW i \in DOMAIN c PROVE c[i].end < Top - 1 /\ ~ InRange(c[i], s)
    <3>1. (i \in DOMAIN p /\ c[i] = p[i]) \/ (\E j \in DOMAIN e : c[i] = e[j])
      BY <2>1, <2>5, <2>6, AppendedAt
    <3>2. CASE i \in DOMAIN p /\ c[i] = p[i]
      <4>1. p[i].end \in Nat /\ p[i].end < Top - 1 /\ p[i].end + 1 < s
        BY <2>1, <2>2, <3>2, Fields
      <4>2. ~ (s <= p[i].end)
        BY <2>3, <4>1
      <4>3. QED
        BY <3>2, <4>1, <4>2 DEF InRange
    <3>3. CASE \E j \in DOMAIN e : c[i] = e[j]
      <4>1. c[i].end = 0
        BY <2>5, <3>3
      <4>2. 0 < Top - 1 /\ ~ (s <= 0)
        BY <1>2, <2>2, <2>3
      <4>3. QED
        BY <4>1, <4>2 DEF InRange
    <3>4. QED
      BY <3>1, <3>2, <3>3
  <2>8. s \notin Members(c)
    BY <2>7 DEF Members
  <2>9. StageLost(R, F, L, k)
    BY <1>1, <1>2, <2>2, <2>3, <2>4, <2>7, <2>8 DEF StageLost
  <2>10. QED
    BY <1>9, <2>9 DEF f, n
<1>10. QED
  BY <1>7, <1>8, <1>9

\* All stages: the free list is in order at the end, or an address has been lost.
LEMMA LastStage ==
    ASSUME NEW R, NEW F, NEW L, Reserves(R, F, L)
    PROVE  StageOk(R, F, L, Len(R)) \/ StageLost(R, F, L, Len(R))
<1> DEFINE n == Len(R)
           T == {k \in 0 .. n : StageOk(R, F, L, k) \/ StageLost(R, F, L, k)}
<1>1. n \in Nat /\ R \in Seq(IPRange) /\ DOMAIN R = 1 .. n
  BY DEF Reserves
<1>2. 0 \in T
  <2>1. 0 \in 0 .. n
    BY <1>1
  <2>2. QED
    BY <2>1, Stages
<1>3. ASSUME NEW k \in 1 .. n, k - 1 \in T PROVE k \in T
  <2>1. k \in 0 .. n /\ k - 1 \in 0 .. n
    BY <1>1
  <2>2. CASE StageOk(R, F, L, k - 1)
    BY <2>1, <2>2, StageKeeps
  <2>3. CASE StageLost(R, F, L, k - 1)
    <3> DEFINE f == Stage(R, F, L, k - 1)
               b == R[k]
    <3>1. /\ k - 1 # 0 /\ R[k - 1].start = Top - 1 /\ \A i \in DOMAIN f : f[i].end < Top - 1
          /\ \E s \in F .. L : s \notin Members(f) /\ s \notin Members(R)
      BY <2>3 DEF StageLost
    <3>2. k - 1 \in DOMAIN R /\ k \in DOMAIN R /\ k - 1 <= k /\ k # 0
      BY <1>1, <2>1, <3>1
    <3>3. R[k - 1].start <= b.start /\ f \in Seq(IPRange) /\ Stage(R, F, L, k) = Cut(f, b)
      BY <2>1, <3>2, Stages
    <3>4. b \in IPRange /\ b.start \in Nat /\ b.start < Top
      BY <1>1, <3>2, Fields
    <3>5. b.start = Top - 1
      BY <3>1, <3>3, <3>4, TopAssumption
    <3> HIDE DEF f, b
    <3>6. Cut(f, b) = f
      BY <3>1, <3>3, <3>4, <3>5, CutMissed
    <3>7. StageLost(R, F, L, k)
      BY <3>1, <3>2, <3>3, <3>5, <3>6 DEF StageLost, b
    <3>8. QED
      BY <2>1, <3>7
  <2>4. QED
    BY <1>3, <2>2, <2>3
<1>4. 0 .. n \subseteq T
  <2> HIDE DEF T, n
  <2>1. QED
    BY <1>1, <1>2, <1>3, LoopInduction
<1>5. n \in 0 .. n
  BY <1>1
<1>6. n \in T
  BY <1>4, <1>5, Zenon
<1>7. QED
  BY <1>6

\* As long as no end was covered by a reserved range that does not cover the start, the
\* free list has all addresses that are not reserved, and reaches L.
StageExact(R, F, L, k) ==
    LET f == Stage(R, F, L, k)
    IN  /\ StageOk(R, F, L, k)
        /\ f # <<>> => f[Len(f)].end = L
        /\ Members(f) = (F .. L) \ MembersTo(R, k)

LEMMA StageStaysExact ==
    ASSUME NEW R, NEW F, NEW L, Reserves(R, F, L), NEW k \in 1 .. Len(R),
           StageExact(R, F, L, k - 1), F .. L \subseteq Members(R) \/ L \notin Members(R)
    PROVE  StageExact(R, F, L, k)
<1> DEFINE f == Stage(R, F, L, k - 1)
           b == R[k]
           c == Cut(f, b)
           x == LastStart(R, k - 1)
           n == Len(f)
<1>1. /\ NextCut(f, b, x, F, L) /\ Stage(R, F, L, k) = c
      /\ \A j \in DOMAIN R : k <= j => b.start <= R[j].start
  <2>1. k \in DOMAIN R
    BY DEF Reserves
  <2>2. QED
    BY <2>1, Stages DEF StageExact
<1>2. /\ R \in Seq(IPRange) /\ F \in Nat /\ L \in Nat /\ L + 1 < Top /\ Top \in Nat
      /\ DOMAIN R = 1 .. Len(R) /\ Len(R) \in Nat /\ k \in DOMAIN R /\ k \in Nat
  BY TopAssumption DEF Reserves
<1>3. \A i \in DOMAIN R : R[i].start \in Nat /\ R[i].end \in Nat /\ R[i].start <= R[i].end
  BY <1>2, Fields DEF Reserves
<1>4. /\ StageOk(R, F, L, k - 1) /\ (f # <<>> => f[n].end = L)
      /\ Members(f) = (F .. L) \ MembersTo(R, k - 1)
      /\ CutShape(f, x, F, L) /\ \A i \in DOMAIN f : f[i].start \notin MembersTo(R, k - 1)
  BY DEF StageExact, StageOk
<1>5. MembersTo(R, k) = MembersTo(R, k - 1) \cup RangeMembers(b)
  BY <1>2, MembersToNext
<1>6. f \in Seq(IPRange) /\ x \in Nat /\ x <= b.start
  BY <1>1 DEF NextCut
<1>7. CASE f = <<>>
  <2>1. ~ (f # <<>> /\ RightOverlap(f[n], b))
    BY <1>7
  <2>2. StageOk(R, F, L, k)
    BY <1>4, <2>1, StageKeeps
  <2>3. c = <<>>
    <3>1. b \in IPRange
      BY <1>2
    <3>2. QED
      BY <1>7, <3>1, CutNothing
  <2>4. Members(c) = (F .. L) \ MembersTo(R, k)
    BY <1>4, <1>5, <1>7, <2>3, FewMembers
  <2> HIDE DEF c
  <2>5. QED
    BY <1>1, <2>2, <2>3, <2>4 DEF StageExact
<1>8. CASE f # <<>>
  <2> DEFINE a == f[n]
  <2>1. /\ n \in DOMAIN f /\ n \in Nat /\ n >= 1 /\ DOMAIN f = 1 .. n /\ Cuttable(a, b, x, F, L)
    BY <1>1, <1>8, CutParts
  <2>2. /\ a.start \in Nat /\ a.end = L /\ F <= a.start /\ a.start <= L
        /\ b.start \in Nat /\ b.end \in Nat /\ b.start <= b.end
    <3>1. a.start \in Nat
      BY <1>6, <2>1, Fields
    <3>2. QED
      BY <1>2, <1>3, <1>4, <1>8, <2>1, <3>1 DEF Cuttable
  <2>3. L \in RangeMembers(b) => L \in Members(R)
    BY <1>2 DEF RangeMembers, Members
  <2>4. L \in IPs
    BY <1>2 DEF IPs
  \* A start that is reserved is in a range that does not start before b.
  <2>5. ASSUME NEW s \in F .. L, s \in Members(R), s \notin MembersTo(R, k - 1)
        PROVE  b.start <= s
    <3>1. PICK j \in DOMAIN R : InRange(R[j], s)
      BY <2>5 DEF Members
    <3>2. s \in IPs
      BY <2>5 DEF Members
    <3>3. j \notin 1 .. k - 1
      BY <2>5, <3>1, <3>2 DEF MembersTo
    <3>4. k <= j
      BY <1>2, <3>3
    <3>5. b.start <= R[j].start /\ R[j].start <= s /\ R[j].start \in Nat /\ s \in Nat
      BY <1>1, <1>2, <1>3, <3>1, <3>4 DEF InRange
    <3>6. QED
      BY <2>2, <3>5
  <2>6. a.start \in F .. L /\ a.start \notin MembersTo(R, k - 1)
    BY <1>2, <1>4, <2>1, <2>2
  <2>7. ~ RightOverlap(a, b)
    <3> SUFFICES ASSUME a.start < b.start, b.start <= a.end, a.end <= b.end PROVE FALSE
      BY DEF RightOverlap
    <3>1. CASE L \notin Members(R)
      <4>1. InRange(b, L)
        BY <2>2 DEF InRange
      <4>2. QED
        BY <2>3, <2>4, <3>1, <4>1 DEF RangeMembers
    <3>2. CASE F .. L \subseteq Members(R)
      <4>1. b.start <= a.start
        BY <2>5, <2>6, <3>2
      <4>2. QED
        BY <2>2, <4>1
    <3>3. QED
      BY <3>1, <3>2
  <2>8. StageOk(R, F, L, k)
    BY <1>4, <2>7, StageKeeps
  <2>9. /\ Members(c) = Members(f) \ RangeMembers(b)
        /\ \/ c # <<>> /\ c[Len(c)].end = a.end
           \/ /\ b.start <= a.start /\ a.end <= b.end
              /\ n = 1 => c = <<>>
    BY <1>1, <1>8, <2>7, CutExact
  <2>10. Members(c) = (F .. L) \ MembersTo(R, k)
    BY <1>4, <1>5, <2>9
  <2>11. ASSUME c # <<>> PROVE c[Len(c)].end = L
    <3>1. CASE c[Len(c)].end = a.end
      BY <2>2, <3>1
    <3>2. CASE /\ b.start <= a.start /\ a.end <= b.end
               /\ n = 1 => c = <<>>
      <4>1. InRange(b, L)
        BY <1>2, <2>2, <3>2 DEF InRange
      <4>2. L \in Members(R)
        BY <2>3, <2>4, <4>1 DEF RangeMembers
      <4>3. n # 1
        BY <2>11, <3>2
      <4> DEFINE s == f[1].start
      <4>4. 1 \in DOMAIN f /\ 1 < n
        <5> HIDE DEF n, f
        <5>1. 1 < n /\ 1 \in 1 .. n
          BY <2>1, <4>3
        <5>2. QED
          BY <2>1, <5>1
      <4>5. /\ s \in Nat /\ f[1].end \in Nat /\ f[1].end < x /\ f[1].end + 1 < a.start
            /\ F <= s /\ s <= f[1].end + 0
        <5>1. s \in Nat /\ f[1].end \in Nat
          BY <1>6, <4>4, Fields
        <5>2. Spaced(f, F, Top - 1, 0, 1) /\ f[1].end < x
          BY <1>4, <4>4 DEF CutShape
        <5>3. F <= s /\ s <= f[1].end + 0
          BY <4>4, <5>2 DEF Spaced
        <5>4. f[1].end + 1 < a.start
          BY <2>1, <4>4, <5>2 DEF Spaced
        <5>5. QED
          BY <5>1, <5>2, <5>3, <5>4
      <4>6. s \in F .. L /\ s \notin MembersTo(R, k - 1) /\ s < x
        <5>1. s \notin MembersTo(R, k - 1)
          BY <1>4, <4>4
        <5> DEFINE e == f[1].end
                   q == a.start
        <5>2. /\ s \in Nat /\ e \in Nat /\ e < x /\ e + 1 < q /\ q <= L /\ q \in Nat
              /\ F <= s /\ s <= e + 0
          BY <2>2, <4>5
        <5> HIDE DEF s, e, q
        <5>3. s < x /\ F <= s /\ s <= L
          BY <1>2, <1>6, <5>2
        <5>4. QED
          BY <1>2, <5>1, <5>2, <5>3
      <4>7. b.start <= s
        BY <2>5, <4>2, <4>6
      <4> HIDE DEF s
      <4>8. QED
        BY <1>6, <2>2, <4>5, <4>6, <4>7
    <3>3. QED
      BY <2>9, <2>11, <3>1, <3>2
  <2> HIDE DEF c
  <2>12. QED
    BY <1>1, <2>8, <2>10, <2>11 DEF StageExact
<1>9. QED
  BY <1>7, <1>8

LEMMA LastStageExact ==
    ASSUME NEW R, NEW F, NEW L, Reserves(R, F, L),
           F .. L \subseteq Members(R) \/ L \notin Members(R)
    PROVE  StageExact(R, F, L, Len(R))
<1> DEFINE n == Len(R)
           T == {k \in 0 .. n : StageExact(R, F, L, k)}
<1>1. n \in Nat /\ F \in Nat /\ L \in Nat /\ L + 1 < Top /\ F <= L
  BY DEF Reserves
<1>2. 0 \in T
  <2>1. 0 \in 0 .. n
    BY <1>1
  <2>2. Stage(R, F, L, 0) = <<Rg(F, L)>> /\ StageOk(R, F, L, 0)
    BY Stages
  <2>3. Rg(F, L).start = F /\ Rg(F, L).end = L
    BY DEF Rg
  <2>4. RangeMembers(Rg(F, L)) = F .. L
    <3> DEFINE r == Rg(F, L)
    <3> HIDE DEF r
    <3>1. r.start = F /\ r.end = L
      BY <2>3 DEF r
    <3>2. RangeMembers(r) = F .. L
      BY <1>1, <3>1, TopAssumption DEF RangeMembers, InRange, IPs
    <3>3. QED
      BY <3>2 DEF r
  <2>5. MembersTo(R, 0) = {}
    BY DEF MembersTo
  <2>6. StageExact(R, F, L, 0)
    <3> DEFINE r == Rg(F, L)
               f == <<r>>
    <3>1. Members(f) = F .. L
      BY <2>4, FewMembers
    <3>2. f[Len(f)].end = L
      BY <2>3
    <3>3. Stage(R, F, L, 0) = f
      BY <2>2
    <3> HIDE DEF f
    <3>4. QED
      BY <2>2, <2>5, <3>1, <3>2, <3>3 DEF StageExact
  <2>7. QED
    BY <2>1, <2>6
<1>3. ASSUME NEW k \in 1 .. n, k - 1 \in T PROVE k \in T
  <2>1. k \in 0 .. n
    BY <1>1
  <2>2. StageExact(R, F, L, k)
    BY <1>3, StageStaysExact
  <2>3. QED
    BY <2>1, <2>2
<1>4. 0 .. n \subseteq T
  <2> HIDE DEF T, n
  <2>1. QED
    BY <1>1, <1>2, <1>3, LoopInduction
<1>5. n \in 0 .. n
  BY <1>1
<1>6. n \in T
  BY <1>4, <1>5, Zenon
<1>7. QED
  BY <1>6

--------------------------------------------------------------------------------
(***************************************************************************)
(* The pool that NewSubnet makes                                           *)
(***************************************************************************)

\* The addresses of the block are numbers below Top, and those for pods are not its ends.
LEMMA BlockAddresses ==
    ASSUME SubnetTypeInv, cidr.size >= 3,
           NEW F, NEW L, F = cidr.base + 1, L = cidr.base + cidr.size - 2
    PROVE  /\ F \in Nat /\ L \in Nat /\ 1 <= F /\ F <= L /\ L + 1 < Top /\ Top \in Nat /\ Top > 1
           /\ Usable = F .. L /\ Usable \subseteq IPs
           /\ GetFirstIP(cidr) = F /\ GetLastIP(cidr) = L
<1> DEFINE b == cidr.base
           n == cidr.size
<1>1. /\ b \in Nat /\ n \in Nat /\ n >= 3 /\ b + n <= Top /\ Top \in Nat
      /\ F = b + 1 /\ L = b + n - 2
  BY TopAssumption DEF SubnetTypeInv, IPs
<1>2. Usable = b + 1 .. b + n - 2 /\ GetFirstIP(cidr) = Add(b, 1) /\ GetLastIP(cidr) = Sub(b + n - 1, 1)
  BY DEF Usable, GetFirstIP, GetLastIP
<1> HIDE DEF b, n
<1>3. /\ F \in Nat /\ L \in Nat /\ 1 <= F /\ F <= L /\ L + 1 < Top /\ Top > 1
      /\ F .. L \subseteq IPs
  BY <1>1 DEF IPs
<1>4. Add(b, 1) = F
  BY <1>1 DEF Add
<1>5. Sub(b + n - 1, 1) = L
  <2> DEFINE x == b + n - 1
  <2>1. x - 1 = L /\ x \in Nat /\ L \in Nat /\ L < Top
    BY <1>1
  <2> HIDE DEF x
  <2>2. L % Top = L
    BY <2>1, TopAssumption
  <2>3. (x - 1) % Top = L
    BY <2>1, <2>2
  <2>4. Sub(x, 1) = L
    BY <2>3 DEF Sub
  <2>5. QED
    BY <2>4 DEF x
<1>6. QED
  BY <1>1, <1>2, <1>3, <1>4, <1>5

\* getIPRangeList leaves the reserved ranges in order.
LEMMA ReservedInOrder ==
    ASSUME NEW ips \in Seq(IPs), NEW R \in GetIPRangeList(ips), Top > 1
    PROVE  /\ R \in Seq(IPRange)
           /\ \A i \in DOMAIN R : R[i].start <= R[i].end
           /\ \A i, j \in DOMAIN R : i < j => R[i].end <= R[j].start
<1>1. PICK s \in Seq(IPs) :
            /\ \A i, j \in DOMAIN s : i < j => s[i] <= s[j]
            /\ Singles(s) \in Seq(IPRange) /\ Len(Singles(s)) = Len(s)
            /\ R = Joined(Singles(s))
  BY ReservedLists
<1> DEFINE l == Singles(s)
<1>2. /\ DOMAIN l = DOMAIN s
      /\ \A i \in DOMAIN s : l[i].start = s[i] /\ l[i].end = s[i]
  BY DEF Singles, Rg
<1>3. \A i \in DOMAIN s : s[i] \in Nat /\ s[i] <= Top - 1
  <2>1. \A i \in DOMAIN s : s[i] \in IPs
    OBVIOUS
  <2>2. QED
    BY <2>1, TopAssumption DEF IPs
<1>4. l \in Seq(IPRange)
  BY <1>1
<1> HIDE DEF l
<1>5. Spaced(l, 0, Top - 1, 0, -1)
  <2>1. \A i \in DOMAIN l : 0 <= l[i].start /\ l[i].start <= l[i].end + 0 /\ l[i].end <= Top - 1
    BY <1>2, <1>3
  <2>2. ASSUME NEW i \in DOMAIN l, NEW j \in DOMAIN l, i < j PROVE l[i].end + (-1) < l[j].start
    <3>1. s[i] <= s[j] /\ s[i] \in Nat /\ s[j] \in Nat /\ l[i].end = s[i] /\ l[j].start = s[j]
      BY <1>1, <1>2, <1>3, <2>2
    <3>2. QED
      BY <3>1
  <2>3. QED
    BY <2>1, <2>2 DEF Spaced
<1>6. JoinableList(l, 0, Top - 1, 0, -1, -1)
  <2>1. 0 \in Int /\ Top - 1 \in Int
    BY TopAssumption
  <2>2. QED
    BY <1>4, <1>5, <2>1 DEF JoinableList
<1>7. R \in Seq(IPRange) /\ Spaced(R, 0, Top - 1, 0, -1)
  BY <1>1, <1>6, JoinedSpaced DEF l
<1>8. \A i \in DOMAIN R : R[i].start \in Nat /\ R[i].end \in Nat
  BY <1>7, Fields
<1>9. \A i \in DOMAIN R : R[i].start <= R[i].end
  BY <1>7, <1>8 DEF Spaced
<1>10. ASSUME NEW i \in DOMAIN R, NEW j \in DOMAIN R, i < j PROVE R[i].end <= R[j].start
  <2>1. R[i].end + (-1) < R[j].start
    BY <1>7, <1>10 DEF Spaced
  <2>2. QED
    BY <1>8, <2>1
<1>11. QED
  BY <1>7, <1>9, <1>10

\* The pool is exact as NewSubnetExact says, and an exact one is in order.
MadeInv ==
    /\ cidr.size >= 3 /\ (Usable \subseteq Members(reserved) \/ cidr.base + cidr.size - 2 \notin Members(reserved))
        => Exact
    /\ cidr.size >= 3 /\ Exact => Spaced(made, cidr.base + 1, cidr.base + cidr.size - 2, 0, 1)

LEMMA InitMade ==
    ASSUME SubnetInit
    PROVE  MadeInv
<1> SUFFICES ASSUME cidr.size >= 3 PROVE MadeInv
  BY DEF MadeInv
<1> DEFINE F == cidr.base + 1
           L == cidr.base + cidr.size - 2
           R == reserved
<1>1. SubnetTypeInv /\ R \in Seq(IPRange) /\ made \in Seq(IPRange)
  BY InitTypes, NewSubnetLists
<1>2. /\ F \in Nat /\ L \in Nat /\ 1 <= F /\ F <= L /\ L + 1 < Top /\ Top \in Nat /\ Top > 1
      /\ Usable = F .. L /\ Usable \subseteq IPs
      /\ GetFirstIP(cidr) = F /\ GetLastIP(cidr) = L
  BY <1>1, BlockAddresses
<1> HIDE DEF F, L
<1>3. Reserves(R, F, L)
  <2>1. PICK ips \in Seq(IPs) : R \in GetIPRangeList(ips)
    BY NewSubnetLists
  <2>2. QED
    BY <1>2, <2>1, ReservedInOrder DEF Reserves
<1>4. made = Stage(R, F, L, Len(R))
  BY <1>2, NewSubnetLists DEF splitFreeWithReserve, Stage
<1>5. Members(R) = MembersTo(R, Len(R))
  <2>1. DOMAIN R = 1 .. Len(R)
    BY <1>1
  <2>2. QED
    BY <2>1, Zenon DEF Members, MembersTo
<1>6. ASSUME Usable \subseteq Members(reserved) \/ L \notin Members(reserved) PROVE Exact
  <2>1. StageExact(R, F, L, Len(R))
    BY <1>2, <1>3, <1>6, LastStageExact
  <2>2. Members(made) = (F .. L) \ Members(R)
    BY <1>4, <1>5, <2>1 DEF StageExact
  <2>3. QED
    BY <1>2, <2>2 DEF Exact
<1>7. ASSUME Exact PROVE Spaced(made, F, L, 0, 1)
  <2>1. Members(made) = (F .. L) \ Members(R)
    BY <1>2, <1>7 DEF Exact
  <2>2. ~ StageLost(R, F, L, Len(R))
    BY <1>4, <2>1 DEF StageLost
  <2>3. Spaced(made, F, Top - 1, 0, 1)
    BY <1>3, <1>4, <2>2, LastStage DEF StageOk, CutShape
  <2>4. ASSUME NEW i \in DOMAIN made PROVE made[i].end <= L
    <3>1. made[i].start \in Nat /\ made[i].end \in Nat /\ made[i].end < Top
      BY <1>1, Fields
    <3>2. made[i].end \in IPs /\ InRange(made[i], made[i].end)
      BY <1>2, <2>3, <3>1 DEF Spaced, IPs, InRange
    <3>3. made[i].end \in F .. L
      BY <2>1, <3>2 DEF Members
    <3>4. QED
      BY <3>3
  <2>5. QED
    BY <2>3, <2>4 DEF Spaced
<1>8. QED
  BY <1>6, <1>7 DEF MadeInv, F, L

LEMMA BlockStays ==
    ASSUME [SubnetNext]_subnetVars
    PROVE  UNCHANGED <<cidr, reserved, made>>
<1>1. CASE UNCHANGED subnetVars
  BY <1>1 DEF subnetVars
<1>2. CASE SubnetNext
  <2>1. \A p \in Pod : GetRandomAddress(p) => UNCHANGED <<cidr, reserved, made>>
    BY DEF GetRandomAddress
  <2>2. \A p \in Pod, ip \in IPs, mac \in Mac \cup {Nil} :
            GetStaticAddress(p, ip, mac) => UNCHANGED <<cidr, reserved, made>>
    BY DEF GetStaticAddress
  <2>3. \A p \in Pod : ReleaseAddress(p) => UNCHANGED <<cidr, reserved, made>>
    BY DEF ReleaseAddress
  <2>4. QED
    BY <1>2, <2>1, <2>2, <2>3 DEF SubnetNext
<1>3. QED
  BY <1>1, <1>2

LEMMA MadeStays ==
    ASSUME UNCHANGED <<cidr, reserved, made>>
    PROVE  /\ MadeInv => MadeInv'
           /\ Exact' = Exact /\ Usable' = Usable
           /\ Members(made)' = Members(made) /\ Members(reserved)' = Members(reserved)
<1>1. /\ Members(made)' = Members(made) /\ Members(reserved)' = Members(reserved)
      /\ Usable' = Usable
  BY DEF Members, Usable
<1>2. Exact' = Exact
  BY <1>1 DEF Exact
<1>3. Spaced(made, cidr.base + 1, cidr.base + cidr.size - 2, 0, 1)'
        = Spaced(made, cidr.base + 1, cidr.base + cidr.size - 2, 0, 1)
  BY DEF Spaced
<1>4. MadeInv => MadeInv'
  BY <1>1, <1>2, <1>3 DEF MadeInv
<1>5. QED
  BY <1>1, <1>2, <1>4

\* For every subnet with room for pods and every list of addresses to exclude, in whatever
\* order and however often each is in it: the pool is the usable addresses without the
\* excluded ones, provided the last usable address is not excluded, or all are
\* (subnet.go:22-59, ip.go:99-132, util.go:57-109).
THEOREM PoolMadeExact == SubnetSpec => []NewSubnetExact
<1>1. SubnetInit => MadeInv /\ SubnetTypeInv /\ MacInv
  BY InitMade, InitTypes
<1>2. MadeInv /\ SubnetTypeInv /\ MacInv /\ [SubnetNext]_subnetVars
        => MadeInv' /\ SubnetTypeInv' /\ MacInv'
  BY BlockStays, MadeStays, NextKeepsTypes, NextKeepsMacs
<1>3. MadeInv /\ SubnetTypeInv => NewSubnetExact
  BY DEF MadeInv, NewSubnetExact, SubnetTypeInv
<1>4. QED
  BY <1>1, <1>2, <1>3, PTL DEF SubnetSpec

--------------------------------------------------------------------------------
(***************************************************************************)
(* The pool and the maps                                                   *)
(***************************************************************************)

\* How far a free range may end before it starts.
Slack == IF tail THEN 1 ELSE 0

\* The free list is in order.  A subnet without usable addresses keeps the one it has.
PoolShape ==
    /\ cidr.size >= 3 => Spaced(free, cidr.base + 1, cidr.base + cidr.size - 2, Slack, 1)
    /\ cidr.size < 3 => free = made

\* Every pod has the address that is recorded for it; and while none was given a second
\* one, nothing else is recorded.
MapsOk ==
    /\ \A p \in Pod : PodToIP[p] # Nil => IPToPod[PodToIP[p]] = p
    /\ moves = 0 =>
        /\ \A ip \in IPs : IPToPod[ip] # Nil => PodToIP[IPToPod[ip]] = ip
        /\ told = PodToIP

PoolOk ==
    /\ PoolShape
    /\ Members(free) = {ip \in Members(made) : IPToPod[ip] = Nil}
    /\ \A ip \in IPs : IPToPod[ip] # Nil => ip \in Members(made) \cup Members(reserved)
    /\ MapsOk

\* The inductive invariant.  The free list says which addresses are free as long as only
\* such addresses were given away, and only those are while no range ends before it starts.
PoolInv ==
    Exact =>
        /\ phantoms = 0 => PoolOk
        /\ cidr.size >= 3 /\ ~ tail => phantoms = 0

\* An address that no pod has is recorded.
LEMMA RecordIPMaps ==
    ASSUME IPTypes, MapsOk, NEW p \in Pod, NEW ip \in IPs, RecordIP(p, ip), IPToPod[ip] = Nil
    PROVE  MapsOk'
<1>1. /\ PodToIP' = [PodToIP EXCEPT ![p] = ip] /\ IPToPod' = [IPToPod EXCEPT ![ip] = p]
      /\ told' = [told EXCEPT ![p] = ip]
      /\ PodToIP \in [Pod -> IPs \cup {Nil}] /\ IPToPod \in [IPs -> Pod \cup {Nil}]
      /\ told \in [Pod -> IPs \cup {Nil}]
      /\ Nil \notin Pod /\ Nil \notin IPs
  BY SubnetAssumption DEF RecordIP, IPTypes
<1>2. moves' = 0 => moves = 0 /\ PodToIP[p] = Nil
  BY DEF RecordIP, IPTypes
<1>3. ASSUME NEW q \in Pod, PodToIP'[q] # Nil PROVE IPToPod'[PodToIP'[q]] = q
  <2>1. CASE q = p
    BY <1>1, <2>1
  <2>2. CASE q # p
    <3>1. PodToIP'[q] = PodToIP[q] /\ PodToIP[q] \in IPs /\ IPToPod[PodToIP[q]] = q
      BY <1>1, <1>3, <2>2 DEF MapsOk
    <3>2. PodToIP[q] # ip
      BY <1>1, <3>1
    <3>3. QED
      BY <1>1, <3>1, <3>2
  <2>3. QED
    BY <2>1, <2>2
<1>4. ASSUME moves' = 0, NEW x \in IPs, IPToPod'[x] # Nil PROVE PodToIP'[IPToPod'[x]] = x
  <2>1. CASE x = ip
    BY <1>1, <2>1
  <2>2. CASE x # ip
    <3>1. IPToPod'[x] = IPToPod[x] /\ IPToPod[x] \in Pod /\ PodToIP[IPToPod[x]] = x
      BY <1>1, <1>2, <1>4, <2>2 DEF MapsOk
    <3>2. IPToPod[x] # p
      BY <1>1, <1>2, <1>4, <3>1
    <3>3. QED
      BY <1>1, <3>1, <3>2
  <2>3. QED
    BY <2>1, <2>2
<1>5. ASSUME moves' = 0 PROVE told' = PodToIP'
  BY <1>1, <1>2, <1>5 DEF MapsOk
<1>6. QED
  BY <1>3, <1>4, <1>5 DEF MapsOk

\* The free list, changed in order, and the address taken out of it.
LEMMA TakeKeepsPool ==
    ASSUME SubnetTypeInv, PoolOk, Exact, UNCHANGED <<cidr, reserved, made>>,
           NEW p \in Pod, NEW ip \in Members(free), RecordIP(p, ip), cidr.size >= 3,
           Spaced(free', cidr.base + 1, cidr.base + cidr.size - 2, Slack', 1),
           Members(free') = Members(free) \ {ip}
    PROVE  PoolOk'
<1>1. /\ IPTypes /\ ip \in IPs /\ IPToPod \in [IPs -> Pod \cup {Nil}] /\ Nil \notin Pod
      /\ IPToPod' = [IPToPod EXCEPT ![ip] = p]
  BY SubnetAssumption DEF SubnetTypeInv, SubnetTypeOK, IPTypes, Members, RecordIP
<1>2. /\ Members(free) = {x \in Members(made) : IPToPod[x] = Nil}
      /\ \A x \in IPs : IPToPod[x] # Nil => x \in Members(made) \cup Members(reserved)
      /\ MapsOk
  BY DEF PoolOk
<1>3. ip \in Members(made) /\ IPToPod[ip] = Nil /\ Members(made) \subseteq IPs
  BY <1>2 DEF Members
<1>4. MapsOk'
  BY <1>1, <1>2, <1>3, RecordIPMaps
<1>5. PoolShape'
  BY DEF PoolShape, SubnetTypeInv
<1>6. /\ Members(made)' = Members(made) /\ Members(reserved)' = Members(reserved)
      /\ Members(free)' = Members(free')
  BY MadeStays DEF Members
<1>7. Members(free)' = {x \in Members(made)' : IPToPod'[x] = Nil}
  BY <1>1, <1>2, <1>3, <1>6
<1>8. ASSUME NEW x \in IPs, IPToPod'[x] # Nil PROVE x \in Members(made) \cup Members(reserved)
  BY <1>1, <1>2, <1>3, <1>8
<1>9. QED
  BY <1>4, <1>5, <1>6, <1>7, <1>8 DEF PoolOk

\* Where no range ends before it starts, whatever is hit is free and usable.
LEMMA HitIsFree ==
    ASSUME SubnetTypeInv, PoolShape, ~ tail, cidr.size >= 3, NEW ip \in IPs, Hits(free, ip) # {}
    PROVE  ip \in Members(free) \cap Usable
<1> DEFINE F == cidr.base + 1
           L == cidr.base + cidr.size - 2
<1>1. F \in Nat /\ L \in Nat /\ Usable = F .. L
  BY BlockAddresses
<1>2. Spaced(free, F, L, 0, 1) /\ free \in Seq(IPRange) /\ ip \in Nat
  BY TopAssumption DEF PoolShape, Slack, SubnetTypeInv, SubnetTypeOK, IPs
<1> HIDE DEF F, L
<1>3. PICK k \in DOMAIN free : free[k].start = ip \/ InRange(free[k], ip)
  BY DEF Hits
<1>4. free[k].start \in Nat /\ free[k].end \in Nat
  BY <1>2, Fields
<1>5. F <= free[k].start /\ free[k].start <= free[k].end /\ free[k].end <= L
  BY <1>2, <1>4 DEF Spaced
<1>6. InRange(free[k], ip) /\ F <= ip /\ ip <= L
  BY <1>1, <1>2, <1>3, <1>4, <1>5 DEF InRange
<1>7. ip \in Members(free)
  BY <1>6 DEF Members
<1>8. QED
  BY <1>1, <1>2, <1>6, <1>7

\* How an address is taken from the free list, in a subnet with an exact pool: the three
\* things the two operations that do so have in common.
Taken(p, ip) ==
    /\ TakeIP(p, ip) /\ Hits(free, ip) # {} /\ (tail => tail')
    /\ ip \in Members(free) /\ cidr.size >= 3 /\ PoolShape
        => /\ Spaced(free', cidr.base + 1, cidr.base + cidr.size - 2, Slack', 1)
           /\ Members(free') = Members(free) \ {ip}
    /\ UNCHANGED <<cidr, reserved, made>>

LEMMA TakenKeepsPool ==
    ASSUME SubnetTypeInv, PoolInv, NEW p \in Pod, NEW ip \in IPs, Taken(p, ip)
    PROVE  PoolInv'
<1>1. Exact' = Exact /\ cidr' = cidr
  BY MadeStays DEF Taken
<1> SUFFICES ASSUME Exact
             PROVE  /\ phantoms' = 0 => PoolOk'
                    /\ cidr.size >= 3 /\ ~ tail' => phantoms' = 0
  BY <1>1 DEF PoolInv
<1>2. /\ phantoms \in Nat /\ cidr.size \in Nat /\ cidr.base \in Nat
      /\ phantoms' = IF ip \in Members(free) \cap Usable THEN phantoms ELSE phantoms + 1
      /\ RecordIP(p, ip)
  BY SubnetAssumption DEF Taken, TakeIP, SubnetTypeInv, SubnetTypeOK, IPs
<1>3. ASSUME phantoms' = 0 PROVE PoolOk'
  <2>1. phantoms = 0 /\ ip \in Members(free) \cap Usable
    BY <1>2, <1>3
  <2>2. cidr.size >= 3
    BY <1>2, <2>1 DEF Usable
  <2>3. PoolOk
    BY <2>1 DEF PoolInv
  <2>4. PoolShape
    BY <2>3 DEF PoolOk
  <2>5. /\ Spaced(free', cidr.base + 1, cidr.base + cidr.size - 2, Slack', 1)
        /\ Members(free') = Members(free) \ {ip}
        /\ UNCHANGED <<cidr, reserved, made>>
    BY <2>1, <2>2, <2>4 DEF Taken
  <2>6. QED
    BY <1>2, <2>1, <2>2, <2>3, <2>5, TakeKeepsPool
<1>4. ASSUME cidr.size >= 3, ~ tail' PROVE phantoms' = 0
  <2>1. ~ tail /\ Hits(free, ip) # {}
    BY <1>4 DEF Taken
  <2>2. phantoms = 0 /\ PoolShape
    BY <1>4, <2>1 DEF PoolInv, PoolOk
  <2>3. ip \in Members(free) \cap Usable
    BY <1>4, <2>1, <2>2, HitIsFree
  <2>4. QED
    BY <1>2, <2>2, <2>3
<1>5. QED
  BY <1>3, <1>4

\* A step that leaves the free list and the maps alone, but for a repeated answer.
LEMMA SameKeepsPool ==
    ASSUME SubnetTypeInv, PoolInv,
           UNCHANGED <<cidr, reserved, made, free, PodToIP, IPToPod, moves, tail, phantoms>>,
           NEW p \in Pod,
           \/ told' = told
           \/ PodToIP[p] # Nil /\ told' = [told EXCEPT ![p] = PodToIP[p]]
           \/ \E ip \in IPs : IPToPod[ip] = p /\ told' = [told EXCEPT ![p] = ip]
    PROVE  PoolInv'
<1>1. Exact' = Exact /\ Members(made)' = Members(made) /\ Members(reserved)' = Members(reserved)
  BY MadeStays
<1> SUFFICES ASSUME Exact, phantoms = 0, PoolOk PROVE PoolOk'
  BY <1>1 DEF PoolInv
<1>2. Members(free)' = Members(free) /\ PoolShape'
  BY DEF Members, PoolShape, PoolOk, Slack, Spaced
<1>3. MapsOk'
  <2>1. ASSUME moves = 0 PROVE told' = PodToIP
    <3>1. /\ told = PodToIP /\ told \in [Pod -> IPs \cup {Nil}] /\ Nil \notin Pod
          /\ \A ip \in IPs : IPToPod[ip] # Nil => PodToIP[IPToPod[ip]] = ip
      BY <2>1, SubnetAssumption DEF PoolOk, MapsOk, SubnetTypeInv, SubnetTypeOK
    <3>2. told' = told \/ told' = [told EXCEPT ![p] = PodToIP[p]]
      BY <3>1
    <3>3. QED
      BY <3>1, <3>2
  <2>2. QED
    BY <2>1 DEF PoolOk, MapsOk
<1>4. QED
  BY <1>1, <1>2, <1>3 DEF PoolOk

LEMMA RandomAddressKeepsPool ==
    ASSUME SubnetTypeInv, PoolInv, NEW p \in Pod, GetRandomAddress(p)
    PROVE  PoolInv'
<1>1. CASE PodToIP[p] # Nil
  <2>1. /\ told' = [told EXCEPT ![p] = PodToIP[p]]
        /\ UNCHANGED <<cidr, reserved, made, free, PodToIP, IPToPod, moves, tail, phantoms>>
    BY <1>1 DEF GetRandomAddress
  <2>2. QED
    BY <1>1, <2>1, SameKeepsPool
<1>2. CASE PodToIP[p] = Nil
  <2> DEFINE ip == free[1].start
  <2>1. /\ free # <<>> /\ TakeIP(p, ip) /\ free' = FirstTaken(free)
        /\ UNCHANGED <<cidr, reserved, made, tail>> /\ free \in Seq(IPRange)
    BY <1>2 DEF GetRandomAddress, SubnetTypeInv, SubnetTypeOK
  <2>2. 1 \in DOMAIN free
    BY <2>1
  <2>3. ip \in IPs /\ Hits(free, ip) # {}
    <3>1. free[1] \in IPRange
      BY <2>1, <2>2
    <3>2. 1 \in Hits(free, ip)
      BY <2>2 DEF Hits
    <3>3. QED
      BY <3>1, <3>2 DEF IPRange
  <2>4. ASSUME ip \in Members(free), cidr.size >= 3, PoolShape
        PROVE  /\ Spaced(free', cidr.base + 1, cidr.base + cidr.size - 2, Slack', 1)
               /\ Members(free') = Members(free) \ {ip}
    <3> DEFINE F == cidr.base + 1
               L == cidr.base + cidr.size - 2
    <3>1. F \in Nat /\ L \in Nat /\ L + 1 < Top
      BY <2>4, BlockAddresses
    <3>2. Spaced(free, F, L, Slack, 1) /\ Slack \in {0, 1} /\ Slack' = Slack
      BY <2>1, <2>4 DEF PoolShape, Slack
    <3> HIDE DEF F, L
    <3>3. F \in Int /\ L \in Int
      BY <3>1
    <3>4. Spaced(FirstTaken(free), F, L, Slack, 1) /\ Members(FirstTaken(free)) = Members(free) \ {ip}
      BY <2>1, <2>4, <3>1, <3>2, <3>3, FirstTakenSpaced
    <3>5. QED
      BY <2>1, <3>2, <3>4 DEF F, L
  <2> HIDE DEF ip
  <2>5. Taken(p, ip)
    BY <2>1, <2>3, <2>4 DEF Taken
  <2>6. QED
    BY <2>3, <2>5, TakenKeepsPool
<1>3. QED
  BY <1>1, <1>2

LEMMA TakeFreeKeepsPool ==
    ASSUME SubnetTypeInv, PoolInv, NEW p \in Pod, NEW ip \in IPs, TakeFree(p, ip),
           UNCHANGED <<cidr, reserved, made>>
    PROVE  PoolInv'
<1>1. /\ TakeIP(p, ip) /\ free' = SplitIPRangeList(free, ip) /\ Hits(free, ip) # {}
      /\ tail' = (tail \/ CutsTail(free, ip)) /\ free \in Seq(IPRange) /\ tail \in BOOLEAN
  BY DEF TakeFree, SubnetTypeInv, SubnetTypeOK
<1>2. (tail => tail') /\ (CutsTail(free, ip) => tail')
  BY <1>1
<1>3. ASSUME ip \in Members(free), cidr.size >= 3, PoolShape
      PROVE  /\ Spaced(free', cidr.base + 1, cidr.base + cidr.size - 2, Slack', 1)
             /\ Members(free') = Members(free) \ {ip}
  <2> DEFINE F == cidr.base + 1
             L == cidr.base + cidr.size - 2
             d == Slack
             e == Slack'
  <2>1. F \in Nat /\ L \in Nat /\ L + 1 < Top
    BY <1>3, BlockAddresses
  <2>2. Spaced(free, F, L, d, 1)
    BY <1>3 DEF PoolShape
  <2>3. d \in {0, 1} /\ e \in {0, 1} /\ d <= e /\ (CutsTail(free, ip) => e = 1)
    BY <1>2 DEF Slack
  <2> HIDE DEF F, L, d, e
  <2>4. F \in Int /\ L \in Int
    BY <2>1
  <2>5. Spaced(SplitIPRangeList(free, ip), F, L, e, 1)
            /\ Members(SplitIPRangeList(free, ip)) = Members(free) \ {ip}
    BY <1>1, <1>3, <2>1, <2>2, <2>3, <2>4, SplitListSpaced
  <2>6. QED
    BY <1>1, <2>5 DEF F, L, e
<1>4. Taken(p, ip)
  BY <1>1, <1>2, <1>3 DEF Taken
<1>5. QED
  BY <1>4, TakenKeepsPool

LEMMA StaticIPKeepsPool ==
    ASSUME SubnetTypeInv, PoolInv, NEW p \in Pod, NEW ip \in IPs, StaticIP(p, ip),
           UNCHANGED <<cidr, reserved, made>>
    PROVE  PoolInv'
<1>1. CASE UNCHANGED ipVars
  BY <1>1, SameKeepsPool DEF ipVars
<1>2. CASE /\ IPToPod[ip] = p /\ told' = [told EXCEPT ![p] = ip]
           /\ UNCHANGED <<free, PodToIP, IPToPod, moves, tail, phantoms>>
  BY <1>2, SameKeepsPool
<1>3. CASE /\ IPToPod[ip] = Nil /\ ip \in Members(reserved)
           /\ RecordIP(p, ip) /\ UNCHANGED <<free, tail, phantoms>>
  <2>1. Exact' = Exact /\ Members(made)' = Members(made) /\ Members(reserved)' = Members(reserved)
    BY MadeStays
  <2> SUFFICES ASSUME Exact, phantoms = 0, PoolOk PROVE PoolOk'
    BY <1>3, <2>1 DEF PoolInv
  <2>2. Members(free)' = Members(free) /\ PoolShape'
    BY <1>3 DEF Members, PoolShape, PoolOk, Slack, Spaced
  <2>3. IPTypes /\ IPToPod \in [IPs -> Pod \cup {Nil}] /\ IPToPod' = [IPToPod EXCEPT ![ip] = p]
    BY <1>3 DEF SubnetTypeInv, SubnetTypeOK, IPTypes, RecordIP
  <2>4. MapsOk'
    BY <1>3, <2>3, RecordIPMaps DEF PoolOk
  <2>5. ip \notin Members(made) /\ Members(made) \subseteq IPs
    BY <1>3 DEF Exact, Members
  <2>6. Members(free)' = {x \in Members(made)' : IPToPod'[x] = Nil}
    BY <2>1, <2>2, <2>3, <2>5 DEF PoolOk
  <2>7. ASSUME NEW x \in IPs, IPToPod'[x] # Nil PROVE x \in Members(made) \cup Members(reserved)
    BY <1>3, <2>3, <2>7 DEF PoolOk
  <2>8. QED
    BY <2>1, <2>2, <2>4, <2>6, <2>7 DEF PoolOk
<1>4. CASE TakeFree(p, ip)
  BY <1>4, TakeFreeKeepsPool
<1>5. QED
  BY <1>1, <1>2, <1>3, <1>4 DEF StaticIP

\* A pod's address goes back where it came from: into the free list, unless it is reserved.
LEMMA ReleaseKeepsPool ==
    ASSUME SubnetTypeInv, PoolInv, NEW p \in Pod, ReleaseAddress(p)
    PROVE  PoolInv'
<1> DEFINE ip == PodToIP[p]
<1>1. /\ ip \in IPs /\ PodToIP' = [PodToIP EXCEPT ![p] = Nil] /\ IPToPod' = [IPToPod EXCEPT ![ip] = Nil]
      /\ free' = Freed(ip) /\ told' = [told EXCEPT ![p] = Nil]
      /\ UNCHANGED <<cidr, reserved, made, moves, tail, phantoms>>
      /\ PodToIP \in [Pod -> IPs \cup {Nil}] /\ IPToPod \in [IPs -> Pod \cup {Nil}]
      /\ told \in [Pod -> IPs \cup {Nil}] /\ Nil \notin Pod /\ Nil \notin IPs
      /\ free \in Seq(IPRange)
  BY SubnetAssumption DEF ReleaseAddress, SubnetTypeInv, SubnetTypeOK
<1>2. Exact' = Exact /\ Members(made)' = Members(made) /\ Members(reserved)' = Members(reserved)
  BY <1>1, MadeStays
<1> SUFFICES ASSUME Exact, phantoms = 0, PoolOk PROVE PoolOk'
  BY <1>1, <1>2 DEF PoolInv
<1> HIDE DEF ip
<1>3. /\ Members(free) = {x \in Members(made) : IPToPod[x] = Nil}
      /\ \A x \in IPs : IPToPod[x] # Nil => x \in Members(made) \cup Members(reserved)
      /\ MapsOk /\ PoolShape /\ Members(made) = Usable \ Members(reserved)
      /\ Members(made) \subseteq IPs
  BY DEF PoolOk, Exact, Members
<1>4. IPToPod[ip] = p /\ PodToIP[p] = ip
  BY <1>1, <1>3 DEF MapsOk, ip
<1>5. MapsOk'
  <2>1. ASSUME NEW q \in Pod, PodToIP'[q] # Nil PROVE IPToPod'[PodToIP'[q]] = q
    <3>1. q # p /\ PodToIP'[q] = PodToIP[q] /\ PodToIP[q] \in IPs
      BY <1>1, <2>1
    <3>2. IPToPod[PodToIP[q]] = q
      BY <1>1, <1>3, <3>1 DEF MapsOk
    <3>3. PodToIP[q] # ip
      BY <1>4, <3>1, <3>2
    <3>4. QED
      BY <1>1, <3>1, <3>2, <3>3
  <2>2. ASSUME moves = 0, NEW x \in IPs, IPToPod'[x] # Nil PROVE PodToIP'[IPToPod'[x]] = x
    <3>1. x # ip /\ IPToPod'[x] = IPToPod[x] /\ IPToPod[x] \in Pod
      BY <1>1, <2>2
    <3>2. PodToIP[IPToPod[x]] = x
      BY <1>1, <1>3, <2>2, <3>1 DEF MapsOk
    <3>3. IPToPod[x] # p
      BY <1>4, <3>1, <3>2
    <3>4. QED
      BY <1>1, <3>1, <3>2, <3>3
  <2>3. ASSUME moves = 0 PROVE told' = PodToIP'
    BY <1>1, <1>3, <2>3 DEF MapsOk
  <2>4. QED
    BY <1>1, <2>1, <2>2, <2>3 DEF MapsOk
<1>6. \A x \in IPs : IPToPod'[x] # Nil => x \in Members(made)' \cup Members(reserved)'
  BY <1>1, <1>2, <1>3
<1>7. Members(free)' = Members(free') /\ Slack' = Slack
  BY <1>1 DEF Members, Slack
<1>8. CASE ip \in Members(reserved)
  <2>1. free' = free
    BY <1>1, <1>8 DEF Freed
  <2>2. PoolShape'
    BY <1>1, <1>3, <1>7, <2>1 DEF PoolShape, Spaced
  <2>3. Members(free)' = {x \in Members(made)' : IPToPod'[x] = Nil}
    BY <1>1, <1>2, <1>3, <1>7, <1>8, <2>1
  <2>4. QED
    BY <1>5, <1>6, <2>2, <2>3 DEF PoolOk
<1>9. CASE ip \notin Members(reserved)
  <2> DEFINE F == cidr.base + 1
             L == cidr.base + cidr.size - 2
  <2>1. ip \in Members(made) /\ ip \in Usable /\ ip \notin Members(free)
    BY <1>1, <1>3, <1>4, <1>9
  <2>2. cidr.size >= 3 /\ ip \in Block(cidr)
    <3> DEFINE b == cidr.base
               n == cidr.size
    <3>1. b \in Nat /\ n \in Nat /\ ip \in b + 1 .. b + n - 2
      BY <2>1, TopAssumption DEF Usable, SubnetTypeInv, IPs
    <3>2. Block(cidr) = b .. b + n - 1
      BY DEF Block
    <3> HIDE DEF b, n
    <3>3. n >= 3 /\ ip \in b .. b + n - 1
      BY <3>1
    <3>4. QED
      BY <3>2, <3>3 DEF b, n
  <2>3. free' = MergeIPRangeList(free, ip)
    BY <1>1, <1>9, <2>2 DEF Freed
  <2>4. F \in Nat /\ L \in Nat /\ L + 1 < Top /\ Top > 1 /\ Usable = F .. L
    BY <2>2, BlockAddresses
  <2>5. Spaced(free, F, L, Slack, 1) /\ Slack \in {0, 1}
    BY <1>3, <2>2 DEF PoolShape, Slack
  <2> HIDE DEF F, L
  <2>6. F \in Int /\ L \in Int /\ F <= ip /\ ip <= L
    BY <2>1, <2>4
  <2>7. Absent(free, F, L, Slack, ip)
    BY <1>1, <2>1, <2>5, <2>6 DEF Absent
  <2>8. /\ Spaced(free', F, L, Slack, 1)
        /\ Members(free') = Members(free) \cup {ip}
    BY <2>3, <2>4, <2>6, <2>7, MergeSpaced
  <2>9. PoolShape'
    <3>1. Spaced(free', cidr'.base + 1, cidr'.base + cidr'.size - 2, Slack', 1)
      BY <1>1, <1>7, <2>8 DEF F, L
    <3>2. ~ (cidr'.size < 3)
      BY <1>1, <2>2 DEF SubnetTypeInv
    <3>3. QED
      BY <3>1, <3>2 DEF PoolShape
  <2>10. Members(free)' = {x \in Members(made)' : IPToPod'[x] = Nil}
    BY <1>1, <1>2, <1>3, <1>7, <2>1, <2>8
  <2>11. QED
    BY <1>5, <1>6, <2>9, <2>10 DEF PoolOk
<1>10. QED
  BY <1>8, <1>9

LEMMA NextKeepsPool ==
    ASSUME SubnetTypeInv, PoolInv, [SubnetNext]_subnetVars
    PROVE  PoolInv'
<1>1. CASE UNCHANGED subnetVars
  <2>1. UNCHANGED <<cidr, reserved, made, free, PodToIP, IPToPod, moves, tail, phantoms, told>>
    BY <1>1 DEF subnetVars, ipVars
  <2>2. QED
    BY <2>1 DEF PoolInv, PoolOk, PoolShape, MapsOk, Slack, Spaced, Exact, Usable, Members
<1>2. CASE SubnetNext
  <2>1. PICK p \in Pod :
            \/ GetRandomMac(p) /\ UNCHANGED <<cidr, reserved, made, ipVars>>
            \/ \E m \in Mac : GetStaticMac(p, m) /\ UNCHANGED <<cidr, reserved, made, ipVars>>
            \/ GetRandomAddress(p)
            \/ \E ip \in IPs, mac \in Mac \cup {Nil} : GetStaticAddress(p, ip, mac)
            \/ ReleaseAddress(p)
    BY <1>2 DEF SubnetNext
  <2>2. CASE UNCHANGED <<cidr, reserved, made, ipVars>>
    BY <2>2, SameKeepsPool DEF ipVars
  <2>3. CASE \E ip \in IPs, mac \in Mac \cup {Nil} : GetStaticAddress(p, ip, mac)
    <3>1. PICK ip \in IPs, mac \in Mac \cup {Nil} : GetStaticAddress(p, ip, mac)
      BY <2>3
    <3>2. UNCHANGED <<cidr, reserved, made>> /\ StaticIP(p, ip)
      BY <3>1 DEF GetStaticAddress
    <3>3. QED
      BY <3>2, StaticIPKeepsPool
  <2>4. QED
    BY <2>1, <2>2, <2>3, RandomAddressKeepsPool, ReleaseKeepsPool
<1>3. QED
  BY <1>1, <1>2

LEMMA InitPool ==
    ASSUME SubnetInit
    PROVE  PoolInv
<1>1. PICK a \in Args : NewSubnet(a.cidr, a.excludeIps)
  BY DEF SubnetInit
<1>2. /\ free = made /\ phantoms = 0 /\ tail = FALSE
      /\ PodToIP = [p \in Pod |-> Nil] /\ IPToPod = [ip \in IPs |-> Nil] /\ told = [p \in Pod |-> Nil]
  BY <1>1 DEF NewSubnet
<1> SUFFICES ASSUME Exact PROVE PoolOk
  BY <1>2 DEF PoolInv
<1>3. PoolShape
  BY <1>2, InitMade DEF PoolShape, MadeInv, Slack
<1>4. Members(made) \subseteq IPs
  BY DEF Members
<1>5. Members(free) = {ip \in Members(made) : IPToPod[ip] = Nil}
  BY <1>2, <1>4
<1>6. MapsOk
  BY <1>2 DEF MapsOk
<1>7. \A ip \in IPs : IPToPod[ip] = Nil
  BY <1>2
<1>8. QED
  BY <1>3, <1>5, <1>6, <1>7 DEF PoolOk

SubnetInv == SubnetTypeInv /\ MacInv /\ MadeInv /\ PoolInv

LEMMA SubnetInvInductive ==
    /\ SubnetInit => SubnetInv
    /\ SubnetInv /\ [SubnetNext]_subnetVars => SubnetInv'
<1>1. SubnetInit => SubnetInv
  BY InitTypes, InitMade, InitPool DEF SubnetInv
<1>2. SubnetInv /\ [SubnetNext]_subnetVars => SubnetInv'
  BY NextKeepsTypes, NextKeepsMacs, BlockStays, MadeStays, NextKeepsPool DEF SubnetInv
<1>3. QED
  BY <1>1, <1>2

\* For every subnet, set of pods and sequence of calls: through any number of cuts and
\* merges, the free addresses are those of the pool that no pod was given and no two free
\* ranges overlap, as long as the pool was exact and only free addresses were given away
\* (subnet.go:98-103, 148, 179).
THEOREM PoolIsConserved == SubnetSpec => []PoolConserved
<1>1. SubnetInv => PoolConserved
  <2> SUFFICES ASSUME SubnetInv, Exact, phantoms = 0 PROVE PoolConserved
    BY DEF PoolConserved
  <2>1. PoolShape /\ Members(free) = {ip \in Members(made) : IPToPod[ip] = Nil} /\ SubnetTypeInv
    BY DEF SubnetInv, PoolInv, PoolOk
  <2>2. free \in Seq(IPRange) /\ cidr.size \in Nat /\ cidr.base \in Nat
    BY <2>1, TopAssumption DEF SubnetTypeInv, SubnetTypeOK, IPs
  <2>3. ASSUME NEW i \in DOMAIN free, NEW j \in DOMAIN free, i # j,
               NEW ip \in IPs, InRange(free[i], ip), InRange(free[j], ip)
        PROVE  FALSE
    <3>1. /\ free[i].start \in Nat /\ free[i].end \in Nat /\ free[j].start \in Nat /\ free[j].end \in Nat
      BY <2>2, Fields
    <3>2. ip \in Nat /\ i \in Nat /\ j \in Nat
      BY <2>2, TopAssumption DEF IPs
    <3>3. CASE cidr.size >= 3
      <4>1. /\ i < j => free[i].end + 1 < free[j].start
            /\ j < i => free[j].end + 1 < free[i].start
        BY <2>1, <3>3 DEF PoolShape, Spaced
      <4>2. QED
        BY <2>3, <3>1, <3>2, <4>1 DEF InRange
    <3>4. CASE cidr.size < 3
      <4>1. Usable = {}
        BY <2>2, <3>4 DEF Usable
      <4>2. ip \in Members(free)
        BY <2>3 DEF Members
      <4>3. QED
        BY <2>1, <4>1, <4>2 DEF Exact
    <3>5. QED
      BY <2>2, <3>3, <3>4
  <2>4. \A i, j \in DOMAIN free : i # j => RangeMembers(free[i]) \cap RangeMembers(free[j]) = {}
    BY <2>3 DEF RangeMembers
  <2>5. QED
    BY <2>1, <2>4 DEF PoolConserved
<1>2. QED
  BY <1>1, SubnetInvInductive, PTL DEF SubnetSpec

\* For every subnet, set of pods and sequence of calls: no two pods have the same address
\* and the two maps agree on who has which, under the same conditions; and every answer
\* was the address the pod has while no pod was given a second one (subnet.go:84-185).
THEOREM MapsStayAgreed == SubnetSpec => []MapsAgree
<1>1. SubnetInv => MapsAgree
  BY DEF SubnetInv, PoolInv, PoolOk, MapsOk, MapsAgree
<1>2. QED
  BY <1>1, SubnetInvInductive, PTL DEF SubnetSpec

\* For every subnet that started with an exact pool, set of pods and sequence of calls:
\* an address that is not free is given away only after the last address of a longer free
\* range was asked for by name (subnet.go:95-103, util.go:132-136).
THEOREM PhantomsNeedTail == SubnetSpec => []PhantomOnlyByTail
<1>1. SubnetInv => PhantomOnlyByTail
  BY DEF SubnetInv, SubnetTypeInv, SubnetTypeOK, PoolInv, PhantomOnlyByTail
<1>2. QED
  BY <1>1, SubnetInvInductive, PTL DEF SubnetSpec
================================================================================
