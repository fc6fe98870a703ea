---------------------------- MODULE AddrRangeProofs ----------------------------
(***************************************************************************)
(* Facts about ranges and iterators for all addresses and range sets.      *)
(***************************************************************************)
EXTENDS AddrRange, WellFoundedInduction, TLAPS

\* A set of natural numbers that is not empty has a least element.
LEMMA LeastElement ==
    ASSUME NEW T, T \subseteq Nat, T # {}
    PROVE  \E x \in T : \A y \in T : x <= y
<1> DEFINE R == OpToRel(<, Nat)
<1>1. PICK x \in T : \A y \in T : ~ (<<y, x>> \in R)
  BY NatLessThanWellFounded, WFMin
<1>2. ASSUME NEW y \in T PROVE x <= y
  <2>1. <<y, x>> \notin R
    BY <1>1, <1>2
  <2>2. ~ (y < x)
    BY <2>1 DEF OpToRel
  <2>3. QED
    BY <2>2
<1>3. QED
  BY <1>2

\* RangeFor finds the first range that contains the address (range_set.go:32).
LEMMA RangeForFirst ==
    ASSUME NEW rs, DOMAIN rs \subseteq Nat, NEW a, SetContains(rs, a)
    PROVE  /\ RangeFor(rs, a) \in DOMAIN rs
           /\ Contains(rs[RangeFor(rs, a)], a)
<1> DEFINE T == {i \in DOMAIN rs : Contains(rs[i], a)}
<1>1. \E x \in T : \A y \in T : x <= y
  <2>1. T \subseteq Nat /\ T # {}
    BY DEF SetContains
  <2>2. QED
    BY <2>1, LeastElement
<1>2. \E i \in DOMAIN rs : Contains(rs[i], a) /\ \A j \in DOMAIN rs : Contains(rs[j], a) => i <= j
  BY <1>1
<1>3. QED
  BY <1>2 DEF RangeFor

\* Overlaps of two ranges (range.go:133) tells exactly whether they share an address, for
\* ranges that are not empty and lie in their subnets.
THEOREM OverlapExact ==
    ASSUME NEW r, NEW s, WellFormed(r), WellFormed(s),
           r.subnet.size \in Nat, s.subnet.size \in Nat,
           InSubnet(r.subnet, r.start), InSubnet(r.subnet, r.end),
           InSubnet(s.subnet, s.start), InSubnet(s.subnet, s.end),
           Fam(r.subnet.ip) = Fam(r.end), Fam(s.subnet.ip) = Fam(s.end)
    PROVE  RangesOverlap(r, s) <=> Members(r) \cap Members(s) # {}
<1> USE AddrAssumption
<1>1. r.start # Nil /\ r.end # Nil /\ s.start # Nil /\ s.end # Nil
  BY DEF WellFormed
<1>2. Fam(r.start) = Fam(r.end) /\ Fam(s.start) = Fam(s.end)
  BY DEF WellFormed, Fam, InSubnet
<1>3. ASSUME RangesOverlap(r, s) PROVE Members(r) \cap Members(s) # {}
  BY <1>1, <1>3 DEF RangesOverlap, Contains, Members, WellFormed
<1>4. ASSUME NEW a \in Members(r) \cap Members(s) PROVE RangesOverlap(r, s)
  <2>1. a \in Nat /\ a >= r.start /\ a <= r.end /\ a >= s.start /\ a <= s.end
    BY <1>4 DEF Members, WellFormed
  <2>2. Fam(r.start) = Fam(a) /\ Fam(s.start) = Fam(a)
    BY <1>2, <2>1 DEF Fam, WellFormed
  <2>3. CASE s.start >= r.start
    <3>1. Contains(r, s.start)
      BY <1>1, <1>2, <2>1, <2>2, <2>3 DEF Contains, InSubnet, WellFormed
    <3>2. QED
      BY <2>2, <3>1 DEF RangesOverlap
  <2>4. CASE r.start >= s.start
    <3>1. Contains(s, r.start)
      BY <1>1, <1>2, <2>1, <2>2, <2>4 DEF Contains, InSubnet, WellFormed
    <3>2. QED
      BY <2>2, <3>1 DEF RangesOverlap
  <2>5. QED
    BY <2>3, <2>4 DEF WellFormed
<1>5. QED
  BY <1>3, <1>4

\* An address a range set contains is one of its addresses (range_set.go:25).
LEMMA ContainedIsAddress ==
    ASSUME NEW rs, WellFormedSet(rs), NEW a \in Nat \cup {Nil}, SetContains(rs, a)
    PROVE  a \in Addresses(rs)
<1>1. PICK i \in DOMAIN rs : Contains(rs[i], a)
  BY DEF SetContains
<1>2. a \in Members(rs[i])
  BY <1>1, AddrAssumption DEF Contains, WellFormedSet, WellFormed, Members
<1>3. QED
  BY <1>2 DEF Addresses

\* The iterator is in one of the ranges of its set, at an address of that range.
InRangeSet(rs, it) ==
    /\ it \in Iterator
    /\ it.idx \in DOMAIN rs
    /\ it.cur # Nil => it.cur \in Members(rs[it.idx])

\* A new iterator is where it should be (allocator.go:150).
LEMMA GetIterInRange ==
    ASSUME NEW rs, WellFormedSet(rs), NEW last \in Nat \cup {Nil}
    PROVE  InRangeSet(rs, GetIter(rs, last))
<1>1. CASE SetContains(rs, last)
  <2> DEFINE i == RangeFor(rs, last)
  <2>1. i \in DOMAIN rs /\ Contains(rs[i], last)
    BY <1>1, RangeForFirst DEF WellFormedSet
  <2>2. last \in Members(rs[i])
    BY <2>1, AddrAssumption DEF Contains, Members, WellFormedSet, WellFormed
  <2>3. i \in Nat
    BY <2>1 DEF WellFormedSet
  <2> HIDE DEF i
  <2>4. GetIter(rs, last) = [idx |-> i, startRange |-> i, cur |-> last, startIP |-> Nil]
    BY <1>1 DEF GetIter, i
  <2>5. QED
    BY <2>1, <2>2, <2>3, <2>4 DEF InRangeSet, Iterator
<1>2. CASE ~ SetContains(rs, last)
  <2>1. 1 \in DOMAIN rs /\ rs[1].start \in Nat
    BY DEF WellFormedSet, WellFormed
  <2>2. GetIter(rs, last) = [idx |-> 1, startRange |-> 1, cur |-> Nil, startIP |-> rs[1].start]
    BY <1>2 DEF GetIter
  <2>3. QED
    BY <2>1, <2>2 DEF InRangeSet, Iterator
<1>3. QED
  BY <1>1, <1>2

\* Next stays in the ranges of the set, and what it returns is one of their addresses
\* (allocator.go:190).
LEMMA IterStepInRange ==
    ASSUME NEW rs, WellFormedSet(rs), NEW it, InRangeSet(rs, it)
    PROVE  /\ InRangeSet(rs, IterStep(rs, it).iter)
           /\ IterStep(rs, it).iter.cur \in Addresses(rs)
           /\ IterStep(rs, it).out = "ip" =>
                ~ IsGateway(rs[IterStep(rs, it).iter.idx], IterStep(rs, it).iter.cur)
<1> DEFINE idx == NextIdx(rs, it)
           cur == NextCur(rs, it)
           new == [it EXCEPT !.idx = idx, !.cur = cur,
                             !.startIP = IF it.cur = Nil \/ @ = Nil THEN cur ELSE @]
<1>1. idx \in DOMAIN rs
  BY DEF NextIdx, WellFormedSet, InRangeSet, Iterator
<1>2. cur \in Members(rs[idx])
  <2>1. CASE it.cur = Nil \/ AtRangeEnd(rs, it)
    BY <1>1, <2>1 DEF NextCur, WellFormedSet, WellFormed, Members
  <2>2. CASE ~ (it.cur = Nil \/ AtRangeEnd(rs, it))
    <3>1. idx = it.idx /\ cur = it.cur + 1
      BY <2>2 DEF NextIdx, NextCur
    <3>2. it.cur \in Members(rs[it.idx]) /\ it.cur # rs[it.idx].end
      BY <2>2 DEF InRangeSet, AtRangeEnd
    <3>3. WellFormed(rs[it.idx])
      BY DEF WellFormedSet, InRangeSet
    <3> HIDE DEF idx, cur
    <3>4. QED
      BY <3>1, <3>2, <3>3 DEF Members, WellFormed
  <2>3. QED
    BY <2>1, <2>2
<1>3. idx \in Nat /\ cur \in Nat
  BY <1>1, <1>2 DEF WellFormedSet, WellFormed, Members
<1> HIDE DEF idx, cur
<1>4. new \in Iterator /\ new.idx = idx /\ new.cur = cur
  BY <1>3 DEF InRangeSet, Iterator
<1>5. IterStep(rs, it).iter = new
  BY DEF IterStep, idx, cur
<1>6. IterStep(rs, it).out = "ip" => ~ IsGateway(rs[idx], cur)
  BY DEF IterStep, idx, cur
<1> HIDE DEF new
<1>7. QED
  BY <1>1, <1>2, <1>4, <1>5, <1>6 DEF InRangeSet, Addresses
================================================================================
