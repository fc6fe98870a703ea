---------------------------- MODULE AllocatorProofs ----------------------------
(***************************************************************************)
(* Proofs about the allocator package: what LoadIPAMConfig accepts         *)
(* (IpamConfig), and the walk of an iterator over a range set that is      *)
(* accepted (RangeIter).                                                   *)
(***************************************************************************)
EXTENDS IpamConfig, RangeIter, AddrRangeProofs

--------------------------------------------------------------------------------
(***************************************************************************)
(* IpamConfig                                                              *)
(***************************************************************************)

\* A range that Canonicalize has filled in, possibly empty.
Filled(r) ==
    /\ r.subnet.ip \in Nat /\ r.subnet.size \in Nat
    /\ r.start \in Nat /\ r.end \in Nat /\ r.gw \in Nat
    /\ InSubnet(r.subnet, r.start) /\ InSubnet(r.subnet, r.end)
    /\ Fam(r.start) = Fam(r.subnet.ip) /\ Fam(r.end) = Fam(r.subnet.ip)

\* What Canonicalize makes of a range it accepts (range.go:27): start and end lie in the
\* subnet, in order but for the broadcast case.
LEMMA CanonicalFilled ==
    ASSUME NEW r \in RangeInput, RangeAccepted(r)
    PROVE  LET s == CanonicalRange(r) IN
           /\ Filled(s)
           /\ s.start > s.end =>
                /\ Fam(s.start) = 4 /\ s.start = s.subnet.ip + s.subnet.size - 1
                /\ s.end = lastIP(s.subnet)
<1> DEFINE n == r.subnet
           s == CanonicalRange(r)
<1> USE AddrAssumption
<1>1. /\ n.ip \in Nat /\ n.size \in Nat /\ n.size >= 4
      /\ Fam(n.ip) = Fam(n.ip + n.size - 1)
      /\ r.start \in Nat \cup {Nil} /\ r.end \in Nat \cup {Nil} /\ r.gw \in Nat \cup {Nil}
  BY DEF RangeInput, RangeAccepted
<1>2. /\ s.subnet = n /\ s.start = CanonicalStart(r)
      /\ s.end = (IF r.end = Nil THEN lastIP(n) ELSE r.end)
      /\ s.gw = (IF r.gw = Nil THEN n.ip + 1 ELSE r.gw)
  BY DEF CanonicalRange
<1>3. \A a \in Nat : InSubnet(n, a) => Fam(a) = Fam(n.ip)
  BY <1>1 DEF InSubnet, Fam
<1>4. s.start \in Nat /\ InSubnet(n, s.start)
  <2>1. CASE r.start = Nil
    BY <1>1, <1>2, <2>1 DEF CanonicalStart, InSubnet
  <2>2. CASE r.start # Nil
    BY <1>1, <1>2, <2>2 DEF CanonicalStart, RangeAccepted, Contains
  <2>3. QED
    BY <2>1, <2>2
<1>5. CASE r.end = Nil
  <2>1. s.end = lastIP(n) /\ s.end \in Nat /\ InSubnet(n, s.end)
    BY <1>1, <1>2, <1>5 DEF lastIP, InSubnet
  <2>2. s.start > s.end => Fam(n.ip) = 4 /\ s.start = n.ip + n.size - 1
    BY <1>1, <1>4, <2>1 DEF lastIP, InSubnet
  <2>3. s.gw \in Nat
    BY <1>1, <1>2
  <2>4. Fam(s.start) = Fam(n.ip) /\ Fam(s.end) = Fam(n.ip)
    BY <1>3, <1>4, <2>1
  <2>5. QED
    BY <1>1, <1>2, <1>4, <2>1, <2>2, <2>3, <2>4 DEF Filled
<1>6. CASE r.end # Nil
  <2> DEFINE t == [r EXCEPT !.start = CanonicalStart(r)]
  <2>1. t.subnet = n /\ t.start = s.start /\ t.end = r.end
    BY <1>2 DEF RangeInput
  <2>2. Contains(t, r.end)
    BY <1>6 DEF RangeAccepted
  <2>3. s.end = r.end /\ s.end \in Nat
    BY <1>1, <1>2, <1>6
  <2>4. InSubnet(n, s.end) /\ s.end >= s.start
    <3> HIDE DEF t
    <3>1. s.start # Nil
      BY <1>4
    <3>2. QED
      BY <2>1, <2>2, <2>3, <3>1 DEF Contains
  <2>5. s.gw \in Nat
    BY <1>1, <1>2
  <2>6. Fam(s.start) = Fam(n.ip) /\ Fam(s.end) = Fam(n.ip)
    BY <1>3, <1>4, <2>3, <2>4
  <2>7. ~ (s.start > s.end)
    BY <1>4, <2>3, <2>4
  <2>8. QED
    BY <1>1, <1>2, <1>4, <2>3, <2>4, <2>5, <2>6, <2>7 DEF Filled
<1>7. QED
  BY <1>5, <1>6

LEMMA CanonicalFields ==
    ASSUME NEW r \in RangeInput
    PROVE  LET s == CanonicalRange(r) IN
           s.subnet = r.subnet /\ s.start \in Nat /\ s.end \in Int /\ r.subnet.size \in Nat
<1>1. /\ r.subnet.ip \in Nat /\ r.subnet.size \in Nat
      /\ r.start \in Nat \cup {Nil} /\ r.end \in Nat \cup {Nil}
  BY DEF RangeInput
<1>2. lastIP(r.subnet) \in Int
  BY <1>1 DEF lastIP
<1>3. QED
  BY <1>1, <1>2 DEF CanonicalRange, CanonicalStart

\* A range that says what it says in order and inside its subnet is accepted.
LEMMA OrderedAccepted ==
    ASSUME NEW r \in RangeInput,
           r.subnet.size >= 4, r.subnet.ip % r.subnet.size = 0,
           CanonicalRange(r).start <= CanonicalRange(r).end,
           InSubnet(r.subnet, CanonicalRange(r).start),
           InSubnet(r.subnet, CanonicalRange(r).end)
    PROVE  RangeAccepted(r)
<1> DEFINE n == r.subnet
           s == CanonicalRange(r)
           t == [r EXCEPT !.start = CanonicalStart(r)]
<1> USE AddrAssumption
<1>1. /\ n.ip \in Nat /\ n.size \in Nat
      /\ Fam(n.ip) = Fam(n.ip + n.size - 1)
      /\ r.start \in Nat \cup {Nil} /\ r.end \in Nat \cup {Nil}
  BY DEF RangeInput
<1>2. s.start = CanonicalStart(r) /\ s.end = (IF r.end = Nil THEN lastIP(n) ELSE r.end)
  BY DEF CanonicalRange
<1>3. \A a \in Nat : InSubnet(n, a) => Fam(a) = Fam(n.ip)
  BY <1>1 DEF InSubnet, Fam
<1>4. t.subnet = n /\ t.start = CanonicalStart(r) /\ t.end = r.end
  BY DEF RangeInput
<1>5. r.start # Nil => Contains(r, r.start)
  BY <1>1, <1>2, <1>3 DEF CanonicalStart, Contains
<1>6. r.end # Nil => Contains(t, r.end)
  <2> HIDE DEF t, s
  <2>1. QED
    BY <1>1, <1>2, <1>3, <1>4 DEF CanonicalStart, Contains, s
<1>7. QED
  BY <1>5, <1>6 DEF RangeAccepted

\* RangesOverlap does not depend on the order (range.go:132).
LEMMA OverlapSymmetric ==
    ASSUME NEW r, NEW s
    PROVE  RangesOverlap(r, s) <=> RangesOverlap(s, r)
BY DEF RangesOverlap

\* Of two filled ranges, also empty ones: no overlap found, no address in common.
LEMMA NoOverlapDisjoint ==
    ASSUME NEW r, NEW s, Filled(r), Filled(s), ~ RangesOverlap(r, s)
    PROVE  Members(r) \cap Members(s) = {}
<1>1. CASE r.start <= r.end /\ s.start <= s.end
  BY <1>1, OverlapExact DEF Filled, WellFormed
<1>2. CASE ~ (r.start <= r.end)
  BY <1>2 DEF Filled, Members
<1>3. CASE ~ (s.start <= s.end)
  BY <1>3 DEF Filled, Members
<1>4. QED
  BY <1>1, <1>2, <1>3

LEMMA PlacesAre ==
    ASSUME NEW rss, NEW p
    PROVE  p \in Places(rss) <=>
            /\ p = <<p[1], p[2]>>
            /\ p[1] \in DOMAIN rss /\ p[2] \in DOMAIN rss[p[1]]
<1>1. ASSUME p \in Places(rss)
      PROVE  p = <<p[1], p[2]>> /\ p[1] \in DOMAIN rss /\ p[2] \in DOMAIN rss[p[1]]
  <2>1. PICK i \in DOMAIN rss : p \in {i} \X DOMAIN rss[i]
    BY <1>1 DEF Places
  <2>2. QED
    BY <2>1
<1>2. ASSUME p = <<p[1], p[2]>>, p[1] \in DOMAIN rss, p[2] \in DOMAIN rss[p[1]]
      PROVE  p \in Places(rss)
  <2>1. p \in {p[1]} \X DOMAIN rss[p[1]]
    BY <1>2
  <2>2. QED
    BY <1>2, <2>1 DEF Places
<1>3. QED
  BY <1>1, <1>2

LEMMA AllSetsType ==
    ASSUME NEW c \in ConfigInput
    PROVE  AllSets(c) \in Seq(Seq(RangeInput))
<1> DEFINE one == IF c.single = Nil THEN <<>> ELSE << <<c.single>> >>
<1>1. one \in Seq(Seq(RangeInput))
  <2>1. CASE c.single = Nil
    BY <2>1
  <2>2. CASE c.single # Nil
    <3>1. c.single \in RangeInput
      BY <2>2 DEF ConfigInput
    <3>2. <<c.single>> \in Seq(RangeInput)
      BY <3>1
    <3>3. QED
      BY <2>2, <3>2
  <2>3. QED
    BY <2>1, <2>2
<1>2. c.runtime \in Seq(Seq(RangeInput)) /\ c.ranges \in Seq(Seq(RangeInput))
  BY DEF ConfigInput
<1> HIDE DEF one
<1>3. c.runtime \o one \o c.ranges \in Seq(Seq(RangeInput))
  BY <1>1, <1>2
<1>4. QED
  BY <1>3 DEF AllSets, one

\* The sets of a configuration after Canonicalize.
CanonicalSets(rss) == [i \in DOMAIN rss |-> CanonicalSet(rss[i])]

LEMMA CanonicalPlaces ==
    ASSUME NEW rss \in Seq(Seq(RangeInput))
    PROVE  /\ Places(CanonicalSets(rss)) = Places(rss)
           /\ \A p \in Places(rss) :
                /\ p[1] \in DOMAIN rss /\ p[2] \in DOMAIN rss[p[1]]
                /\ p[1] \in Nat /\ p[2] \in Nat
                /\ rss[p[1]][p[2]] \in RangeInput
                /\ CanonicalSets(rss)[p[1]][p[2]] = CanonicalRange(rss[p[1]][p[2]])
<1>1. ASSUME NEW p
      PROVE  p \in Places(CanonicalSets(rss)) <=> p \in Places(rss)
  <2>1. p \in Places(CanonicalSets(rss)) <=>
            /\ p = <<p[1], p[2]>>
            /\ p[1] \in DOMAIN CanonicalSets(rss) /\ p[2] \in DOMAIN CanonicalSets(rss)[p[1]]
    BY PlacesAre
  <2>2. p \in Places(rss) <=>
            /\ p = <<p[1], p[2]>>
            /\ p[1] \in DOMAIN rss /\ p[2] \in DOMAIN rss[p[1]]
    BY PlacesAre
  <2>3. QED
    BY <2>1, <2>2 DEF CanonicalSets, CanonicalSet
<1>2. ASSUME NEW p \in Places(rss)
      PROVE  /\ p[1] \in DOMAIN rss /\ p[2] \in DOMAIN rss[p[1]]
             /\ p[1] \in Nat /\ p[2] \in Nat
             /\ rss[p[1]][p[2]] \in RangeInput
             /\ CanonicalSets(rss)[p[1]][p[2]] = CanonicalRange(rss[p[1]][p[2]])
  <2>1. p[1] \in DOMAIN rss /\ p[2] \in DOMAIN rss[p[1]]
    BY PlacesAre
  <2>2. p[1] \in Nat /\ rss[p[1]] \in Seq(RangeInput)
    BY <2>1
  <2>3. p[2] \in Nat /\ rss[p[1]][p[2]] \in RangeInput
    BY <2>1, <2>2
  <2>4. QED
    BY <2>1, <2>2, <2>3 DEF CanonicalSets, CanonicalSet
<1>3. QED
  BY <1>1, <1>2

\* What is known of the sets of a configuration that is accepted.
LEMMA AcceptedRanges ==
    ASSUME NEW c \in ConfigInput, Accepted(c)
    PROVE  LET css == CanonicalSets(AllSets(c)) IN
           \A p, q \in Places(css) :
                LET r == css[p[1]][p[2]]
                    s == css[q[1]][q[2]]
                IN  /\ Filled(r)
                    /\ r.start > r.end =>
                        /\ Fam(r.start) = 4 /\ r.start = r.subnet.ip + r.subnet.size - 1
                        /\ r.end = lastIP(r.subnet)
                    /\ p # q => Members(r) \cap Members(s) = {}
<1> DEFINE rss == AllSets(c)
           css == CanonicalSets(rss)
           At(p) == css[p[1]][p[2]]
<1>1. rss \in Seq(Seq(RangeInput))
  BY AllSetsType
<1>2. /\ \A i \in DOMAIN rss : SetAccepted(rss[i])
      /\ \A i, j \in DOMAIN rss : i < j => ~ SetsOverlap(css[i], css[j])
  BY DEF Accepted, CanonicalSets
<1> HIDE DEF rss
<1>3. ASSUME NEW p \in Places(rss)
      PROVE  /\ Filled(At(p))
             /\ At(p).start > At(p).end =>
                    /\ Fam(At(p).start) = 4
                    /\ At(p).start = At(p).subnet.ip + At(p).subnet.size - 1
                    /\ At(p).end = lastIP(At(p).subnet)
  <2>1. /\ p[1] \in DOMAIN rss /\ p[2] \in DOMAIN rss[p[1]]
        /\ rss[p[1]][p[2]] \in RangeInput
        /\ At(p) = CanonicalRange(rss[p[1]][p[2]])
    BY <1>1, CanonicalPlaces
  <2>2. RangeAccepted(rss[p[1]][p[2]])
    BY <1>2, <2>1 DEF SetAccepted
  <2>3. QED
    BY <2>1, <2>2, CanonicalFilled
<1>4. ASSUME NEW p \in Places(rss), NEW q \in Places(rss),
             p[1] < q[1] \/ (p[1] = q[1] /\ p[2] < q[2])
      PROVE  ~ RangesOverlap(At(p), At(q))
  <2>1. /\ p[1] \in DOMAIN rss /\ p[2] \in DOMAIN rss[p[1]]
        /\ q[1] \in DOMAIN rss /\ q[2] \in DOMAIN rss[q[1]]
    BY <1>1, CanonicalPlaces
  <2>2. CASE p[1] < q[1]
    <3>1. ~ SetsOverlap(css[p[1]], css[q[1]])
      BY <1>2, <2>1, <2>2
    <3>2. p[2] \in DOMAIN css[p[1]] /\ q[2] \in DOMAIN css[q[1]]
      BY <2>1 DEF CanonicalSets, CanonicalSet
    <3>3. QED
      BY <3>1, <3>2 DEF SetsOverlap
  <2>3. CASE p[1] = q[1] /\ p[2] < q[2]
    <3>1. SetAccepted(rss[p[1]]) /\ css[p[1]] = CanonicalSet(rss[p[1]])
      BY <1>2, <2>1 DEF CanonicalSets
    <3>2. QED
      BY <2>1, <2>3, <3>1 DEF SetAccepted
  <2>4. QED
    BY <1>4, <2>2, <2>3
<1>5. ASSUME NEW p \in Places(rss), NEW q \in Places(rss), p # q
      PROVE  Members(At(p)) \cap Members(At(q)) = {}
  <2>1. Filled(At(p)) /\ Filled(At(q))
    BY <1>3
  <2>2. /\ p[1] \in Nat /\ p[2] \in Nat /\ q[1] \in Nat /\ q[2] \in Nat
    BY <1>1, CanonicalPlaces
  <2>3. p = <<p[1], p[2]>> /\ q = <<q[1], q[2]>>
    BY PlacesAre
  <2>4. \/ p[1] < q[1] \/ (p[1] = q[1] /\ p[2] < q[2])
        \/ q[1] < p[1] \/ (q[1] = p[1] /\ q[2] < p[2])
    <3>1. p[1] # q[1] \/ p[2] # q[2]
      BY <1>5, <2>3
    <3>2. QED
      BY <2>2, <3>1
  <2> HIDE DEF At
  <2>5. ~ RangesOverlap(At(p), At(q))
    BY <1>4, <2>4, OverlapSymmetric
  <2>6. QED
    BY <2>1, <2>5, NoOverlapDisjoint
<1>6. Places(css) = Places(rss)
  BY <1>1, CanonicalPlaces
<1>7. \A p, q \in Places(css) :
        /\ Filled(At(p))
        /\ At(p).start > At(p).end =>
                    /\ Fam(At(p).start) = 4
                    /\ At(p).start = At(p).subnet.ip + At(p).subnet.size - 1
                    /\ At(p).end = lastIP(At(p).subnet)
        /\ p # q => Members(At(p)) \cap Members(At(q)) = {}
  BY <1>3, <1>5, <1>6
<1>8. QED
  BY <1>7 DEF rss

\* Where a configuration comes from: it is as it was given, or what Canonicalize has
\* made of one that is accepted.
ConfigInv ==
    /\ status \in {"given", "ok", "error"}
    /\ status = "given" => conf \in Configs
    /\ status = "error" => conf \in Configs /\ ~ Accepted(conf)
    /\ status = "ok" =>
        \E c \in Configs : Accepted(c) /\ conf.ranges = CanonicalSets(AllSets(c))

LEMMA ConfigInvariant == ConfigSpec => []ConfigInv
<1>1. ConfigInit => ConfigInv
  BY DEF ConfigInit, ConfigInv
<1>2. ConfigInv /\ [ConfigNext]_cfgVars => ConfigInv'
  <2> SUFFICES ASSUME ConfigInv, [ConfigNext]_cfgVars PROVE ConfigInv'
    OBVIOUS
  <2>1. CASE LoadOk
    <3>1. conf \in ConfigInput /\ conf \in Configs /\ Accepted(conf) /\ status' = "ok"
      BY <2>1, ConfigAssumption DEF LoadOk, ConfigInv
    <3>2. conf'.ranges = CanonicalSets(AllSets(conf))
      BY <2>1, <3>1 DEF LoadOk, ConfigInput, CanonicalSets
    <3>3. QED
      BY <3>1, <3>2 DEF ConfigInv
  <2>2. CASE LoadError
    BY <2>2 DEF LoadError, ConfigInv
  <2>3. CASE UNCHANGED cfgVars
    BY <2>3 DEF cfgVars, ConfigInv
  <2>4. QED
    BY <2>1, <2>2, <2>3 DEF ConfigNext
<1>3. QED
  BY <1>1, <1>2, PTL DEF ConfigSpec

\* For every set of configurations a caller may pass: an accepted one gives every address
\* to one range of one range set at most, inside its subnet (config.go:95-150).
THEOREM LoadedUnambiguous == ConfigSpec => []AddressesUnambiguous
<1>1. ConfigInv => AddressesUnambiguous
  <2> SUFFICES ASSUME ConfigInv, status = "ok", NEW p \in Places(conf.ranges),
                      NEW q \in Places(conf.ranges)
               PROVE  LET r == conf.ranges[p[1]][p[2]]
                          s == conf.ranges[q[1]][q[2]]
                      IN  /\ p # q => Members(r) \cap Members(s) = {}
                          /\ \A a \in Members(r) : InSubnet(r.subnet, a)
    BY DEF AddressesUnambiguous
  <2> DEFINE r == conf.ranges[p[1]][p[2]]
             s == conf.ranges[q[1]][q[2]]
  <2>1. PICK c \in Configs : Accepted(c) /\ conf.ranges = CanonicalSets(AllSets(c))
    BY DEF ConfigInv
  <2>2. Filled(r) /\ (p # q => Members(r) \cap Members(s) = {})
    BY <2>1, ConfigAssumption, AcceptedRanges
  <2>3. \A a \in Members(r) : InSubnet(r.subnet, a)
    <3> HIDE DEF r
    <3> QED
      BY <2>2 DEF Filled, Members, InSubnet
  <2>4. QED
    BY <2>2, <2>3
<1>2. QED
  BY <1>1, ConfigInvariant, PTL

\* The only empty range Canonicalize lets through starts at the IPv4 broadcast address of
\* its subnet and leaves its end out (range.go:67, 85).
THEOREM LoadedNonEmpty == ConfigSpec => []EmptyOnlyAtBroadcast
<1>1. ConfigInv => EmptyOnlyAtBroadcast
  <2> SUFFICES ASSUME ConfigInv, status = "ok", NEW p \in Places(conf.ranges)
               PROVE  LET r == conf.ranges[p[1]][p[2]]
                      IN  r.start > r.end =>
                            Fam(r.start) = 4 /\ r.start = r.subnet.ip + r.subnet.size - 1
                            /\ r.end = lastIP(r.subnet)
    BY DEF EmptyOnlyAtBroadcast
  <2>1. PICK c \in Configs : Accepted(c) /\ conf.ranges = CanonicalSets(AllSets(c))
    BY DEF ConfigInv
  <2>2. QED
    BY <2>1, ConfigAssumption, AcceptedRanges
<1>2. QED
  BY <1>1, ConfigInvariant, PTL

\* A filled range that is not empty overlaps another one only if they share an address.
LEMMA DisjointNoOverlap ==
    ASSUME NEW r, NEW s, Filled(r), Filled(s), r.start <= r.end, s.start <= s.end,
           Members(r) \cap Members(s) = {}
    PROVE  ~ RangesOverlap(r, s)
BY OverlapExact DEF Filled, WellFormed

\* Why a configuration can be rejected at all, as NothingElseRejected lists it.
Reason(rss) ==
    LET css == CanonicalSets(rss) IN
    \/ \E i \in DOMAIN rss : rss[i] = <<>>
    \/ \E p \in Places(rss) :
        LET r == rss[p[1]][p[2]]
            s == css[p[1]][p[2]]
        IN  \/ r.subnet.size < 4 \/ r.subnet.ip % r.subnet.size # 0
            \/ s.start > s.end
            \/ ~ InSubnet(s.subnet, s.start) \/ ~ InSubnet(s.subnet, s.end)
    \/ \E p, q \in Places(rss) :
        LET r == css[p[1]][p[2]]
            s == css[q[1]][q[2]]
        IN  \/ p # q /\ Members(r) \cap Members(s) # {}
            \/ p[1] = q[1] /\ Fam(r.start) # Fam(s.start)

LEMMA NoReasonAccepted ==
    ASSUME NEW c \in ConfigInput, ~ c.old, AllSets(c) # <<>>, c.args = <<>>,
           ~ Reason(AllSets(c))
    PROVE  Accepted(c)
<1> DEFINE rss == AllSets(c)
           css == CanonicalSets(rss)
           In(p) == rss[p[1]][p[2]]
           At(p) == css[p[1]][p[2]]
<1> USE AddrAssumption
<1>1. rss \in Seq(Seq(RangeInput))
  BY AllSetsType
<1>2. \A i \in DOMAIN rss : rss[i] # <<>>
  BY DEF Reason
<1>3. \A p \in Places(rss) :
        /\ ~ (In(p).subnet.size < 4) /\ In(p).subnet.ip % In(p).subnet.size = 0
        /\ ~ (At(p).start > At(p).end)
        /\ InSubnet(At(p).subnet, At(p).start) /\ InSubnet(At(p).subnet, At(p).end)
  BY DEF Reason
<1>4. \A p, q \in Places(rss) :
        /\ p # q => Members(At(p)) \cap Members(At(q)) = {}
        /\ p[1] = q[1] => Fam(At(p).start) = Fam(At(q).start)
  BY DEF Reason
<1> HIDE DEF rss
<1>5. ASSUME NEW p \in Places(rss)
      PROVE  RangeAccepted(In(p)) /\ Filled(At(p)) /\ At(p).start <= At(p).end
  <2>1. In(p) \in RangeInput /\ At(p) = CanonicalRange(In(p))
    BY <1>1, CanonicalPlaces
  <2>2. /\ At(p).start \in Nat /\ At(p).end \in Int /\ At(p).subnet = In(p).subnet
        /\ In(p).subnet.size \in Nat
    BY <2>1, CanonicalFields
  <2>3. /\ In(p).subnet.size >= 4 /\ In(p).subnet.ip % In(p).subnet.size = 0
        /\ At(p).start <= At(p).end
        /\ InSubnet(In(p).subnet, At(p).start) /\ InSubnet(In(p).subnet, At(p).end)
    BY <1>3, <2>2
  <2> HIDE DEF At, In
  <2>4. RangeAccepted(In(p))
    BY <2>1, <2>3, OrderedAccepted
  <2>5. QED
    BY <2>1, <2>3, <2>4, CanonicalFilled
<1>6. ASSUME NEW p \in Places(rss), NEW q \in Places(rss), p # q
      PROVE  ~ RangesOverlap(At(p), At(q))
  <2> HIDE DEF At
  <2>1. QED
    BY <1>4, <1>5, <1>6, DisjointNoOverlap
<1>7. ASSUME NEW i \in DOMAIN rss, NEW k \in DOMAIN rss[i]
      PROVE  <<i, k>> \in Places(rss) /\ In(<<i, k>>) = rss[i][k] /\ At(<<i, k>>) = css[i][k]
  <2>1. <<i, k>> \in Places(rss)
    BY PlacesAre
  <2>2. QED
    BY <2>1
<1>8. ASSUME NEW i \in DOMAIN rss PROVE SetAccepted(rss[i])
  <2>1. css[i] = CanonicalSet(rss[i])
    BY DEF CanonicalSets
  <2>2. rss[i] \in Seq(RangeInput) /\ rss[i] # <<>>
    BY <1>1, <1>2
  <2>3. 1 \in DOMAIN rss[i]
    BY <2>2
  <2>4. ASSUME NEW j \in DOMAIN rss[i]
        PROVE  RangeAccepted(rss[i][j]) /\ Fam(css[i][j].start) = Fam(css[i][1].start)
    <3>1. <<i, j>> \in Places(rss) /\ <<i, 1>> \in Places(rss)
      BY <1>7, <2>3
    <3>2. QED
      BY <1>4, <1>5, <3>1
  <2>5. ASSUME NEW j \in DOMAIN rss[i], NEW k \in DOMAIN rss[i], j < k
        PROVE  ~ RangesOverlap(css[i][j], css[i][k])
    <3>1. <<i, j>> \in Places(rss) /\ <<i, k>> \in Places(rss)
      BY <1>7
    <3>2. <<i, j>> # <<i, k>>
      <4>1. j \in Nat /\ k \in Nat
        BY <2>2
      <4>2. QED
        BY <2>5, <4>1
    <3>3. ~ RangesOverlap(At(<<i, j>>), At(<<i, k>>))
      BY <1>6, <3>1, <3>2
    <3>4. QED
      BY <3>3
  <2>6. QED
    BY <2>1, <2>2, <2>4, <2>5 DEF SetAccepted
<1>9. ASSUME NEW i \in DOMAIN rss, NEW j \in DOMAIN rss, i < j
      PROVE  ~ SetsOverlap(css[i], css[j])
  <2> SUFFICES ASSUME NEW k \in DOMAIN css[i], NEW l \in DOMAIN css[j]
               PROVE  ~ RangesOverlap(css[i][k], css[j][l])
    BY DEF SetsOverlap
  <2>1. k \in DOMAIN rss[i] /\ l \in DOMAIN rss[j]
    BY DEF CanonicalSets, CanonicalSet
  <2>2. <<i, k>> \in Places(rss) /\ <<j, l>> \in Places(rss)
    BY <1>7, <2>1
  <2>3. <<i, k>> # <<j, l>>
    <3>1. i \in Nat /\ j \in Nat
      BY <1>1
    <3>2. QED
      BY <1>9, <3>1
  <2>4. ~ RangesOverlap(At(<<i, k>>), At(<<j, l>>))
    BY <1>6, <2>2, <2>3
  <2>5. QED
    BY <2>4
<1>10. QED
  <2>1. css = [i \in DOMAIN AllSets(c) |-> CanonicalSet(AllSets(c)[i])]
    BY DEF CanonicalSets, rss
  <2>2. \A i \in DOMAIN c.args : c.args[i] # Nil
    OBVIOUS
  <2>3. AllSets(c) = rss
    BY DEF rss
  <2> HIDE DEF css
  <2>4. QED
    BY <1>8, <1>9, <2>1, <2>2, <2>3 DEF Accepted

\* For every configuration of the supported version: it loads unless one of the listed
\* reasons holds, so that overlap detection and Canonicalize reject no good one.
THEOREM RejectedForReason == ConfigSpec => []NothingElseRejected
<1>1. ConfigInv => NothingElseRejected
  <2> SUFFICES ASSUME ConfigInv, status = "error", ~ conf.old, AllSets(conf) # <<>>,
                      conf.args = <<>>
               PROVE  Reason(AllSets(conf))
    BY DEF NothingElseRejected, Reason, CanonicalSets
  <2>1. conf \in ConfigInput /\ ~ Accepted(conf)
    BY ConfigAssumption DEF ConfigInv
  <2>2. QED
    BY <2>1, NoReasonAccepted
<1>2. QED
  BY <1>1, ConfigInvariant, PTL

--------------------------------------------------------------------------------
(***************************************************************************)
(* RangeIter                                                               *)
(***************************************************************************)

LEMMA GoodSet ==
    ASSUME NEW s \in RangeSets
    PROVE  /\ WellFormedSet(s)
           /\ \A i \in DOMAIN s : i \in Nat /\ 1 <= i /\ i <= Len(s)
           /\ \A i \in DOMAIN s : \A a \in Members(s[i]) : a \in Nat /\ a \in Addresses(s)
           /\ \A i \in DOMAIN s : \A a \in Nat : Contains(s[i], a) <=> a \in Members(s[i])
           /\ \A i, j \in DOMAIN s : \A a \in Members(s[i]) : a \in Members(s[j]) => i = j
<1>1. /\ WellFormedSet(s)
      /\ \A i \in DOMAIN s : \A a \in Members(s[i]) : Contains(s[i], a)
      /\ \A i, j \in DOMAIN s : i # j => Members(s[i]) \cap Members(s[j]) = {}
  BY RangeSetsAssumption
<1>2. \A i \in DOMAIN s : WellFormed(s[i])
  BY <1>1 DEF WellFormedSet
<1>3. \A i \in DOMAIN s : i \in Nat /\ 1 <= i /\ i <= Len(s)
  BY <1>1 DEF WellFormedSet
<1>4. \A i \in DOMAIN s : \A a \in Members(s[i]) : a \in Nat /\ a \in Addresses(s)
  BY <1>2 DEF WellFormed, Members, Addresses
<1>5. ASSUME NEW i \in DOMAIN s, NEW a \in Nat, Contains(s[i], a) PROVE a \in Members(s[i])
  <2>1. s[i].start \in Nat /\ s[i].end \in Nat
    BY <1>2 DEF WellFormed
  <2>2. s[i].start # Nil /\ s[i].end # Nil
    BY <2>1, AddrAssumption
  <2>3. QED
    BY <1>5, <2>1, <2>2 DEF Contains, Members
<1>6. \A i \in DOMAIN s : \A a \in Nat : Contains(s[i], a) <=> a \in Members(s[i])
  BY <1>1, <1>5
<1>7. \A i, j \in DOMAIN s : \A a \in Members(s[i]) : a \in Members(s[j]) => i = j
  BY <1>1
<1>8. QED
  BY <1>1, <1>3, <1>4, <1>6, <1>7

\* SetContains, RangeFor and Allocatable in terms of the addresses of the ranges.
LEMMA GoodSetLookup ==
    ASSUME NEW s \in RangeSets
    PROVE  /\ ~ SetContains(s, Nil)
           /\ \A a \in Nat : SetContains(s, a) <=> a \in Addresses(s)
           /\ \A i \in DOMAIN s : \A a \in Members(s[i]) : SetContains(s, a) /\ RangeFor(s, a) = i
           /\ \A i \in DOMAIN s : \A a \in Members(s[i]) : a \in Allocatable(s) <=> a # s[i].gw
<1>1. ~ SetContains(s, Nil)
  BY DEF SetContains, Contains
<1>2. \A a \in Nat : SetContains(s, a) <=> a \in Addresses(s)
  BY GoodSet DEF SetContains, Addresses
<1>3. ASSUME NEW i \in DOMAIN s, NEW a \in Members(s[i])
      PROVE  SetContains(s, a) /\ RangeFor(s, a) = i
  <2>1. SetContains(s, a) /\ a \in Nat
    BY <1>2, GoodSet
  <2>2. RangeFor(s, a) \in DOMAIN s /\ Contains(s[RangeFor(s, a)], a)
    BY <2>1, RangeForFirst, GoodSet
  <2>3. a \in Members(s[RangeFor(s, a)])
    BY <2>1, <2>2, GoodSet
  <2>4. QED
    BY <2>1, <2>2, <2>3, GoodSet
<1>4. ASSUME NEW i \in DOMAIN s, NEW a \in Members(s[i])
      PROVE  a \in Allocatable(s) <=> a # s[i].gw
  <2>1. a \in Addresses(s) /\ a \in Nat
    BY GoodSet
  <2>2. \A j \in DOMAIN s : Contains(s[j], a) <=> j = i
    BY <2>1, GoodSet
  <2>3. QED
    BY <2>1, <2>2 DEF Allocatable
<1>5. QED
  BY <1>1, <1>2, <1>3, <1>4

\* A place (i, a) is the address a of the i-th range.  Next walks the places in this
\* order and goes from the last of them to the first.
Before(i, a, j, b) == i < j \/ (i = j /\ a < b)

UpTo(i, a, j, b) == i < j \/ (i = j /\ a <= b)

\* (j, b) is met on the way from (i, a), the start included, to (k, c).
OnWalk(i, a, k, c, j, b) ==
    IF UpTo(i, a, k, c) THEN UpTo(i, a, j, b) /\ UpTo(j, b, k, c)
                        ELSE UpTo(i, a, j, b) \/ UpTo(j, b, k, c)

\* The same, the start excluded; nothing is met from a place to itself.
AfterOn(i, a, k, c, j, b) ==
    IF UpTo(i, a, k, c) THEN Before(i, a, j, b) /\ UpTo(j, b, k, c)
                        ELSE Before(i, a, j, b) \/ UpTo(j, b, k, c)

\* Next moves to the following place, leaving none out, or from the last to the first.
NextPlace(s, i, a, k, c) ==
    \/ /\ Before(i, a, k, c)
       /\ \A j \in DOMAIN s : \A b \in Members(s[j]) : UpTo(j, b, i, a) \/ UpTo(k, c, j, b)
    \/ /\ UpTo(k, c, i, a)
       /\ \A j \in DOMAIN s : \A b \in Members(s[j]) : UpTo(k, c, j, b) /\ UpTo(j, b, i, a)

LEMMA NextMoves ==
    ASSUME NEW s \in RangeSets, NEW it, InRangeSet(s, it), it.cur # Nil
    PROVE  /\ NextIdx(s, it) \in DOMAIN s
           /\ NextCur(s, it) \in Members(s[NextIdx(s, it)])
           /\ NextPlace(s, it.idx, it.cur, NextIdx(s, it), NextCur(s, it))
<1> DEFINE n == Len(s)
           k == NextIdx(s, it)
           c == NextCur(s, it)
<1>1. /\ n \in Nat \ {0} /\ DOMAIN s = 1 .. n
      /\ it.idx \in DOMAIN s /\ it.cur \in Members(s[it.idx])
      /\ \A j \in DOMAIN s : s[j].start \in Nat /\ s[j].end \in Nat /\ s[j].start <= s[j].end
  BY GoodSet DEF InRangeSet, WellFormedSet, WellFormed
<1>2. CASE it.cur # s[it.idx].end
  <2>1. k = it.idx /\ c = it.cur + 1
    BY <1>2 DEF NextIdx, NextCur, AtRangeEnd
  <2> HIDE DEF k, c
  <2>2. c \in Members(s[k])
    BY <1>1, <1>2, <2>1 DEF Members
  <2>3. Before(it.idx, it.cur, k, c)
    BY <1>1, <2>1 DEF Before, Members
  <2>4. ASSUME NEW j \in DOMAIN s, NEW b \in Members(s[j])
        PROVE  UpTo(j, b, it.idx, it.cur) \/ UpTo(k, c, j, b)
    <3>1. j \in Int /\ b \in Int /\ it.idx \in Int /\ it.cur \in Int
      BY <1>1 DEF Members
    <3>2. QED
      BY <2>1, <3>1 DEF UpTo
  <2>5. QED
    BY <1>1, <2>1, <2>2, <2>3, <2>4 DEF NextPlace, k, c
<1>3. CASE it.cur = s[it.idx].end /\ it.idx < n
  <2>1. it.idx % n = it.idx
    BY <1>1, <1>3
  <2>2. k = it.idx + 1 /\ c = s[k].start
    BY <1>1, <1>3, <2>1 DEF NextIdx, NextCur, AtRangeEnd
  <2> HIDE DEF k, c
  <2>3. k \in DOMAIN s /\ c \in Members(s[k])
    BY <1>1, <1>3, <2>2 DEF Members
  <2>4. Before(it.idx, it.cur, k, c)
    BY <1>1, <2>2 DEF Before
  <2>5. ASSUME NEW j \in DOMAIN s, NEW b \in Members(s[j])
        PROVE  UpTo(j, b, it.idx, it.cur) \/ UpTo(k, c, j, b)
    <3>1. /\ j \in Int /\ b \in Int /\ it.idx \in Int
          /\ s[j].start <= b /\ b <= s[j].end /\ s[j].start \in Int /\ s[j].end \in Int
      BY <1>1 DEF Members
    <3>2. CASE j <= it.idx
      BY <1>3, <3>1, <3>2 DEF UpTo
    <3>3. CASE j > it.idx
      BY <2>2, <3>1, <3>3 DEF UpTo
    <3>4. QED
      BY <3>1, <3>2, <3>3
  <2>6. QED
    BY <2>3, <2>4, <2>5 DEF NextPlace, k, c
<1>4. CASE it.cur = s[it.idx].end /\ it.idx = n
  <2>1. it.idx % n = 0
    BY <1>1, <1>4
  <2>2. k = 1 /\ c = s[1].start
    BY <1>1, <1>4, <2>1 DEF NextIdx, NextCur, AtRangeEnd
  <2> HIDE DEF k, c
  <2>3. k \in DOMAIN s /\ c \in Members(s[k])
    BY <1>1, <2>2 DEF Members
  <2>4. ASSUME NEW j \in DOMAIN s, NEW b \in Members(s[j])
        PROVE  UpTo(k, c, j, b) /\ UpTo(j, b, it.idx, it.cur)
    <3>1. /\ j \in Int /\ b \in Int /\ 1 <= j /\ j <= n /\ n \in Int
          /\ s[j].start <= b /\ b <= s[j].end /\ s[j].start \in Int /\ s[j].end \in Int
      BY <1>1 DEF Members
    <3>2. QED
      BY <1>4, <2>2, <3>1 DEF UpTo
  <2>5. UpTo(k, c, it.idx, it.cur)
    BY <1>1, <2>4
  <2>6. QED
    BY <2>3, <2>4, <2>5 DEF NextPlace, k, c
<1>5. QED
  BY <1>1, <1>2, <1>3, <1>4

\* One more place on the walk, unless it is back at its start.
LEMMA WalkGrows ==
    ASSUME NEW s, NEW i \in DOMAIN s, NEW a \in Members(s[i]),
           NEW j \in DOMAIN s, NEW b \in Members(s[j]), NEW k, NEW c, NEW l, NEW d,
           {i, j, k, l, a, b, c, d} \subseteq Int,
           NextPlace(s, k, c, l, d), i # l \/ a # d
    PROVE  OnWalk(i, a, l, d, j, b) <=> OnWalk(i, a, k, c, j, b) \/ (j = l /\ b = d)
BY DEF NextPlace, OnWalk, UpTo, Before

LEMMA AfterGrows ==
    ASSUME NEW s, NEW i \in DOMAIN s, NEW a \in Members(s[i]),
           NEW j \in DOMAIN s, NEW b \in Members(s[j]), NEW k, NEW c, NEW l, NEW d,
           {i, j, k, l, a, b, c, d} \subseteq Int,
           NextPlace(s, k, c, l, d), AfterOn(i, a, l, d, j, b)
    PROVE  AfterOn(i, a, k, c, j, b) \/ (j = l /\ b = d)
BY DEF NextPlace, AfterOn, UpTo, Before

\* On the way from a place to the one before it every other place is met.
LEMMA AfterAll ==
    ASSUME NEW s, NEW j \in DOMAIN s, NEW b \in Members(s[j]), NEW k, NEW c, NEW l, NEW d,
           {j, k, l, b, c, d} \subseteq Int,
           NextPlace(s, k, c, l, d), j # l \/ b # d
    PROVE  AfterOn(l, d, k, c, j, b)
BY DEF NextPlace, AfterOn, UpTo, Before

\* A walk whose next place is its start has met every place.
LEMMA WalkAll ==
    ASSUME NEW s, NEW j \in DOMAIN s, NEW b \in Members(s[j]), NEW k, NEW c, NEW l, NEW d,
           {j, k, l, b, c, d} \subseteq Int,
           NextPlace(s, k, c, l, d)
    PROVE  OnWalk(l, d, k, c, j, b)
BY DEF NextPlace, OnWalk, UpTo, Before

\* An iterator whose Next has not been called.
Fresh(it) == it.cur = Nil \/ it.startIP = Nil

\* The place where iterating started is one Next can come back to.
Closes(it) == it.startIP \in Members(rs[it.startRange])

IterTypeInv ==
    /\ rs \in RangeSets
    /\ taken \subseteq Addresses(rs)
    /\ last \in Nat \cup {Nil}
    /\ iter # Nil => InRangeSet(rs, iter)
    /\ since \in [Addresses(rs) -> SUBSET Addresses(rs)]
    /\ moved \in BOOLEAN

\* How the iterator and what it has offered belong together: when the walk closes, what
\* was offered is what lies between its start and the cursor and is no gateway.
WalkOf(it, off) ==
    /\ it.startRange \in DOMAIN rs
    /\ it.cur = Nil => it.idx = 1 /\ it.startRange = 1 /\ it.startIP = rs[1].start
    /\ it.startIP = Nil => it.idx = it.startRange
    /\ it.startIP # Nil => Closes(it) \/ Len(rs) > 1
    /\ Fresh(it) => off = {}
    /\ ~ Fresh(it) /\ Closes(it) =>
        \A j \in DOMAIN rs : \A b \in Members(rs[j]) :
            b \in off <=> /\ b # rs[j].gw
                          /\ OnWalk(it.startRange, it.startIP, it.idx, it.cur, j, b)

\* Besides, all that was offered was reserved, and counts as offered for every address.
WalkInv ==
    iter # Nil =>
        /\ WalkOf(iter, offered)
        /\ iter.cur = Nil => ~ SetContains(rs, last)
        /\ offered \subseteq taken /\ offered \subseteq Allocatable(rs)
        /\ \A a \in Addresses(rs) : offered \subseteq since[a]

\* Where the hand of the clock is: the cursor, between two calls the last reserved address.
HandIdx == IF iter = Nil THEN RangeFor(rs, last) ELSE iter.idx

HandIP == IF iter = Nil THEN last ELSE iter.cur

\* As long as no request moves the hand, everything between an address and the hand has
\* been offered since that address was reserved.
HandInv ==
    ~ moved =>
        /\ ~ SetContains(rs, last) => \A a \in Addresses(rs) : Addresses(rs) \subseteq since[a]
        /\ SetContains(rs, last) =>
            \A i, j \in DOMAIN rs : \A a \in Members(rs[i]), b \in Members(rs[j]) :
                b # rs[j].gw /\ AfterOn(i, a, HandIdx, HandIP, j, b) => b \in since[a]


\* What one pass through Next does to the fields of the iterator.
LEMMA StepFields ==
    ASSUME NEW it \in Iterator
    PROVE  LET new == IterStep(rs, it).iter IN
           /\ new.idx = NextIdx(rs, it) /\ new.cur = NextCur(rs, it)
           /\ new.startRange = it.startRange
           /\ new.startIP = (IF Fresh(it) THEN NextCur(rs, it) ELSE it.startIP)
<1> DEFINE k == NextIdx(rs, it)
           c == NextCur(rs, it)
           new == [it EXCEPT !.idx = k, !.cur = c,
                             !.startIP = IF it.cur = Nil \/ @ = Nil THEN c ELSE @]
<1>1. IterStep(rs, it).iter = new
  BY DEF IterStep
<1> HIDE DEF k, c
<1>2. /\ new.idx = k /\ new.cur = c /\ new.startRange = it.startRange
      /\ new.startIP = (IF it.cur = Nil \/ it.startIP = Nil THEN c ELSE it.startIP)
  BY DEF Iterator
<1> HIDE DEF new
<1>3. QED
  BY <1>1, <1>2 DEF Fresh, k, c

\* The place Next moves to, from a fresh iterator too.
LEMMA StepPlace ==
    ASSUME IterTypeInv, WalkInv, iter # Nil
    PROVE  LET k == NextIdx(rs, iter)
               c == NextCur(rs, iter)
           IN  /\ k \in DOMAIN rs /\ c \in Members(rs[k])
               /\ k \in Nat /\ c \in Nat /\ c # Nil
               /\ iter.cur # Nil =>
                    /\ NextPlace(rs, iter.idx, iter.cur, k, c)
                    /\ iter.idx \in Nat /\ iter.cur \in Nat
               /\ Fresh(iter) => k = iter.startRange \/ Len(rs) > 1
<1> DEFINE k == NextIdx(rs, iter)
           c == NextCur(rs, iter)
<1>1. /\ rs \in RangeSets /\ InRangeSet(rs, iter) /\ WalkOf(iter, offered)
      /\ 1 \in DOMAIN rs /\ rs[1].start \in Members(rs[1])
  BY GoodSet DEF IterTypeInv, WalkInv, WellFormedSet, WellFormed, Members
<1>2. k \in DOMAIN rs /\ c \in Members(rs[k])
  <2>1. CASE iter.cur = Nil
    <3>1. k = 1 /\ c = rs[1].start
      BY <1>1, <2>1 DEF NextIdx, NextCur, WalkOf
    <3>2. QED
      BY <1>1, <3>1
  <2>2. CASE iter.cur # Nil
    BY <1>1, <2>2, NextMoves
  <2>3. QED
    BY <2>1, <2>2
<1>3. k \in Nat /\ c \in Nat
  BY <1>1, <1>2, GoodSet
<1>4. iter.cur # Nil => NextPlace(rs, iter.idx, iter.cur, k, c)
  BY <1>1, NextMoves
<1>5. iter.cur # Nil => iter.idx \in Nat /\ iter.cur \in Nat
  BY <1>1, GoodSet DEF InRangeSet
<1>6. Fresh(iter) => k = iter.startRange \/ Len(rs) > 1
  <2>1. CASE Len(rs) = 1
    <3>1. DOMAIN rs = {1}
      BY <1>1, <2>1, GoodSet DEF WellFormedSet
    <3>2. QED
      BY <1>1, <1>2, <3>1 DEF WalkOf
  <2>2. CASE Len(rs) # 1
    <3>1. Len(rs) \in Nat \ {0}
      BY <1>1, GoodSet DEF WellFormedSet
    <3>2. Len(rs) > 1
      BY <2>2, <3>1
    <3>3. QED
      BY <3>2
  <2>3. QED
    BY <2>1, <2>2
<1>7. c # Nil
  BY <1>3, AddrAssumption
<1> HIDE DEF k, c
<1>8. QED
  BY <1>2, <1>3, <1>4, <1>5, <1>6, <1>7 DEF k, c

\* Next keeps the iterator and what it has offered together.
LEMMA StepKeepsWalk ==
    ASSUME IterTypeInv, WalkInv, iter # Nil, ~ LoopedBack(rs, iter), NEW off,
           LET k == NextIdx(rs, iter)
               c == NextCur(rs, iter)
           IN  off = offered \cup (IF c = rs[k].gw THEN {} ELSE {c})
    PROVE  WalkOf(IterStep(rs, iter).iter, off)
<1> DEFINE k == NextIdx(rs, iter)
           c == NextCur(rs, iter)
           new == IterStep(rs, iter).iter
<1>1. /\ rs \in RangeSets /\ iter \in Iterator /\ WalkOf(iter, offered)
  BY DEF IterTypeInv, WalkInv, InRangeSet
<1>2. /\ k \in DOMAIN rs /\ c \in Members(rs[k])
      /\ k \in Nat /\ c \in Nat /\ c # Nil
      /\ Fresh(iter) => k = iter.startRange \/ Len(rs) > 1
  BY StepPlace
<1>3. /\ new.idx = k /\ new.cur = c /\ new.startRange = iter.startRange
      /\ new.startIP = (IF Fresh(iter) THEN c ELSE iter.startIP)
  BY <1>1, StepFields
<1>4. ~ Fresh(new) /\ new.cur # Nil /\ new.startIP # Nil
  BY <1>2, <1>3 DEF Fresh
<1>5. Closes(new) \/ Len(rs) > 1
  <2> HIDE DEF k, c, new
  <2>1. CASE Fresh(iter)
    BY <1>2, <1>3, <2>1 DEF Closes
  <2>2. CASE ~ Fresh(iter)
    BY <1>1, <1>3, <2>2 DEF Closes, WalkOf, Fresh
  <2>3. QED
    BY <2>1, <2>2
<1>6. ASSUME Closes(new), NEW j \in DOMAIN rs, NEW b \in Members(rs[j])
      PROVE  b \in off <=> /\ b # rs[j].gw
                           /\ OnWalk(new.startRange, new.startIP, new.idx, new.cur, j, b)
  <2>1. j \in Nat /\ b \in Nat /\ (b = c => j = k)
    BY <1>1, <1>2, GoodSet
  <2>2. b \in off <=> b \in offered \/ (b = c /\ j = k /\ c # rs[k].gw)
    <3> HIDE DEF k, c
    <3>1. off = offered \cup (IF c = rs[k].gw THEN {} ELSE {c})
      BY DEF k, c
    <3>2. QED
      BY <2>1, <3>1
  <2>3. CASE Fresh(iter)
    <3>1. k = iter.startRange
      <4>1. iter.startRange \in DOMAIN rs /\ c \in Members(rs[iter.startRange])
        BY <1>1, <1>3, <1>6, <2>3 DEF Closes, WalkOf
      <4>2. QED
        BY <1>1, <1>2, <4>1, GoodSet
    <3>2. offered = {}
      BY <1>1, <2>3 DEF WalkOf
    <3> HIDE DEF k, c, new
    <3>3. OnWalk(k, c, k, c, j, b) <=> j = k /\ b = c
      BY <1>2, <2>1 DEF OnWalk, UpTo
    <3>4. QED
      BY <1>3, <2>2, <2>3, <3>1, <3>2, <3>3
  <2>4. CASE ~ Fresh(iter)
    <3>1. iter.cur # Nil /\ iter.startIP # Nil
      BY <2>4 DEF Fresh
    <3>2. /\ NextPlace(rs, iter.idx, iter.cur, k, c)
          /\ iter.idx \in Nat /\ iter.cur \in Nat
      BY <3>1, StepPlace
    <3>3. k # iter.startRange \/ c # iter.startIP
      BY <3>1 DEF LoopedBack
    <3>4. iter.startRange \in DOMAIN rs /\ iter.startIP \in Members(rs[iter.startRange])
      <4>1. new.startIP = iter.startIP /\ new.startRange = iter.startRange
        BY <1>3, <2>4
      <4>2. QED
        BY <1>1, <1>6, <4>1 DEF Closes, WalkOf
    <3>5. iter.startRange \in Nat /\ iter.startIP \in Nat
      BY <1>1, <3>4, GoodSet
    <3> HIDE DEF k, c, new
    <3>6. OnWalk(iter.startRange, iter.startIP, k, c, j, b) <=>
            \/ OnWalk(iter.startRange, iter.startIP, iter.idx, iter.cur, j, b)
            \/ (j = k /\ b = c)
      <4>1. {iter.startRange, j, iter.idx, k, iter.startIP, b, iter.cur, c} \subseteq Int
        BY <1>2, <2>1, <3>2, <3>5
      <4>2. QED
        BY <3>2, <3>3, <3>4, <4>1, WalkGrows
    <3>7. b \in offered <=>
            /\ b # rs[j].gw
            /\ OnWalk(iter.startRange, iter.startIP, iter.idx, iter.cur, j, b)
      BY <1>1, <2>4, <3>4 DEF WalkOf, Closes
    <3>8. QED
      BY <1>3, <2>2, <2>4, <3>6, <3>7
  <2>5. QED
    BY <2>3, <2>4
<1>7. QED
  <2> HIDE DEF k, c, new
  <2>1. WalkOf(new, off)
    BY <1>1, <1>3, <1>4, <1>5, <1>6 DEF WalkOf
  <2>2. QED
    BY <2>1 DEF new

\* What Next returns, in terms of the place it moves to.
LEMMA StepOut ==
    ASSUME IterTypeInv, WalkInv, iter # Nil
    PROVE  LET k == NextIdx(rs, iter)
               c == NextCur(rs, iter)
               out == IterStep(rs, iter).out
           IN  /\ out = "nil" => LoopedBack(rs, iter)
               /\ out \in {"ip", "skip"} => ~ LoopedBack(rs, iter)
               /\ out = "skip" => c = rs[k].gw
               /\ out = "ip" => c # rs[k].gw /\ c \in Allocatable(rs) /\ c \in Addresses(rs)
<1> DEFINE k == NextIdx(rs, iter)
           c == NextCur(rs, iter)
           out == IterStep(rs, iter).out
<1>1. /\ out = "nil" => LoopedBack(rs, iter)
      /\ out \in {"ip", "skip"} => ~ LoopedBack(rs, iter)
      /\ out = "skip" => c = rs[k].gw
      /\ out = "ip" => c # rs[k].gw
  BY DEF IterStep, IsGateway
<1>2. k \in DOMAIN rs /\ c \in Members(rs[k]) /\ rs \in RangeSets
  BY StepPlace DEF IterTypeInv
<1>3. c \in Addresses(rs) /\ (c \in Allocatable(rs) <=> c # rs[k].gw)
  BY <1>2, GoodSet, GoodSetLookup
<1> HIDE DEF k, c, out
<1>4. QED
  BY <1>1, <1>3 DEF k, c, out

\* When Next gives up, everything has been offered.
LEMMA ExhaustedOfferedAll ==
    ASSUME IterTypeInv, WalkInv, iter # Nil, IterStep(rs, iter).out = "nil"
    PROVE  Allocatable(rs) = offered
<1> DEFINE k == NextIdx(rs, iter)
           c == NextCur(rs, iter)
<1>1. rs \in RangeSets /\ WalkOf(iter, offered) /\ offered \subseteq Allocatable(rs)
  BY DEF IterTypeInv, WalkInv
<1>2. iter.cur # Nil /\ iter.startIP # Nil /\ k = iter.startRange /\ c = iter.startIP
  BY StepOut DEF LoopedBack
<1>3. /\ k \in DOMAIN rs /\ c \in Members(rs[k]) /\ k \in Nat /\ c \in Nat
      /\ NextPlace(rs, iter.idx, iter.cur, k, c) /\ iter.idx \in Nat /\ iter.cur \in Nat
  BY <1>2, StepPlace
<1> HIDE DEF k, c
<1>4. Closes(iter) /\ ~ Fresh(iter)
  BY <1>2, <1>3 DEF Closes, Fresh
<1>5. ASSUME NEW b \in Allocatable(rs) PROVE b \in offered
  <2>1. PICK j \in DOMAIN rs : b \in Members(rs[j])
    BY DEF Allocatable, Addresses
  <2>2. b # rs[j].gw /\ b \in Nat /\ j \in Nat
    BY <1>1, <2>1, GoodSet, GoodSetLookup
  <2>3. {j, iter.idx, k, b, iter.cur, c} \subseteq Int
    BY <1>3, <2>2
  <2>4. OnWalk(k, c, iter.idx, iter.cur, j, b)
    BY <1>3, <2>1, <2>3, WalkAll
  <2>5. QED
    BY <1>1, <1>2, <1>4, <2>1, <2>2, <2>4 DEF WalkOf
<1>6. QED
  BY <1>1, <1>5

WholeIterInv == IterTypeInv /\ WalkInv /\ HandInv

LEMMA IterInitInv == IterInit => WholeIterInv
<1> SUFFICES ASSUME IterInit PROVE WholeIterInv
  OBVIOUS
<1>1. rs \in RangeSets /\ WellFormedSet(rs)
  BY GoodSet DEF IterInit
<1>2. rs[1].subnet.ip \in Nat /\ Addresses(rs) \subseteq Nat
  BY <1>1 DEF WellFormedSet, WellFormed, Addresses, Members
<1>3. IterTypeInv
  BY <1>1, <1>2 DEF IterInit, IterTypeInv
<1>4. WalkInv
  BY DEF IterInit, WalkInv
<1>5. HandInv
  <2>1. \A a \in Addresses(rs) : since[a] = Addresses(rs)
    BY DEF IterInit
  <2>2. \A i \in DOMAIN rs : \A a \in Members(rs[i]) : a \in Addresses(rs)
    BY DEF Addresses
  <2>3. QED
    BY <2>1, <2>2 DEF HandInv
<1>6. QED
  BY <1>3, <1>4, <1>5 DEF WholeIterInv

LEMMA GetBeginKeeps ==
    ASSUME WholeIterInv, GetBegin
    PROVE  WholeIterInv'
<1> USE DEF WholeIterInv
<1>1. /\ rs \in RangeSets /\ WellFormedSet(rs) /\ last \in Nat \cup {Nil}
      /\ UNCHANGED <<rs, taken, last, since, moved>> /\ iter' = GetIter(rs, last)
      /\ offered' = {} /\ iter = Nil
  BY GoodSet DEF IterTypeInv, GetBegin
<1>2. InRangeSet(rs, iter') /\ iter' # Nil
  <2>1. InRangeSet(rs, iter')
    BY <1>1, GetIterInRange
  <2>2. QED
    BY <2>1, NilAssumption DEF InRangeSet
<1>3. IterTypeInv'
  BY <1>1, <1>2 DEF IterTypeInv
<1>4. CASE SetContains(rs, last)
  <2> DEFINE i == RangeFor(rs, last)
  <2>1. last # Nil /\ last \in Nat
    BY <1>1, <1>4, GoodSetLookup
  <2>2. i \in DOMAIN rs /\ Contains(rs[i], last)
    BY <1>1, <1>4, RangeForFirst, GoodSet
  <2>3. iter' = [idx |-> i, startRange |-> i, cur |-> last, startIP |-> Nil]
    BY <1>1, <1>4 DEF GetIter
  <2> HIDE DEF i
  <2>4. /\ iter'.idx = i /\ iter'.startRange = i /\ iter'.cur = last /\ iter'.startIP = Nil
    BY <2>3
  <2>5. WalkOf(iter, offered)'
    BY <1>1, <2>1, <2>2, <2>4 DEF WalkOf, Fresh
  <2>6. WalkInv'
    BY <1>1, <2>1, <2>4, <2>5 DEF WalkInv
  <2>7. HandIdx' = HandIdx /\ HandIP' = HandIP
    BY <1>1, <1>2, <2>4 DEF HandIdx, HandIP, i
  <2>8. HandInv'
    BY <1>1, <2>7 DEF HandInv
  <2>9. QED
    BY <1>3, <2>6, <2>8
<1>5. CASE ~ SetContains(rs, last)
  <2>1. iter' = [idx |-> 1, startRange |-> 1, cur |-> Nil, startIP |-> rs[1].start]
    BY <1>1, <1>5 DEF GetIter
  <2>2. iter'.idx = 1 /\ iter'.startRange = 1 /\ iter'.cur = Nil /\ iter'.startIP = rs[1].start
    BY <2>1
  <2>3. 1 \in DOMAIN rs /\ rs[1].start \in Members(rs[1]) /\ rs[1].start \in Nat
    BY <1>1 DEF WellFormedSet, WellFormed, Members
  <2>4. WalkOf(iter, offered)'
    BY <1>1, <2>2, <2>3, AddrAssumption DEF WalkOf, Fresh, Closes
  <2>5. WalkInv'
    BY <1>1, <1>5, <2>4 DEF WalkInv
  <2>6. HandInv'
    BY <1>1, <1>5 DEF HandInv
  <2>7. QED
    BY <1>3, <2>5, <2>6
<1>6. QED
  BY <1>4, <1>5

\* The hand moves with the cursor: only the new place is to be accounted for.
LEMMA HandMoves ==
    ASSUME WholeIterInv, iter # Nil, ~ moved, SetContains(rs, last),
           NEW i \in DOMAIN rs, NEW j \in DOMAIN rs,
           NEW a \in Members(rs[i]), NEW b \in Members(rs[j]), b # rs[j].gw,
           AfterOn(i, a, NextIdx(rs, iter), NextCur(rs, iter), j, b)
    PROVE  b \in since[a] \/ (j = NextIdx(rs, iter) /\ b = NextCur(rs, iter))
<1> USE DEF WholeIterInv
<1> DEFINE k == NextIdx(rs, iter)
           c == NextCur(rs, iter)
<1>1. iter.cur # Nil /\ rs \in RangeSets
  BY DEF WalkInv, IterTypeInv
<1>2. /\ NextPlace(rs, iter.idx, iter.cur, k, c)
      /\ k \in Nat /\ c \in Nat /\ iter.idx \in Nat /\ iter.cur \in Nat
  BY <1>1, StepPlace
<1>3. i \in Nat /\ j \in Nat /\ a \in Nat /\ b \in Nat
  BY <1>1, GoodSet
<1> HIDE DEF k, c
<1>4. {i, j, iter.idx, k, a, b, iter.cur, c} \subseteq Int
  BY <1>2, <1>3
<1>5. AfterOn(i, a, iter.idx, iter.cur, j, b) \/ (j = k /\ b = c)
  BY <1>2, <1>4, AfterGrows DEF k, c
<1>6. AfterOn(i, a, iter.idx, iter.cur, j, b) => b \in since[a]
  BY DEF HandInv, HandIdx, HandIP
<1>7. QED
  BY <1>5, <1>6 DEF k, c

\* NextSkips and NextTaken: the walk goes on.
LEMMA NextOnKeeps ==
    ASSUME WholeIterInv, NextSkips \/ NextTaken
    PROVE  WholeIterInv'
<1> USE DEF WholeIterInv
<1> DEFINE k == NextIdx(rs, iter)
           c == NextCur(rs, iter)
           new == IterStep(rs, iter).iter
<1>1. /\ iter # Nil /\ rs \in RangeSets /\ iter \in Iterator
      /\ UNCHANGED <<rs, taken, last, moved>> /\ iter' = new
      /\ IterStep(rs, iter).out \in {"ip", "skip"}
  BY DEF NextSkips, NextTaken, IterTypeInv, InRangeSet
<1>2. /\ new.idx = k /\ new.cur = c
  BY <1>1, StepFields
<1>3. /\ k \in DOMAIN rs /\ c \in Members(rs[k]) /\ c # Nil
      /\ ~ LoopedBack(rs, iter)
  BY <1>1, StepPlace, StepOut
<1>4. /\ offered' = offered \cup (IF c = rs[k].gw THEN {} ELSE {c})
      /\ c # rs[k].gw =>
            c \in taken /\ c \in Allocatable(rs) /\ \A a \in Addresses(rs) : c \in since'[a]
      /\ since' \in [Addresses(rs) -> SUBSET Addresses(rs)]
      /\ \A a \in Addresses(rs) : since[a] \subseteq since'[a]
  <2>1. CASE NextSkips
    <3>1. c = rs[k].gw /\ offered' = offered /\ since' = since
      BY <2>1, StepOut DEF NextSkips
    <3> HIDE DEF k, c, new
    <3>2. QED
      BY <3>1 DEF IterTypeInv
  <2>2. CASE NextTaken
    <3>1. c # rs[k].gw /\ c \in Allocatable(rs) /\ c \in Addresses(rs)
      BY <2>2, StepOut DEF NextTaken
    <3>2. /\ c \in taken /\ offered' = offered \cup {c}
          /\ since' = [b \in Addresses(rs) |-> since[b] \cup {c}]
      BY <1>2, <2>2 DEF NextTaken
    <3> HIDE DEF k, c, new
    <3>3. QED
      BY <3>1, <3>2 DEF IterTypeInv
  <2>3. QED
    BY <2>1, <2>2
<1>5. InRangeSet(rs, iter') /\ iter' # Nil
  <2>1. InRangeSet(rs, iter')
    BY <1>1, GoodSet, IterStepInRange DEF IterTypeInv
  <2>2. QED
    BY <2>1, NilAssumption DEF InRangeSet
<1>6. WalkOf(iter', offered')
  BY <1>1, <1>3, <1>4, StepKeepsWalk
<1> HIDE DEF k, c, new
<1>7. IterTypeInv'
  BY <1>1, <1>4, <1>5 DEF IterTypeInv
<1>8. WalkInv'
  <2>1. WalkOf(iter, offered)'
    BY <1>1, <1>6 DEF WalkOf, Closes, Fresh
  <2>2. iter'.cur # Nil
    BY <1>1, <1>2, <1>3
  <2>3. offered' \subseteq taken' /\ offered' \subseteq Allocatable(rs)'
    BY <1>1, <1>4 DEF WalkInv
  <2>4. \A a \in Addresses(rs) : offered' \subseteq since'[a]
    BY <1>1, <1>4 DEF WalkInv
  <2>5. QED
    BY <1>1, <2>1, <2>2, <2>3, <2>4 DEF WalkInv
<1>9. HandInv'
  <2> SUFFICES ASSUME ~ moved PROVE HandInv'
    BY <1>1 DEF HandInv
  <2>1. CASE ~ SetContains(rs, last)
    <3>1. \A a \in Addresses(rs) : Addresses(rs) \subseteq since'[a]
      BY <1>4, <2>1 DEF HandInv
    <3>2. QED
      BY <1>1, <2>1, <3>1 DEF HandInv
  <2>2. CASE SetContains(rs, last)
    <3>1. ASSUME NEW i \in DOMAIN rs, NEW j \in DOMAIN rs, NEW a \in Members(rs[i]),
                 NEW b \in Members(rs[j]), b # rs[j].gw, AfterOn(i, a, k, c, j, b)
          PROVE  b \in since'[a]
      <4>1. a \in Addresses(rs)
        BY <1>1, GoodSet
      <4>2. b \in since[a] \/ (j = k /\ b = c)
        BY <1>1, <2>2, <3>1, HandMoves DEF k, c
      <4>3. CASE b \in since[a]
        BY <1>4, <4>1, <4>3
      <4>4. CASE j = k /\ b = c
        BY <1>4, <3>1, <4>1, <4>4
      <4>5. QED
        BY <4>2, <4>3, <4>4
    <3>2. HandIdx' = k /\ HandIP' = c
      BY <1>1, <1>2, <1>5 DEF HandIdx, HandIP
    <3>3. QED
      BY <1>1, <2>2, <3>1, <3>2 DEF HandInv
  <2>3. QED
    BY <2>1, <2>2
<1>10. QED
  BY <1>7, <1>8, <1>9

LEMMA NextFreeKeeps ==
    ASSUME WholeIterInv, NextFree
    PROVE  WholeIterInv'
<1> USE DEF WholeIterInv
<1> DEFINE k == NextIdx(rs, iter)
           c == NextCur(rs, iter)
<1>1. iter # Nil /\ rs \in RangeSets /\ iter \in Iterator
  BY DEF NextFree, IterTypeInv, InRangeSet
<1>2. IterStep(rs, iter).iter.cur = c
  BY <1>1, StepFields
<1>3. /\ UNCHANGED <<rs, moved>> /\ iter' = Nil
      /\ taken' = taken \cup {c} /\ last' = c
      /\ since' = [b \in Addresses(rs) |-> IF b = c THEN {} ELSE since[b] \cup {c}]
  BY <1>2 DEF NextFree, Reserve
<1>4. k \in DOMAIN rs /\ c \in Members(rs[k]) /\ k \in Nat /\ c \in Nat /\ c \in Addresses(rs)
  BY <1>1, StepPlace, GoodSet
<1>5. SetContains(rs, c) /\ RangeFor(rs, c) = k
  BY <1>1, <1>4, GoodSetLookup
<1> HIDE DEF k, c
<1>6. IterTypeInv'
  BY <1>3, <1>4 DEF IterTypeInv
<1>7. WalkInv'
  BY <1>3 DEF WalkInv
<1>8. HandIdx' = k /\ HandIP' = c
  BY <1>3, <1>5 DEF HandIdx, HandIP
<1>9. HandInv'
  <2> SUFFICES ASSUME ~ moved, NEW i \in DOMAIN rs, NEW j \in DOMAIN rs,
                      NEW a \in Members(rs[i]), NEW b \in Members(rs[j]),
                      b # rs[j].gw, AfterOn(i, a, k, c, j, b)
               PROVE  b \in since'[a]
    BY <1>3, <1>5, <1>8 DEF HandInv
  <2>1. a \in Addresses(rs) /\ b \in Addresses(rs) /\ {i, j, a, b} \subseteq Nat
    BY <1>1, GoodSet
  <2>2. a # c
    <3>1. a = c => i = k
      BY <1>1, <1>4, GoodSet
    <3>2. ~ AfterOn(k, c, k, c, j, b)
      BY <1>4, <2>1 DEF AfterOn, UpTo, Before
    <3>3. QED
      BY <3>1, <3>2
  <2>3. since'[a] = since[a] \cup {c}
    BY <1>3, <2>1, <2>2
  <2>4. b \in since[a] \/ b = c
    <3>1. CASE SetContains(rs, last)
      BY <1>1, <3>1, HandMoves DEF k, c
    <3>2. CASE ~ SetContains(rs, last)
      BY <2>1, <3>2 DEF HandInv
    <3>3. QED
      BY <3>1, <3>2
  <2>5. QED
    BY <2>3, <2>4
<1>10. QED
  BY <1>6, <1>7, <1>9

LEMMA NextExhaustedKeeps ==
    ASSUME WholeIterInv, NextExhausted
    PROVE  WholeIterInv'
<1> USE DEF WholeIterInv
<1>1. /\ iter # Nil /\ rs \in RangeSets /\ iter' = Nil
      /\ UNCHANGED <<rs, taken, last, since, moved>>
  BY DEF NextExhausted, IterTypeInv
<1>2. Allocatable(rs) = offered
  BY ExhaustedOfferedAll DEF NextExhausted
<1>3. \A a \in Addresses(rs) : Allocatable(rs) \subseteq since[a]
  BY <1>1, <1>2 DEF WalkInv
<1>4. IterTypeInv' /\ WalkInv'
  BY <1>1 DEF IterTypeInv, WalkInv
<1>5. \A i, j \in DOMAIN rs : \A a \in Members(rs[i]), b \in Members(rs[j]) :
        b # rs[j].gw => b \in since[a]
  BY <1>1, <1>3, GoodSet, GoodSetLookup
<1>6. HandInv'
  BY <1>1, <1>5 DEF HandInv
<1>7. QED
  BY <1>4, <1>6

LEMMA RequestsKeep ==
    ASSUME WholeIterInv, NEW a \in Addresses(rs), GetRequested(a) \/ Release(a)
    PROVE  WholeIterInv'
<1> USE DEF WholeIterInv
<1>1. rs \in RangeSets /\ a \in Nat
  BY GoodSet DEF IterTypeInv, Addresses
<1>2. CASE GetRequested(a)
  <2>1. /\ UNCHANGED <<rs, iter>> /\ iter = Nil /\ moved' = TRUE
        /\ taken' = taken \cup {a} /\ last' = a
        /\ since' = [b \in Addresses(rs) |-> IF b = a THEN {} ELSE since[b] \cup {}]
    BY <1>2 DEF GetRequested, Reserve
  <2>2. QED
    BY <1>1, <2>1 DEF IterTypeInv, WalkInv, HandInv
<1>3. CASE Release(a)
  <2>1. /\ UNCHANGED <<rs, last, iter, offered, since, moved>> /\ iter = Nil
        /\ taken' = taken \ {a}
    BY <1>3 DEF Release
  <2>2. QED
    BY <2>1 DEF IterTypeInv, WalkInv, HandInv, HandIdx, HandIP
<1>4. QED
  BY <1>2, <1>3

LEMMA IterInvariant == IterSpec => []WholeIterInv
<1>1. IterInit => WholeIterInv
  BY IterInitInv
<1>2. WholeIterInv /\ [IterNext]_iterVars => WholeIterInv'
  <2> SUFFICES ASSUME WholeIterInv, [IterNext]_iterVars PROVE WholeIterInv'
    OBVIOUS
  <2>1. CASE IterNext
    BY <2>1, GetBeginKeeps, NextOnKeeps, NextFreeKeeps, NextExhaustedKeeps, RequestsKeep
       DEF IterNext, IterMove
  <2>2. CASE UNCHANGED iterVars
    BY <2>2 DEF iterVars, WholeIterInv, IterTypeInv, WalkInv, WalkOf, Closes, Fresh,
                HandInv, HandIdx, HandIP
  <2>3. QED
    BY <2>1, <2>2
<1>3. QED
  BY <1>1, <1>2, PTL DEF IterSpec

\* For every range set that a configuration may have: a call of Get is offered addresses
\* of the set that are no gateway, and over a single range none of them twice
\* (allocator.go:190-229).
THEOREM OffersAreFresh == IterSpec => []OffersFresh
<1>1. WholeIterInv => OffersFresh
  <2> SUFFICES ASSUME WholeIterInv, iter # Nil, IterStep(rs, iter).out = "ip"
               PROVE  /\ IterStep(rs, iter).iter.cur \in Allocatable(rs)
                      /\ Len(rs) = 1 => IterStep(rs, iter).iter.cur \notin offered
    BY DEF OffersFresh
  <2> USE DEF WholeIterInv
  <2> DEFINE k == NextIdx(rs, iter)
             c == NextCur(rs, iter)
  <2>1. rs \in RangeSets /\ iter \in Iterator /\ WalkOf(iter, offered)
    BY DEF IterTypeInv, InRangeSet, WalkInv
  <2>2. IterStep(rs, iter).iter.cur = c
    BY <2>1, StepFields
  <2>3. c \in Allocatable(rs) /\ ~ LoopedBack(rs, iter)
    BY StepOut
  <2>4. k \in DOMAIN rs /\ c \in Members(rs[k]) /\ k \in Nat /\ c \in Nat
    BY StepPlace
  <2>5. ASSUME Len(rs) = 1, c \in offered PROVE FALSE
    <3>1. ~ Fresh(iter) /\ Closes(iter)
      BY <2>1, <2>5 DEF WalkOf, Fresh
    <3>2. iter.cur # Nil /\ iter.startIP # Nil
      BY <3>1 DEF Fresh
    <3>3. /\ NextPlace(rs, iter.idx, iter.cur, k, c)
          /\ iter.idx \in Nat /\ iter.cur \in Nat
      BY <3>2, StepPlace
    <3>4. OnWalk(iter.startRange, iter.startIP, iter.idx, iter.cur, k, c)
      BY <2>1, <2>4, <2>5, <3>1 DEF WalkOf
    <3>5. k # iter.startRange \/ c # iter.startIP
      BY <2>3, <3>2 DEF LoopedBack
    <3>6. iter.startRange \in DOMAIN rs /\ iter.startIP \in Members(rs[iter.startRange])
      BY <2>1, <3>1 DEF Closes, WalkOf
    <3>7. iter.startRange \in Nat /\ iter.startIP \in Nat
      BY <2>1, <3>6, GoodSet
    <3>8. iter.idx \in DOMAIN rs /\ iter.cur \in Members(rs[iter.idx])
      BY <3>2 DEF IterTypeInv, InRangeSet
    <3> HIDE DEF k, c
    <3>9. QED
      BY <2>4, <3>3, <3>4, <3>5, <3>6, <3>7, <3>8 DEF NextPlace, OnWalk, UpTo, Before
  <2>6. QED
    BY <2>2, <2>3, <2>5
<1>2. QED
  BY <1>1, IterInvariant, PTL

\* For every such range set: Next gives up only after it has offered every address the
\* allocator may hand out, and all of them were reserved (allocator.go:219).
THEOREM ExhaustedIsFull == IterSpec => []ExhaustedMeansFull
<1>1. WholeIterInv => ExhaustedMeansFull
  BY ExhaustedOfferedAll DEF WholeIterInv, ExhaustedMeansFull, WalkInv
<1>2. QED
  BY <1>1, IterInvariant, PTL

\* For every such range set: as long as nobody has asked for an address, Get does not
\* choose the same address again before it has tried all others (allocator.go:147).
THEOREM GoesRound == IterSpec => RoundRobin
<1> DEFINE Fair == \A a \in Addresses(rs) :
                        (iter # Nil /\ ~ moved /\ a \in taken' \ taken) =>
                            Allocatable(rs) \ {a} \subseteq since[a]
<1>1. WholeIterInv /\ [IterNext]_iterVars => [Fair]_iterVars
  <2> SUFFICES ASSUME WholeIterInv, IterNext, NEW a \in Addresses(rs),
                      iter # Nil, ~ moved, a \in taken' \ taken
               PROVE  Allocatable(rs) \ {a} \subseteq since[a]
    BY DEF iterVars
  <2> USE DEF WholeIterInv
  <2> DEFINE k == NextIdx(rs, iter)
             c == NextCur(rs, iter)
  <2>1. NextFree
    BY DEF IterNext, IterMove, GetBegin, NextSkips, NextTaken, NextExhausted, GetRequested,
           Release
  <2>2. rs \in RangeSets /\ iter \in Iterator
    BY DEF IterTypeInv, InRangeSet
  <2>3. a = c
    BY <2>1, <2>2, StepFields DEF NextFree, Reserve
  <2>4. k \in DOMAIN rs /\ c \in Members(rs[k]) /\ k \in Nat /\ c \in Nat
    BY StepPlace
  <2>5. CASE ~ SetContains(rs, last)
    BY <2>5 DEF HandInv, Allocatable
  <2>6. CASE SetContains(rs, last)
    <3>1. iter.cur # Nil
      BY <2>6 DEF WalkInv
    <3>2. /\ NextPlace(rs, iter.idx, iter.cur, k, c)
          /\ iter.idx \in Nat /\ iter.cur \in Nat
      BY <3>1, StepPlace
    <3> HIDE DEF k, c
    <3>3. ASSUME NEW b \in Allocatable(rs), b # a PROVE b \in since[a]
      <4>1. PICK j \in DOMAIN rs : b \in Members(rs[j])
        BY DEF Allocatable, Addresses
      <4>2. b # rs[j].gw /\ b \in Nat /\ j \in Nat
        BY <2>2, <4>1, GoodSet, GoodSetLookup
      <4>3. {j, iter.idx, k, b, iter.cur, c} \subseteq Int
        BY <2>4, <3>2, <4>2
      <4>4. AfterOn(k, c, iter.idx, iter.cur, j, b)
        BY <2>3, <3>2, <3>3, <4>1, <4>3, AfterAll
      <4>5. QED
        BY <2>3, <2>4, <2>6, <4>1, <4>2, <4>4 DEF HandInv, HandIdx, HandIP
    <3>4. QED
      BY <3>3
  <2>7. QED
    BY <2>5, <2>6
<1>2. QED
  BY <1>1, IterInvariant, PTL DEF IterSpec, RoundRobin
================================================================================
