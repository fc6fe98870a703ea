------------------------------- MODULE IpamConfig -------------------------------
(***************************************************************************)
(* Validation of an IPAM configuration: LoadIPAMConfig of                  *)
(* pkg/ipametcd/backend/allocator/config.go, with Canonicalize and         *)
(* Overlaps of ranges and range sets (AddrRange).                          *)
(*                                                                         *)
(* A configuration is what json.Unmarshal has read: [single, runtime,      *)
(* ranges, args, old].  single is the old-style range or Nil, runtime and  *)
(* ranges are sequences of range sets, args the requested addresses (Nil   *)
(* for one that is neither v4 nor v6), old whether the CNI version is      *)
(* 0.2.0 or below.                                                         *)
(***************************************************************************)
EXTENDS AddrRange

CONSTANT Configs        \* the configurations a caller may pass

\* A range as it is read: a start, an end or a gateway may be left out.  The addresses
\* of a subnet are of one family.
RangeInput ==
    {r \in [subnet : [ip : Nat, size : Nat \ {0}],
            start : Nat \cup {Nil}, end : Nat \cup {Nil}, gw : Nat \cup {Nil}] :
        Fam(r.subnet.ip) = Fam(r.subnet.ip + r.subnet.size - 1)}

ConfigInput ==
    [single : RangeInput \cup {Nil}, runtime : Seq(Seq(RangeInput)),
     ranges : Seq(Seq(RangeInput)), args : Seq(Nat \cup {Nil}), old : BOOLEAN]

ASSUME ConfigAssumption == Configs \subseteq ConfigInput

VARIABLES
    conf,       \* the configuration, and then what it has become
    status      \* "given", then "ok" or "error"

cfgVars == <<conf, status>>

\* The old-style range before the sets of "ranges", the runtime's sets before both.
AllSets(c) == c.runtime \o (IF c.single = Nil THEN <<>> ELSE << <<c.single>> >>) \o c.ranges

NumFam(rss, f) == {i \in DOMAIN rss : Fam(rss[i][1].start) = f}

\* LoadIPAMConfig returns no error.
Accepted(c) ==
    LET rss == AllSets(c)
        css == [i \in DOMAIN rss |-> CanonicalSet(rss[i])]
    IN
    /\ \A i \in DOMAIN c.args : c.args[i] # Nil
    /\ rss # <<>>
    /\ \A i \in DOMAIN rss : SetAccepted(rss[i])
    /\ c.old => \A f \in {4, 6} : \A i, j \in NumFam(css, f) : i = j
    /\ \A i, j \in DOMAIN rss : i < j => ~ SetsOverlap(css[i], css[j])

ConfigInit == conf \in Configs /\ status = "given"

LoadOk ==
    /\ status = "given"
    /\ Accepted(conf)
    /\ status' = "ok"
    /\ conf' = [conf EXCEPT
                    !.single = Nil, !.runtime = <<>>,
                    !.ranges = [i \in DOMAIN AllSets(conf) |-> CanonicalSet(AllSets(conf)[i])]]

LoadError ==
    /\ status = "given"
    /\ ~ Accepted(conf)
    /\ status' = "error"
    /\ UNCHANGED conf

ConfigNext == LoadOk \/ LoadError

ConfigSpec == ConfigInit /\ [][ConfigNext]_cfgVars

--------------------------------------------------------------------------------
(***************************************************************************)
(* Properties.  The reference for a range is the set of its addresses.     *)
(***************************************************************************)

\* Where the ranges of some range sets are: the number of the set, the place there.
Places(rss) == UNION {{i} \X DOMAIN rss[i] : i \in DOMAIN rss}

\* Overlap detection misses nothing (range.go:132, range_set.go:47): in an accepted
\* configuration an address belongs to one range of one set, and to its subnet.
AddressesUnambiguous ==
    status = "ok" =>
        \A p, q \in Places(conf.ranges) :
            LET r == conf.ranges[p[1]][p[2]]
                s == conf.ranges[q[1]][q[2]]
            IN  /\ p # q => Members(r) \cap Members(s) = {}
                /\ \A a \in Members(r) : InSubnet(r.subnet, a)

\* Nothing is rejected without a reason: if every subnet is aligned and large enough,
\* what is given of start and end lies in the subnet in order, the addresses of
\* different ranges differ and the families of a set agree, the configuration loads.
NothingElseRejected ==
    (status = "error" /\ ~ conf.old /\ AllSets(conf) # <<>> /\ conf.args = <<>>) =>
        LET rss == AllSets(conf)
            css == [i \in DOMAIN rss |-> CanonicalSet(rss[i])]
        IN  \/ \E i \in DOMAIN rss : rss[i] = <<>>
            \/ \E p \in Places(rss) :
                LET r == rss[p[1]][p[2]]
                    s == css[p[1]][p[2]]
                IN  \/ r.subnet.size < 4 \/ r.subnet.ip % r.subnet.size # 0
                    \/ s.start > s.end
                    \/ ~ InSubnet(s.subnet, s.start) \/ ~ InSubnet(s.subnet, s.end)
            \/ \E p, q \in Places(rss) :
                LET r == css[p[1]][p[2]]
                    s == css[q[1]][q[2]]
                IN  \/ p # q /\ Members(r) \cap Members(s) # {}
                    \/ p[1] = q[1] /\ Fam(r.start) # Fam(s.start)

\* "Canonicalize takes a given range and ensures that all information is consistent"
\* (range.go:26), but for one case: the only empty range it lets through is the one whose
\* start is the IPv4 broadcast address and whose end was left out (range.go:67, 85).
EmptyOnlyAtBroadcast ==
    status = "ok" =>
        \A p \in Places(conf.ranges) :
            LET r == conf.ranges[p[1]][p[2]]
            IN  r.start > r.end =>
                    Fam(r.start) = 4 /\ r.start = r.subnet.ip + r.subnet.size - 1
                    /\ r.end = lastIP(r.subnet)

================================================================================
