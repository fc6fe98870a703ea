------------------------------ MODULE MCIpamConfig ------------------------------
(***************************************************************************)
(* Configurations of up to three ranges for TLC: IPv4 is 8 .. 15, IPv6     *)
(* starts at 16.                                                           *)
(***************************************************************************)
EXTENDS IpamConfig, TLC

Subnets == {[ip |-> 8, size |-> 8], [ip |-> 12, size |-> 4], [ip |-> 16, size |-> 4],
            [ip |-> 10, size |-> 4], [ip |-> 8, size |-> 2]}

\* Every choice of start and end in and next to the subnet.
RangeInputs ==
    {[subnet |-> s, start |-> a, end |-> b, gw |-> Nil] :
        s \in Subnets, a \in {Nil, 7, 8, 9, 12, 14, 15, 16, 18},
        b \in {Nil, 8, 11, 13, 15, 17, 19}}

\* Ranges that take part in larger configurations.
SomeRanges ==
    {r \in RangeInputs : r.subnet.size > 2 /\ r.subnet.ip # 10
                         /\ r.start \in {Nil, 9, 12, 14, 18} /\ r.end \in {Nil, 13, 15, 19}}

FewRanges ==
    {r \in SomeRanges : RangeAccepted(r) /\ r.start \in {Nil, 9, 14} /\ r.end \in {Nil, 13}}

Conf(single, runtime, ranges, args, old) ==
    [single |-> single, runtime |-> runtime, ranges |-> ranges, args |-> args, old |-> old]

MCConfigs ==
    {Conf(r, <<>>, <<>>, a, FALSE) : r \in RangeInputs, a \in {<<>>, <<9>>, <<9, Nil>>}}
    \cup {Conf(Nil, <<>>, << <<r, s>> >>, <<>>, FALSE) : r \in SomeRanges, s \in SomeRanges}
    \cup {Conf(r, << <<s>> >>, <<>>, <<>>, o) :
            r \in SomeRanges, s \in SomeRanges, o \in BOOLEAN}
    \cup {Conf(Nil, << <<r>> >>, << <<s, t>> >>, <<>>, FALSE) :
            r \in FewRanges, s \in FewRanges, t \in FewRanges}
    \cup {Conf(Nil, <<>>, << <<r, s, t>> >>, <<>>, FALSE) :
            r \in FewRanges, s \in FewRanges, t \in FewRanges}
    \cup {Conf(Nil, <<>>, <<>>, <<>>, FALSE), Conf(Nil, <<>>, << <<>> >>, <<>>, FALSE)}
================================================================================
