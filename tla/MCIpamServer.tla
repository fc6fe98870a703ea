------------------------------ MODULE MCIpamServer ------------------------------
(***************************************************************************)
(* Instances of IpamServer for TLC.                                        *)
(***************************************************************************)
EXTENDS IpamServer, TLC

CONSTANTS n1, n2, g1, g2, g3, c1, c2, c3

\* One request at a time on each node.
SerialNodeOf == g1 :> n1 @@ g2 :> n2

\* Two concurrent requests on the first node.
ConcurrentNodeOf == [g \in Handler |-> IF g = g3 THEN n2 ELSE n1]

\* Containers c1 and c3 on the first node, c2 on the second.
MCHome == [c \in Container |-> IF c = c2 THEN n2 ELSE n1]

Rng(base, a, b, g) == [subnet |-> [ip |-> base, size |-> 8], start |-> a, end |-> b, gw |-> g]

\* One range set of one range, as kubeovsd configures it: two addresses and the gateway.
OneSet == << <<Rng(8, 9, 11, 9)>> >>

\* One range set with a single address to give.
TinySet == << <<Rng(8, 9, 10, 9)>> >>

\* Two range sets.
TwoSets == << <<Rng(16, 17, 18, 20)>>, <<Rng(8, 9, 11, 9)>> >>

\* No address (the empty string, which no range set contains), one, a gateway, two at once.
AnyRequest == {{Nil}, {10}, {9}, {10, 11}}

\* No address, and two different ones, so that both containers can get theirs.
EitherRequest == {{Nil}, {10}, {11}}
FewRequests == {{Nil}, {10}}
OneRequest == {{10}}
LeaseSymmetry == Permutations(Lease)
================================================================================
