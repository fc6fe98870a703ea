------------------------------- MODULE MCRangeIter -------------------------------
(***************************************************************************)
(* Range sets for TLC, all in IPv4 subnets of 8 addresses.                 *)
(***************************************************************************)
EXTENDS RangeIter, TLC

Rng(base, a, b, g) == [subnet |-> [ip |-> base, size |-> 8], start |-> a, end |-> b, gw |-> g]

\* Ranges of one, two and four addresses with the gateway first, second or outside, as
\* kubeovsd configures them, and one with the gateway last.
SingleRanges ==
    {<<Rng(8, 9, b, g)>> : b \in {9, 10, 12}, g \in {9, 10, 13}} \cup {<<Rng(8, 9, 11, 11)>>}

\* Two ranges, one of a single address, gateways inside.
RangeSetsOfTwo ==
    {<<Rng(8, 9, 10, 9), Rng(16, 17, 18, 20)>>, <<Rng(8, 9, 9, 9), Rng(16, 17, 18, 18)>>}

MCRangeSets == SingleRanges \cup RangeSetsOfTwo
================================================================================
