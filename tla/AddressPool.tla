------------------------------- MODULE AddressPool -------------------------------
(***************************************************************************)
(* What the IPAM of kubeovs-l2 promises the cluster, without a word about  *)
(* how: addresses belong to one container at a time, a container is told   *)
(* only of addresses that are its own, and an address is taken back only   *)
(* from a container that does not use it (docs/ipam-design.md).            *)
(***************************************************************************)
CONSTANTS
    Container,
    Addr,
    None        \* no container

VARIABLES
    owner,      \* owner[a]: the container that a belongs to, or None
    held        \* held[c]: the addresses c has been told to use

poolVars == <<owner, held>>

PoolInit ==
    /\ owner = [a \in Addr |-> None]
    /\ held = [c \in Container |-> {}]

Assign(a, c) ==
    /\ owner[a] = None
    /\ owner' = [owner EXCEPT ![a] = c]
    /\ UNCHANGED held

TakeBack(a) ==
    /\ \A c \in Container : a \notin held[c]
    /\ owner' = [owner EXCEPT ![a] = None]
    /\ UNCHANGED held

Grant(c, S) ==
    /\ \A a \in S : owner[a] = c
    /\ held' = [held EXCEPT ![c] = S]
    /\ UNCHANGED owner

GiveUpAddresses(c) ==
    /\ held' = [held EXCEPT ![c] = {}]
    /\ UNCHANGED owner

PoolNext ==
    \/ \E a \in Addr : TakeBack(a) \/ \E c \in Container : Assign(a, c)
    \/ \E c \in Container : GiveUpAddresses(c) \/ \E S \in SUBSET Addr : Grant(c, S)

PoolSpec == PoolInit /\ [][PoolNext]_poolVars
================================================================================
