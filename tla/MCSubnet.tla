-------------------------------- MODULE MCSubnet --------------------------------
(***************************************************************************)
(* An instance of Subnet for TLC: twelve addresses.                        *)
(***************************************************************************)
EXTENDS Subnet, TLC

\* A subnet of eight addresses with nothing excluded; with two runs excluded, unsorted and
\* with a duplicate; with its last usable address excluded.  The four addresses at the end
\* of the address space, with nothing and with everything excluded.  Two addresses.
MCArgs ==
    {[cidr |-> [base |-> 0, size |-> 8], excludeIps |-> <<>>],
     [cidr |-> [base |-> 0, size |-> 8], excludeIps |-> <<5, 3, 2, 3, 0>>],
     [cidr |-> [base |-> 0, size |-> 8], excludeIps |-> <<6>>],
     [cidr |-> [base |-> 8, size |-> 4], excludeIps |-> <<>>],
     [cidr |-> [base |-> 8, size |-> 4], excludeIps |-> <<10, 9>>],
     [cidr |-> [base |-> 6, size |-> 2], excludeIps |-> <<>>]}

Symmetry == Permutations(Pod) \cup Permutations(Mac)
================================================================================
