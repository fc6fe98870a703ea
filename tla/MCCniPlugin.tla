------------------------------ MODULE MCCniPlugin ------------------------------
(***************************************************************************)
(* Instances of CniPlugin for TLC.                                         *)
(***************************************************************************)
EXTENDS CniPlugin, TLC

CniSymmetry == Permutations(Container) \cup Permutations(Addr)
================================================================================
