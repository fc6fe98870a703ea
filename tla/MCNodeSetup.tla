------------------------------ MODULE MCNodeSetup ------------------------------
(***************************************************************************)
(* An instance of NodeSetup for TLC.                                       *)
(***************************************************************************)
EXTENDS NodeSetup

================================================================================
