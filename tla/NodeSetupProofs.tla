---------------------------- MODULE NodeSetupProofs ----------------------------
(***************************************************************************)
(* Theorems about NodeSetup, for any set of addresses and any number of    *)
(* faults.                                                                 *)
(***************************************************************************)
EXTENDS NodeSetup, TLAPS

Moved == {"linkup", "route", "newserver", "run", "serve"}
Listed == Moved \cup {"addrdel", "addradd"}
Ported == Listed \cup {"nicup", "addrlist"}

\* What main has done by the time it is at a call, in this process.
StageInv ==
    /\ pc \in Ported \cup {"addbr", "brup", "addport"} => cni
    /\ pc \in Ported \cup {"brup", "addport"} => bridge
    /\ pc \in Ported \cup {"addport"} => brUp
    /\ pc \in Ported => port
    /\ pc \in Listed \cup {"addrlist"} => nicUp
    /\ pc \in {"newserver", "run", "serve"} => routed
    /\ pc = "serve" => sock = "live"

\* Where the addresses of the node are.
PlaceInv ==
    /\ os # {}
    /\ moving \in IF pc \in {"addrdel", "addradd"} THEN os ELSE {Nil}
    /\ os \subseteq nic \cup br \cup torn \cup (IF pc = "addradd" THEN {moving} ELSE {})
    /\ pc \in Moved /\ torn = {} /\ ~ blind => br # {}

NodeInv == NodeTypeOK /\ StageInv /\ PlaceInv

USE DEF Moved, Listed, Ported, Calls

\* The invariant holds of a node on which kubeovsd has never run.
LEMMA NodeInvInit == NodeInit => NodeInv
<1> SUFFICES ASSUME NodeInit PROVE NodeInv
  OBVIOUS
<1>1. NodeTypeOK
  <2>1. nicUp \in BOOLEAN
    BY DEF NodeInit
  <2>2. os \subseteq Addr /\ 0 \in 0 .. MaxFaults
    BY NodeAssumption DEF NodeInit
  <2> QED
    BY <2>1, <2>2, Zenon DEF NodeInit, NodeTypeOK
<1>2. StageInv
  BY DEF NodeInit, StageInv
<1>3. PlaceInv
  BY DEF NodeInit, PlaceInv
<1> QED
  BY <1>1, <1>2, <1>3 DEF NodeInv

\* Every call of main, and whatever goes wrong, preserves the invariant.
LEMMA NodeInvStep == NodeInv /\ [NodeNext]_nodeVars => NodeInv'
<1> SUFFICES ASSUME NodeInv, [NodeNext]_nodeVars PROVE NodeInv'
  OBVIOUS
<1> USE NodeAssumption DEF NodeInv, NodeTypeOK, StageInv, PlaceInv, Call
<1>1. CASE Start
  BY <1>1 DEF Start
<1>2. CASE installCNIConf
  BY <1>2 DEF installCNIConf
<1>3. CASE AddBr
  BY <1>3 DEF AddBr
<1>4. CASE SetBrUp
  BY <1>4 DEF SetBrUp
<1>5. CASE AddPort
  BY <1>5 DEF AddPort
<1>6. CASE SetNicUp
  BY <1>6 DEF SetNicUp
<1>7. CASE ListAddrs
  <2>1. ASSUME NEW a \in nic, pc = "addrlist", pc' = "addrdel", moving' = a,
               UNCHANGED <<blind, faults>>
        PROVE  NodeInv'
    BY <1>7, <2>1 DEF ListAddrs
  <2>2. CASE nic = {} /\ Call("addrlist", "linkup") /\ UNCHANGED <<moving, blind, faults>>
    BY <1>7, <2>2 DEF ListAddrs
  <2>3. ASSUME faults < MaxFaults, faults' = faults + 1, pc = "addrlist", pc' = "linkup",
               blind' = TRUE, UNCHANGED moving
        PROVE  NodeInv'
    BY <1>7, <2>3 DEF ListAddrs
  <2> QED
    BY <1>7, <2>1, <2>2, <2>3 DEF ListAddrs
<1>8. CASE DelAddr
  BY <1>8 DEF DelAddr
<1>9. CASE AddAddr
  BY <1>9 DEF AddAddr
<1>10. CASE AddAddrExists
  BY <1>10 DEF AddAddrExists
<1>11. CASE changeRoute
  BY <1>11 DEF changeRoute
<1>12. CASE NewIpamServer
  BY <1>12 DEF NewIpamServer
<1>13. CASE Run
  BY <1>13 DEF Run, Unlink
<1>14. CASE Exit
  BY <1>14 DEF Exit, Fault
<1>15. CASE Reboot
  <2>1. NodeTypeOK'
    <3>1. nicUp' \in BOOLEAN
      BY <1>15 DEF Reboot
    <3>2. faults' \in 0 .. MaxFaults
      BY <1>15 DEF Reboot, Fault
    <3>3. UNCHANGED <<os, cni, bridge, port>>
      BY <1>15 DEF Reboot
    <3> QED
      BY <1>15, <3>1, <3>2, <3>3, Zenon DEF Reboot
  <2>2. StageInv' /\ PlaceInv'
    BY <1>15 DEF Reboot
  <2> QED
    BY <2>1, <2>2
<1>16. ASSUME NEW a \in Addr, Renew(a) PROVE NodeInv'
  BY <1>16 DEF Renew, Fault
<1>17. CASE UNCHANGED nodeVars
  BY <1>17 DEF nodeVars
<1> QED
  BY <1>1, <1>2, <1>3, <1>4, <1>5, <1>6, <1>7, <1>8, <1>9, <1>10, <1>11, <1>12, <1>13,
     <1>14, <1>15, <1>16, <1>17 DEF NodeNext, Main

\* Types: no address is on a link that is not the node's, and the place main is at is one
\* of its calls (main.go:102-246).
THEOREM NodeTypeCorrect == NodeSpec => []NodeTypeOK
<1>1. NodeInv => NodeTypeOK
  BY DEF NodeInv
<1> QED
  BY NodeInvInit, NodeInvStep, <1>1, PTL DEF NodeSpec

\* However often kubeovsd dies, the machine reboots or the operating system puts
\* addresses back: when it serves, the node is connected as ServingConnected says.
THEOREM ServesConnected == NodeSpec => []ServingConnected
<1>1. NodeInv => ServingConnected
  BY DEF NodeInv, NodeTypeOK, StageInv, PlaceInv, ServingConnected
<1> QED
  BY NodeInvInit, NodeInvStep, <1>1, PTL DEF NodeSpec

================================================================================
