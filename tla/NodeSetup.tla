------------------------------- MODULE NodeSetup -------------------------------
(***************************************************************************)
(* The start of kubeovsd on a node: main of cmd/kubeovsd/main.go up to the *)
(* IPAM server that Run of pkg/daemon/handler.go serves on a unix socket.  *)
(* The process puts the physical NIC under an OVS bridge and moves the     *)
(* NIC's address there.  Between any two calls it may die or a call may    *)
(* fail, which ends it as well; the DaemonSet starts it again, and it has  *)
(* to make do with what it finds.                                          *)
(*                                                                         *)
(* The bridge, its ports and the files of /etc are persistent; addresses,  *)
(* routes, link states and /var/run go with a reboot.  The operating       *)
(* system gives the NIC its addresses at boot and may do so again (a DHCP  *)
(* renewal).  What a configuration file says is left out.                  *)
(***************************************************************************)
EXTENDS Naturals

CONSTANTS
    Addr,       \* IPv4 addresses
    Nil,        \* no address
    MaxFaults   \* bound on what goes wrong: deaths, reboots, addresses put back

ASSUME NodeAssumption ==
    /\ Nil \notin Addr
    /\ MaxFaults \in Nat

VARIABLES
    os,         \* the addresses the operating system gives the NIC
    pc,         \* the call kubeovsd is about to make, or "down", or "serve"
    cni,        \* the CNI configuration is installed
    bridge,     \* kubeovs-br exists
    port,       \* the NIC is a port of it
    brUp,       \* the bridge is up
    nicUp,      \* the NIC is up
    nic,        \* the addresses of the NIC
    br,         \* the addresses of the bridge
    routed,     \* the route of the cluster CIDR leads to the bridge
    sock,       \* kubeovs.sock: "none", "stale" (nobody listens) or "live"
    moving,     \* addrs[0] of main, or Nil
    blind,      \* this process could not list the addresses of the NIC
    torn,       \* addresses a process took from the NIC and died with, since the boot
    faults      \* what has gone wrong so far

nodeVars == <<os, pc, cni, bridge, port, brUp, nicUp, nic, br, routed, sock,
              moving, blind, torn, faults>>

\* The calls of main, in their order.
Calls == {"cniconf", "addbr", "brup", "addport", "nicup", "addrlist", "addrdel",
          "addradd", "linkup", "route", "newserver", "run"}

NodeTypeOK ==
    /\ os \subseteq Addr /\ nic \subseteq os /\ br \subseteq os /\ torn \subseteq os
    /\ pc \in Calls \cup {"down", "serve"}
    /\ cni \in BOOLEAN /\ bridge \in BOOLEAN /\ port \in BOOLEAN /\ brUp \in BOOLEAN
    /\ nicUp \in BOOLEAN /\ routed \in BOOLEAN /\ blind \in BOOLEAN
    /\ sock \in {"none", "stale", "live"}
    /\ moving \in os \cup {Nil}
    /\ faults \in 0 .. MaxFaults

NodeInit ==
    /\ os \in (SUBSET Addr) \ {{}}
    /\ pc = "down"
    /\ cni = FALSE /\ bridge = FALSE /\ port = FALSE /\ brUp = FALSE
    /\ nicUp \in BOOLEAN
    /\ nic = os /\ br = {}
    /\ routed = FALSE
    /\ sock = "none"
    /\ moving = Nil /\ blind = FALSE
    /\ torn = {}
    /\ faults = 0

--------------------------------------------------------------------------------
(***************************************************************************)
(* main                                                                    *)
(***************************************************************************)

\* The call at p returns, and q is the next one.
Call(p, q) == pc = p /\ pc' = q

\* kubelet starts the container and main reads its configuration.
Start ==
    /\ Call("down", "cniconf")
    /\ blind' = FALSE
    /\ UNCHANGED <<os, cni, bridge, port, brUp, nicUp, nic, br, routed, sock, moving, torn,
                   faults>>

installCNIConf ==
    /\ Call("cniconf", "addbr")
    /\ cni' = TRUE
    /\ UNCHANGED <<os, bridge, port, brUp, nicUp, nic, br, routed, sock, moving, blind, torn,
                   faults>>

\* ovs-vsctl --may-exist add-br
AddBr ==
    /\ Call("addbr", "brup")
    /\ bridge' = TRUE
    /\ UNCHANGED <<os, cni, port, brUp, nicUp, nic, br, routed, sock, moving, blind, torn,
                   faults>>

\* The bridge is brought up, where it is created and again after the move.
SetBrUp ==
    /\ Call("brup", "addport") \/ Call("linkup", "route")
    /\ brUp' = TRUE
    /\ UNCHANGED <<os, cni, bridge, port, nicUp, nic, br, routed, sock, moving, blind, torn,
                   faults>>

\* ovs-vsctl --may-exist add-port
AddPort ==
    /\ Call("addport", "nicup")
    /\ port' = TRUE
    /\ UNCHANGED <<os, cni, bridge, brUp, nicUp, nic, br, routed, sock, moving, blind, torn,
                   faults>>

SetNicUp ==
    /\ Call("nicup", "addrlist")
    /\ nicUp' = TRUE
    /\ UNCHANGED <<os, cni, bridge, port, brUp, nic, br, routed, sock, moving, blind, torn,
                   faults>>

\* addrs[0] is taken without a look at len(addrs) (mutant of ListAddrs).
ListAddrsUnchecked ==
    /\ Call("addrlist", "addrdel")
    /\ moving' \in IF nic = {} THEN {Nil} ELSE nic
    /\ UNCHANGED <<os, cni, bridge, port, brUp, nicUp, nic, br, routed, sock, blind, torn, faults>>

\* The address the kernel lists first is moved; the others stay.  A NIC without an
\* address, and one whose addresses cannot be listed, has been dealt with before.
ListAddrs ==
    /\ \/ \E a \in nic :
            Call("addrlist", "addrdel") /\ moving' = a /\ UNCHANGED <<blind, faults>>
       \/ nic = {} /\ Call("addrlist", "linkup") /\ UNCHANGED <<moving, blind, faults>>
       \/ /\ faults < MaxFaults /\ faults' = faults + 1
          /\ Call("addrlist", "linkup")
          /\ blind' = TRUE
          /\ UNCHANGED moving
    /\ UNCHANGED <<os, cni, bridge, port, brUp, nicUp, nic, br, routed, sock, torn>>

\* The NIC is flushed (mutant of DelAddr).
DelAddrAll ==
    /\ Call("addrdel", "addradd")
    /\ nic' = {}
    /\ UNCHANGED <<os, cni, bridge, port, brUp, nicUp, br, routed, sock, moving, blind, torn,
                   faults>>

DelAddr ==
    /\ Call("addrdel", "addradd")
    /\ nic' = nic \ {moving}
    /\ UNCHANGED <<os, cni, bridge, port, brUp, nicUp, br, routed, sock, moving, blind, torn,
                   faults>>

AddAddr ==
    /\ moving \notin br
    /\ Call("addradd", "linkup")
    /\ br' = br \cup {moving}
    /\ moving' = Nil
    /\ torn' = torn \ {moving}
    /\ UNCHANGED <<os, cni, bridge, port, brUp, nicUp, nic, routed, sock, blind, faults>>

\* The bridge has the address already: AddrAdd fails, and main with it.
AddAddrExists ==
    /\ moving \in br
    /\ Call("addradd", "down")
    /\ moving' = Nil
    /\ UNCHANGED <<os, cni, bridge, port, brUp, nicUp, nic, br, routed, sock, blind, torn,
                   faults>>

changeRoute ==
    /\ Call("route", "newserver")
    /\ routed' = TRUE
    /\ UNCHANGED <<os, cni, bridge, port, brUp, nicUp, nic, br, sock, moving, blind, torn,
                   faults>>

\* etcd answers: the store has a session.
NewIpamServer ==
    /\ Call("newserver", "run")
    /\ UNCHANGED <<os, cni, bridge, port, brUp, nicUp, nic, br, routed, sock, moving, blind,
                   torn, faults>>

\* The socket of the last process is left alone (mutant of Unlink).
UnlinkNothing(s) == s

Unlink(s) == "none"

\* Run makes its directory if need be, removes the socket and listens on a new one,
\* which fails on a file that exists.
Run ==
    /\ IF Unlink(sock) = "none"
       THEN Call("run", "serve") /\ sock' = "live"
       ELSE Call("run", "down") /\ UNCHANGED sock
    /\ UNCHANGED <<os, cni, bridge, port, brUp, nicUp, nic, br, routed, moving, blind, torn,
                   faults>>

--------------------------------------------------------------------------------
(***************************************************************************)
(* What goes wrong                                                         *)
(***************************************************************************)

Fault == faults < MaxFaults /\ faults' = faults + 1

\* The call fails, or kubeovsd is killed.
Exit ==
    /\ Fault
    /\ pc # "down"
    /\ pc' = "down"
    /\ moving' = Nil
    /\ torn' = IF pc = "addradd" THEN torn \cup ({moving} \ br) ELSE torn
    /\ sock' = IF sock = "live" THEN "stale" ELSE sock
    /\ UNCHANGED <<os, cni, bridge, port, brUp, nicUp, nic, br, routed, blind>>

\* The operating system puts an address back on the NIC.
Renew(a) ==
    /\ Fault
    /\ a \in os \ nic
    /\ nic' = nic \cup {a}
    /\ UNCHANGED <<os, pc, cni, bridge, port, brUp, nicUp, br, routed, sock, moving, blind,
                   torn>>

Reboot ==
    /\ Fault
    /\ pc' = "down"
    /\ brUp' = FALSE /\ nicUp' \in BOOLEAN
    /\ nic' = os /\ br' = {}
    /\ routed' = FALSE
    /\ sock' = "none"
    /\ moving' = Nil /\ blind' = FALSE
    /\ torn' = {}
    /\ UNCHANGED <<os, cni, bridge, port>>

--------------------------------------------------------------------------------
Main ==
    \/ Start \/ installCNIConf \/ AddBr \/ SetBrUp \/ AddPort \/ SetNicUp
    \/ ListAddrs \/ DelAddr \/ AddAddr \/ AddAddrExists
    \/ changeRoute \/ NewIpamServer \/ Run

NodeNext == Main \/ Exit \/ Reboot \/ \E a \in Addr : Renew(a)

\* kubelet restarts the container and calls return.
NodeSpec == NodeInit /\ [][NodeNext]_nodeVars /\ WF_nodeVars(Main)

--------------------------------------------------------------------------------
(***************************************************************************)
(* Properties                                                              *)
(***************************************************************************)

\* What kubeovsd has set up once it serves, however many processes died on the way
\* (main.go:102-241): the bridge is up, has the NIC and the route; every address of the
\* node is on the NIC or on the bridge, but for those a process had in its hands when it
\* died (main.go:182-188); and the move has not been skipped for a node whose address is
\* still on the NIC, unless its addresses could not be listed (main.go:173-179).
ServingConnected ==
    pc = "serve" =>
        /\ cni /\ bridge /\ port /\ brUp /\ nicUp /\ routed
        /\ sock = "live"
        /\ os \subseteq nic \cup br \cup torn
        /\ torn = {} /\ ~ blind => br # {}

\* Whatever a dead process, a reboot or the operating system leaves behind (a stale
\* socket, handler.go:70; half a set-up; an address on both links, main.go:188), once
\* nothing goes wrong any more kubeovsd serves and goes on serving.
NodeServes == <>[](pc = "serve")

================================================================================
