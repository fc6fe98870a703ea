------------------------------- MODULE CniPlugin -------------------------------
(***************************************************************************)
(* The CNI plugin (cmd/cni/plugin.go) on one node: cmdAdd and cmdDel over  *)
(* network namespaces, veth pairs, ports of the OVS bridge and the IPAM    *)
(* server of the node, one step per command or call that changes one of    *)
(* them.  Every step may fail, and the plugin may be killed between two.   *)
(*                                                                         *)
(* The IPAM server is seen from outside: a request is carried out in one   *)
(* step, and an address goes only to a container when it is free, as       *)
(* AddressPool promises.  A failed Add may or may not leave its address    *)
(* behind and releases one key of the container; Del releases one key.     *)
(***************************************************************************)
EXTENDS Naturals

CONSTANTS
    Container,      \* container IDs, each with its own network namespace
    Addr,           \* the addresses getAvailableIP chooses from
    None,           \* no container
    Del,            \* a /del request, where an address stands for an /add request
    Faults,         \* TRUE: commands and calls may fail
    Kills           \* TRUE: the runtime may kill the plugin

ASSUME CniAssumption ==
    None \notin Container /\ Del \notin Addr /\ {Faults, Kills} \subseteq BOOLEAN

VARIABLES
    netns,      \* containers whose network namespace exists
    veth,       \* containers with a veth pair
    ports,      \* ports[c]: OVS ports with the external-ids of c
    conf,       \* conf[c]: addresses configured on the interface of c
    owner,      \* owner[a]: the container in the store's key for a, or None
    pc,         \* pc[c]: where the plugin is that runs for c
    path,       \* containers whose plugin was given a Netns
    req,        \* req[c]: the address it asked for
    phase,      \* phase[c]: what the runtime knows of c
    orphan,     \* orphan[c]: requests of killed plugins the IPAM server still works on
    overtaken   \* containers for which a plugin started in spite of such a request

linkVars == <<netns, veth, ports, conf>>
runVars == <<pc, path, req, phase>>
lateVars == <<orphan, overtaken>>
cniVars == <<linkVars, owner, runVars, lateVars>>

Owned(c) == {a \in Addr : owner[a] = c}

AddPC == {"veth", "port", "linkup", "add", "configure", "refetch"}
DelPC == {"find", "delport", "del", "dellink"}

CniTypeOK ==
    /\ netns \subseteq Container /\ veth \subseteq Container
    /\ ports \in [Container -> Nat]
    /\ conf \in [Container -> SUBSET Addr]
    /\ owner \in [Addr -> Container \cup {None}]
    /\ pc \in [Container -> {"idle"} \cup AddPC \cup DelPC]
    /\ path \subseteq Container
    /\ req \in [Container -> Addr]
    /\ phase \in [Container -> {"new", "adding", "up", "failed", "down"}]
    /\ orphan \in [Container -> SUBSET (Addr \cup {Del})]
    /\ overtaken \subseteq Container

\* The runtime has made the namespaces.
CniInit ==
    /\ netns = Container /\ veth = {}
    /\ ports = [c \in Container |-> 0]
    /\ conf = [c \in Container |-> {}]
    /\ owner = [a \in Addr |-> None]
    /\ pc = [c \in Container |-> "idle"]
    /\ path = {}
    /\ req \in [Container -> Addr]
    /\ phase = [c \in Container |-> "new"]
    /\ orphan = [c \in Container |-> {}]
    /\ overtaken = {}

Goto(c, p) == pc' = [pc EXCEPT ![c] = p]

Return(c, result) ==
    /\ Goto(c, "idle")
    /\ phase' = [phase EXCEPT ![c] = result]

\* What may have become of the store o after a Release for c that may have failed.
Released(o, c) == {o} \cup {[o EXCEPT ![a] = None] : a \in {b \in Addr : o[b] = c}}

\* What may have become of it after a Reserve of a for c that may have failed.
Reserved(o, a, c) == {o} \cup {[o EXCEPT ![b] = c] : b \in {d \in {a} : o[d] = None}}

--------------------------------------------------------------------------------
(***************************************************************************)
(* cmdAdd                                                                  *)
(***************************************************************************)

Overtakes(c) == overtaken' = IF orphan[c] = {} THEN overtaken ELSE overtaken \cup {c}

\* The runtime runs the plugin, which finds the bridge and the namespace.
AddBegin(c) ==
    /\ pc[c] = "idle" /\ phase[c] # "up"
    /\ Overtakes(c)
    /\ \/ /\ c \in netns
          /\ Goto(c, "veth")
          /\ phase' = [phase EXCEPT ![c] = "adding"]
       \/ (c \notin netns \/ Faults) /\ Return(c, "failed")
    /\ UNCHANGED <<linkVars, owner, path, req, orphan>>

\* An interface that exists is taken over (mutant of SetupVeth).
SetupVethAgain(c) ==
    /\ pc[c] = "veth"
    /\ veth' = veth \cup {c}
    /\ Goto(c, "port")
    /\ UNCHANGED <<netns, ports, conf, owner, path, req, phase, lateVars>>

\* makeVeth fails when the container has the interface; the pair stays when one of the
\* later steps fails.
SetupVeth(c) ==
    /\ pc[c] = "veth"
    /\ \/ c \notin veth /\ veth' = veth \cup {c} /\ Goto(c, "port") /\ UNCHANGED phase
       \/ c \in veth /\ UNCHANGED veth /\ Return(c, "failed")
       \/ Faults /\ veth' \in {veth, veth \cup {c}} /\ Return(c, "failed")
    /\ UNCHANGED <<netns, ports, conf, owner, path, req, lateVars>>

\* The host's end has a random name, hence a port of its own.
AddPort(c) ==
    /\ pc[c] = "port"
    /\ \/ ports' = [ports EXCEPT ![c] = @ + 1] /\ Goto(c, "linkup") /\ UNCHANGED phase
       \/ /\ Faults
          /\ ports' \in {ports, [ports EXCEPT ![c] = @ + 1]}
          /\ Return(c, "failed")
    /\ UNCHANGED <<netns, veth, conf, owner, path, req, lateVars>>

\* A link that is not found is a nil interface, on which LinkSetUp panics.  The address
\* to ask for is a random one.
LinkUp(c) ==
    /\ pc[c] = "linkup"
    /\ \/ /\ \E a \in Addr : req' = [req EXCEPT ![c] = a]
          /\ Goto(c, "add")
          /\ UNCHANGED phase
       \/ Faults /\ UNCHANGED req /\ Return(c, "failed")
    /\ UNCHANGED <<linkVars, owner, path, lateVars>>

\* POST /add.  An error, a status other than 200 and an answer without a result (which
\* leaves the address reserved) all end cmdAdd, and nothing is cleaned up.
AskIpam(c) ==
    /\ pc[c] = "add"
    /\ \/ /\ owner[req[c]] = None
          /\ owner' = [owner EXCEPT ![req[c]] = c]
          /\ Goto(c, "configure")
          /\ UNCHANGED phase
       \/ /\ Faults \/ owner[req[c]] # None
          /\ owner' \in UNION {Released(o, c) : o \in Reserved(owner, req[c], c)}
          /\ Return(c, "failed")
    /\ UNCHANGED <<linkVars, path, req, lateVars>>

\* The error of ConfigureIface is dropped (mutant of Configure).
ConfigureAnyway(c) ==
    /\ pc[c] = "configure"
    /\ \/ conf' = [conf EXCEPT ![c] = @ \cup {req[c]}]
       \/ Faults /\ UNCHANGED conf
    /\ Goto(c, "refetch")
    /\ UNCHANGED <<netns, veth, ports, owner, path, req, phase, lateVars>>

Configure(c) ==
    /\ pc[c] = "configure"
    /\ \/ /\ conf' = [conf EXCEPT ![c] = @ \cup {req[c]}]
          /\ Goto(c, "refetch")
          /\ UNCHANGED phase
       \/ /\ Faults
          /\ conf' \in {conf, [conf EXCEPT ![c] = @ \cup {req[c]}]}
          /\ Return(c, "failed")
    /\ UNCHANGED <<netns, veth, ports, owner, path, req, lateVars>>

AddEnd(c) ==
    /\ pc[c] = "refetch"
    /\ Return(c, "up") \/ (Faults /\ Return(c, "failed"))
    /\ UNCHANGED <<linkVars, owner, path, req, lateVars>>

--------------------------------------------------------------------------------
(***************************************************************************)
(* cmdDel                                                                  *)
(***************************************************************************)

\* The runtime leaves out Netns only if the namespace is gone.
DelBegin(c) ==
    /\ pc[c] = "idle"
    /\ Overtakes(c)
    /\ \/ path' = path \cup {c} /\ Goto(c, "find")
       \/ c \notin netns /\ path' = path \ {c} /\ Goto(c, "del")
    /\ UNCHANGED <<linkVars, owner, req, phase, orphan>>

\* A port that is not there is no error (mutant of FindPort).
FindPortAny(c) ==
    /\ pc[c] = "find"
    /\ Goto(c, "delport")
    /\ UNCHANGED <<linkVars, owner, path, req, phase, lateVars>>

\* The port is found and not deleted (mutant of FindPort).
FindPortOnly(c) ==
    /\ pc[c] = "find"
    /\ \/ ports[c] > 0 /\ Goto(c, "del") /\ UNCHANGED phase
       \/ (ports[c] = 0 \/ Faults) /\ Return(c, "failed")
    /\ UNCHANGED <<linkVars, owner, path, req, lateVars>>

\* Without a port that has the external-ids cmdDel ends with an error.
FindPort(c) ==
    /\ pc[c] = "find"
    /\ \/ ports[c] > 0 /\ Goto(c, "delport") /\ UNCHANGED phase
       \/ (ports[c] = 0 \/ Faults) /\ Return(c, "failed")
    /\ UNCHANGED <<linkVars, owner, path, req, lateVars>>

\* The first port that was found is deleted.
DelPort(c) ==
    /\ pc[c] = "delport"
    /\ \/ ports' = [ports EXCEPT ![c] = @ - 1] /\ Goto(c, "del") /\ UNCHANGED phase
       \/ /\ Faults
          /\ ports' \in {ports, [ports EXCEPT ![c] = @ - 1]}
          /\ Return(c, "failed")
    /\ UNCHANGED <<netns, veth, conf, owner, path, req, lateVars>>

\* After /del there is nothing left to do without a Netns.
AfterRelease(c) ==
    IF c \in path THEN Goto(c, "dellink") /\ UNCHANGED phase ELSE Return(c, "down")

\* The status of /del is not looked at (mutant of ReleaseIP).
ReleaseIPAnyStatus(c) ==
    /\ pc[c] = "del"
    /\ owner' \in Released(owner, c)
    /\ AfterRelease(c)
    /\ UNCHANGED <<linkVars, path, req, lateVars>>

\* POST /del.
ReleaseIP(c) ==
    /\ pc[c] = "del"
    /\ \/ /\ owner' \in IF Owned(c) = {} THEN {owner} ELSE Released(owner, c) \ {owner}
          /\ AfterRelease(c)
       \/ /\ Faults
          /\ owner' \in Released(owner, c)
          /\ Return(c, "failed")
    /\ UNCHANGED <<linkVars, path, req, lateVars>>

\* An interface that is gone is no error, a namespace that is gone is one.
DelLink(c) ==
    /\ pc[c] = "dellink"
    /\ \/ /\ c \in netns
          /\ veth' = veth \ {c} /\ conf' = [conf EXCEPT ![c] = {}]
          /\ Return(c, "down")
       \/ /\ c \notin netns \/ Faults
          /\ UNCHANGED <<veth, conf>>
          /\ Return(c, "failed")
    /\ UNCHANGED <<netns, ports, owner, path, req, lateVars>>

--------------------------------------------------------------------------------
(***************************************************************************)
(* The world around the plugin                                             *)
(***************************************************************************)

\* The runtime kills the plugin (a timeout, a restart).  The IPAM server goes on with
\* the request the plugin waits for.
Kill(c) ==
    /\ Kills /\ pc[c] # "idle"
    /\ orphan' = [orphan EXCEPT ![c] = @ \cup CASE pc[c] = "add" -> {req[c]}
                                                [] pc[c] = "del" -> {Del}
                                                [] OTHER -> {}]
    /\ Return(c, "failed")
    /\ UNCHANGED <<linkVars, owner, path, req, overtaken>>

\* It ends such a request, well or not.
IpamEndsOrphan(c) ==
    /\ \E r \in orphan[c] :
        /\ orphan' = [orphan EXCEPT ![c] = @ \ {r}]
        /\ owner' \in IF r = Del THEN Released(owner, c)
                      ELSE UNION {Released(o, c) : o \in Reserved(owner, r, c)}
    /\ UNCHANGED <<linkVars, runVars, overtaken>>

\* The namespace goes, and with it the interface; the database of OVS keeps the port.
NetnsGone(c) ==
    /\ pc[c] = "idle" /\ c \in netns
    /\ netns' = netns \ {c} /\ veth' = veth \ {c}
    /\ conf' = [conf EXCEPT ![c] = {}]
    /\ phase' = [phase EXCEPT ![c] = "failed"]
    /\ UNCHANGED <<ports, owner, pc, path, req, lateVars>>

CniNext ==
    \E c \in Container :
        \/ AddBegin(c) \/ SetupVeth(c) \/ AddPort(c) \/ LinkUp(c) \/ AskIpam(c)
        \/ Configure(c) \/ AddEnd(c)
        \/ DelBegin(c) \/ FindPort(c) \/ DelPort(c) \/ ReleaseIP(c) \/ DelLink(c)
        \/ Kill(c) \/ IpamEndsOrphan(c) \/ NetnsGone(c)

CniSpec == CniInit /\ [][CniNext]_cniVars

--------------------------------------------------------------------------------
(***************************************************************************)
(* Properties                                                              *)
(***************************************************************************)

\* The addresses with which c can be reached through the bridge.
OnWire(c) == IF c \in veth /\ ports[c] > 0 THEN conf[c] ELSE {}

\* No address is released while its container is on the bridge with it: cmdDel deletes
\* the port before it releases the address (plugin.go:483, 507), and a failed Add leaves
\* the addresses of others alone.  Hence no two containers are on the wire with one
\* address.  Containers whose plugin was killed in a call are left out once the next
\* plugin has overtaken that call.
WireReserved ==
    \A c \in Container \ overtaken : \A a \in OnWire(c) : owner[a] = c

\* ADD reported success (plugin.go:463): interface, port and address are in place until
\* the next DEL.
UpMeansConnected ==
    \A c \in Container \ overtaken :
        phase[c] = "up" /\ pc[c] = "idle" =>
            /\ c \in veth /\ ports[c] = 1
            /\ \E a \in Addr : conf[c] = {a} /\ Owned(c) = {a}

\* DEL with a Netns reported success: nothing is left of the container (plugin.go:466).
DelCleans ==
    \A c \in Container \ overtaken :
        phase[c] = "down" /\ pc[c] = "idle" /\ c \in netns =>
            c \notin veth /\ ports[c] = 0 /\ Owned(c) = {}

\* The store has one key for a container, however often ADD is repeated: a second ADD
\* fails before it asks, as the interface exists (plugin.go:381).  One key is all that
\* the server's Del releases.
OneReservation ==
    \A c \in Container \ overtaken : \A a, b \in Owned(c) : a = b

\* A container has at most one port: findPort takes the first it finds (plugin.go:338).
OnePort == \A c \in Container : ports[c] <= 1

\* "Delete can be called multiple times so don't return an error if the device is already
\* removed" (plugin.go:521): DEL after a DEL that succeeded succeeds, when no command
\* fails, nobody is killed and the namespace is still there.
DelRepeats ==
    [][\A c \in netns :
        phase[c] = "down" /\ pc[c] # "idle" => phase'[c] # "failed"]_cniVars

================================================================================
