---------------------------- MODULE CniPluginProofs ----------------------------
(***************************************************************************)
(* Theorems about the CNI plugin, for any number of containers and         *)
(* addresses, whatever fails and whoever is killed.                        *)
(***************************************************************************)
EXTENDS CniPlugin, TLAPS

\* The interface and the port of a container, where its plugin is.
LinkInv(c) ==
    /\ c \in veth => c \in netns
    /\ c \notin veth => conf[c] = {} /\ (c \in netns => ports[c] = 0)
    /\ ports[c] \in {0, 1}
    /\ pc[c] \in AddPC => c \in netns
    /\ pc[c] \in {"port", "linkup", "add", "configure", "refetch"} => c \in veth
    /\ pc[c] = "port" => ports[c] = 0
    /\ pc[c] \in {"linkup", "add", "configure", "refetch"} => ports[c] = 1
    /\ pc[c] \in {"port", "linkup", "add", "configure"} => conf[c] = {}
    /\ pc[c] = "refetch" => conf[c] = {req[c]}
    /\ pc[c] \in {"find", "delport"} => c \in path
    /\ pc[c] = "delport" => ports[c] = 1
    /\ pc[c] = "del" /\ c \in path => ports[c] = 0
    /\ pc[c] = "del" /\ c \notin path => c \notin netns
    /\ pc[c] = "dellink" => ports[c] = 0
    /\ phase[c] = "up" /\ pc[c] = "idle" => c \in veth /\ ports[c] = 1
    /\ phase[c] = "down" /\ pc[c] = "idle" /\ c \in netns => c \notin veth /\ ports[c] = 0

\* The keys of a container in the store.
KeyInv(c) ==
    /\ \A a, b \in Addr : owner[a] = c /\ owner[b] = c => a = b
    /\ c \notin veth /\ c \in netns => \A a \in Addr : owner[a] # c
    /\ pc[c] \in {"port", "linkup", "add", "dellink"} => \A a \in Addr : owner[a] # c
    /\ pc[c] \in {"configure", "refetch"} => owner[req[c]] = c
    /\ phase[c] = "up" /\ pc[c] = "idle" => \E a \in Addr : conf[c] = {a} /\ owner[a] = c
    /\ c \in veth /\ ports[c] = 1 => \A a \in conf[c] : owner[a] = c

\* A request that outlived its plugin.
OrphanInv(c) ==
    /\ orphan[c] # {} => pc[c] = "idle" /\ phase[c] = "failed"
    /\ \A r, s \in orphan[c] : r = s
    /\ \A r \in orphan[c] :
        IF r = Del THEN c \notin veth \/ ports[c] = 0
        ELSE /\ c \in veth \/ c \notin netns
             /\ conf[c] = {}
             /\ \A a \in Addr : owner[a] # c

CniInv ==
    /\ CniTypeOK
    /\ \A c \in Container : LinkInv(c)
    /\ \A c \in Container \ overtaken : KeyInv(c) /\ OrphanInv(c)

\* A step for c changes nothing of the other containers.
Frame(c) ==
    \A d \in Container \ {c} :
        /\ (d \in netns') <=> (d \in netns)
        /\ (d \in veth') <=> (d \in veth)
        /\ (d \in path') <=> (d \in path)
        /\ (d \in overtaken') <=> (d \in overtaken)
        /\ ports'[d] = ports[d] /\ conf'[d] = conf[d] /\ pc'[d] = pc[d]
        /\ req'[d] = req[d] /\ phase'[d] = phase[d] /\ orphan'[d] = orphan[d]
        /\ \A a \in Addr : (owner'[a] = d) <=> (owner[a] = d)

\* What a step for c has to do for the invariant.
KeepsInv(c) ==
    /\ CniTypeOK'
    /\ Frame(c)
    /\ LinkInv(c)'
    /\ c \notin overtaken' => KeyInv(c)' /\ OrphanInv(c)'

\* A container keeps its invariants when nothing of it changes.
LEMMA FrameKeepsInv ==
    ASSUME CniInv, NEW c \in Container, KeepsInv(c)
    PROVE  CniInv'
<1> SUFFICES ASSUME NEW d \in Container
             PROVE  LinkInv(d)' /\ (d \notin overtaken' => KeyInv(d)' /\ OrphanInv(d)')
  BY DEF CniInv, KeepsInv
<1>1. CASE d = c
  BY <1>1 DEF KeepsInv
<1>2. CASE d # c
  <2>0. /\ (d \in netns') <=> (d \in netns)
        /\ (d \in veth') <=> (d \in veth)
        /\ (d \in path') <=> (d \in path)
        /\ (d \in overtaken') <=> (d \in overtaken)
        /\ ports'[d] = ports[d] /\ conf'[d] = conf[d] /\ pc'[d] = pc[d]
        /\ req'[d] = req[d] /\ phase'[d] = phase[d] /\ orphan'[d] = orphan[d]
        /\ \A a \in Addr : (owner'[a] = d) <=> (owner[a] = d)
    BY <1>2 DEF KeepsInv, Frame
  <2>1. LinkInv(d)'
    <3>1. LinkInv(d)
      BY DEF CniInv
    <3>2. QED
      BY <2>0, <3>1 DEF LinkInv
  <2>2. ASSUME d \notin overtaken' PROVE KeyInv(d)'
    <3>1. KeyInv(d) /\ req[d] \in Addr /\ conf[d] \subseteq Addr
      BY <2>0, <2>2 DEF CniInv, CniTypeOK
    <3>2. QED
      BY <2>0, <3>1 DEF KeyInv
  <2>3. ASSUME d \notin overtaken' PROVE OrphanInv(d)'
    <3>1. OrphanInv(d)
      BY <2>0, <2>3 DEF CniInv
    <3>2. QED
      BY <2>0, <3>1 DEF OrphanInv
  <2>4. QED
    BY <2>1, <2>2, <2>3
<1>3. QED
  BY <1>1, <1>2

\* A Release for c takes away keys of c only.
LEMMA ReleasedFacts ==
    ASSUME NEW o \in [Addr -> Container \cup {None}], NEW c \in Container,
           NEW p \in Released(o, c)
    PROVE  /\ p \in [Addr -> Container \cup {None}]
           /\ \A a \in Addr : p[a] = o[a] \/ (o[a] = c /\ p[a] = None)
  BY DEF Released

\* An Add for c that fails gives c at most the address it asked for, if that was free,
\* and takes away keys of c only.
LEMMA FailedAddFacts ==
    ASSUME NEW o \in [Addr -> Container \cup {None}], NEW c \in Container, NEW r \in Addr,
           NEW p \in UNION {Released(q, c) : q \in Reserved(o, r, c)}
    PROVE  /\ p \in [Addr -> Container \cup {None}]
           /\ \A a \in Addr : \/ p[a] = o[a]
                              \/ o[a] = c /\ p[a] = None
                              \/ o[a] = None /\ a = r /\ p[a] \in {c, None}
<1>1. PICK q \in Reserved(o, r, c) : p \in Released(q, c)
  OBVIOUS
<1>2. /\ q \in [Addr -> Container \cup {None}]
      /\ \A a \in Addr : q[a] = o[a] \/ (o[a] = None /\ a = r /\ q[a] = c)
  BY DEF Reserved
<1>3. /\ p \in [Addr -> Container \cup {None}]
      /\ \A a \in Addr : p[a] = q[a] \/ (q[a] = c /\ p[a] = None)
  BY <1>1, <1>2, ReleasedFacts
<1>4. QED
  BY <1>2, <1>3

\* The steps of cmdAdd keep the invariant (plugin.go:356-463).
LEMMA AddKeepsInv ==
    ASSUME CniInv, NEW c \in Container,
           AddBegin(c) \/ SetupVeth(c) \/ AddPort(c) \/ LinkUp(c) \/ AskIpam(c) \/ Configure(c) \/ AddEnd(c)
    PROVE  KeepsInv(c)
<1> USE CniAssumption
<1> USE DEF CniTypeOK, AddPC, DelPC, Goto, Return, linkVars, runVars, lateVars
<1>0. CniTypeOK /\ LinkInv(c) /\ (c \notin overtaken => KeyInv(c) /\ OrphanInv(c))
  BY DEF CniInv
<1>1. CASE AddBegin(c)
  <2>1. CniTypeOK'
    BY <1>0, <1>1 DEF AddBegin, Overtakes
  <2>2. Frame(c)
    BY <1>0, <1>1 DEF AddBegin, Overtakes, Frame
  <2>3. LinkInv(c)'
    BY <1>0, <1>1 DEF AddBegin, Overtakes, LinkInv
  <2>4. ASSUME c \notin overtaken' PROVE KeyInv(c)'
    BY <1>0, <1>1, <2>4 DEF AddBegin, Overtakes, LinkInv, KeyInv, OrphanInv
  <2>5. ASSUME c \notin overtaken' PROVE OrphanInv(c)'
    BY <1>0, <1>1, <2>5 DEF AddBegin, Overtakes, LinkInv, KeyInv, OrphanInv
  <2>6. QED
    BY <2>1, <2>2, <2>3, <2>4, <2>5 DEF KeepsInv
<1>2. CASE SetupVeth(c)
  <2>1. CniTypeOK'
    BY <1>0, <1>2 DEF SetupVeth
  <2>2. Frame(c)
    BY <1>0, <1>2 DEF SetupVeth, Frame
  <2>3. LinkInv(c)'
    BY <1>0, <1>2 DEF SetupVeth, LinkInv
  <2>4. ASSUME c \notin overtaken' PROVE KeyInv(c)'
    BY <1>0, <1>2, <2>4 DEF SetupVeth, LinkInv, KeyInv, OrphanInv
  <2>5. ASSUME c \notin overtaken' PROVE OrphanInv(c)'
    BY <1>0, <1>2, <2>5 DEF SetupVeth, LinkInv, KeyInv, OrphanInv
  <2>6. QED
    BY <2>1, <2>2, <2>3, <2>4, <2>5 DEF KeepsInv
<1>3. CASE AddPort(c)
  <2>1. CniTypeOK'
    BY <1>0, <1>3 DEF AddPort
  <2>2. Frame(c)
    BY <1>0, <1>3 DEF AddPort, Frame
  <2>3. LinkInv(c)'
    BY <1>0, <1>3 DEF AddPort, LinkInv
  <2>4. ASSUME c \notin overtaken' PROVE KeyInv(c)'
    BY <1>0, <1>3, <2>4 DEF AddPort, LinkInv, KeyInv, OrphanInv
  <2>5. ASSUME c \notin overtaken' PROVE OrphanInv(c)'
    BY <1>0, <1>3, <2>5 DEF AddPort, LinkInv, KeyInv, OrphanInv
  <2>6. QED
    BY <2>1, <2>2, <2>3, <2>4, <2>5 DEF KeepsInv
<1>4. CASE LinkUp(c)
  <2>1. CniTypeOK'
    BY <1>0, <1>4 DEF LinkUp
  <2>2. Frame(c)
    BY <1>0, <1>4 DEF LinkUp, Frame
  <2>3. LinkInv(c)'
    BY <1>0, <1>4 DEF LinkUp, LinkInv
  <2>4. ASSUME c \notin overtaken' PROVE KeyInv(c)'
    BY <1>0, <1>4, <2>4 DEF LinkUp, LinkInv, KeyInv, OrphanInv
  <2>5. ASSUME c \notin overtaken' PROVE OrphanInv(c)'
    BY <1>0, <1>4, <2>5 DEF LinkUp, LinkInv, KeyInv, OrphanInv
  <2>6. QED
    BY <2>1, <2>2, <2>3, <2>4, <2>5 DEF KeepsInv
<1>5. CASE AskIpam(c)
  <2>0. /\ owner' \in [Addr -> Container \cup {None}]
        /\ \A a \in Addr : \/ owner'[a] = owner[a]
                           \/ owner[a] = c /\ owner'[a] = None
                           \/ owner[a] = None /\ a = req[c] /\ owner'[a] \in {c, None}
    <3>1. CASE owner' = [owner EXCEPT ![req[c]] = c] /\ owner[req[c]] = None
      BY <1>0, <3>1
    <3>2. CASE owner' \in UNION {Released(o, c) : o \in Reserved(owner, req[c], c)}
      <4>1. req[c] \in Addr /\ owner \in [Addr -> Container \cup {None}]
        BY <1>0
      <4>2. QED
        BY <3>2, <4>1, FailedAddFacts
    <3>3. QED
      BY <1>5, <3>1, <3>2 DEF AskIpam
  <2>1. CniTypeOK'
    BY <1>0, <1>5, <2>0 DEF AskIpam
  <2>2. Frame(c)
    BY <1>0, <1>5, <2>0 DEF AskIpam, Frame
  <2>3. LinkInv(c)'
    BY <1>0, <1>5 DEF AskIpam, LinkInv
  <2>4. ASSUME c \notin overtaken' PROVE KeyInv(c)'
    BY <1>0, <1>5, <2>4, <2>0 DEF AskIpam, LinkInv, KeyInv, OrphanInv
  <2>5. ASSUME c \notin overtaken' PROVE OrphanInv(c)'
    BY <1>0, <1>5, <2>5, <2>0 DEF AskIpam, LinkInv, KeyInv, OrphanInv
  <2>6. QED
    BY <2>1, <2>2, <2>3, <2>4, <2>5 DEF KeepsInv
<1>6. CASE Configure(c)
  <2>1. CniTypeOK'
    BY <1>0, <1>6 DEF Configure
  <2>2. Frame(c)
    BY <1>0, <1>6 DEF Configure, Frame
  <2>3. LinkInv(c)'
    BY <1>0, <1>6 DEF Configure, LinkInv
  <2>4. ASSUME c \notin overtaken' PROVE KeyInv(c)'
    BY <1>0, <1>6, <2>4 DEF Configure, LinkInv, KeyInv, OrphanInv
  <2>5. ASSUME c \notin overtaken' PROVE OrphanInv(c)'
    BY <1>0, <1>6, <2>5 DEF Configure, LinkInv, KeyInv, OrphanInv
  <2>6. QED
    BY <2>1, <2>2, <2>3, <2>4, <2>5 DEF KeepsInv
<1>7. CASE AddEnd(c)
  <2>1. CniTypeOK'
    BY <1>0, <1>7 DEF AddEnd
  <2>2. Frame(c)
    BY <1>0, <1>7 DEF AddEnd, Frame
  <2>3. LinkInv(c)'
    BY <1>0, <1>7 DEF AddEnd, LinkInv
  <2>4. ASSUME c \notin overtaken' PROVE KeyInv(c)'
    BY <1>0, <1>7, <2>4 DEF AddEnd, LinkInv, KeyInv, OrphanInv
  <2>5. ASSUME c \notin overtaken' PROVE OrphanInv(c)'
    BY <1>0, <1>7, <2>5 DEF AddEnd, LinkInv, KeyInv, OrphanInv
  <2>6. QED
    BY <2>1, <2>2, <2>3, <2>4, <2>5 DEF KeepsInv
<1>8. QED
  BY <1>1, <1>2, <1>3, <1>4, <1>5, <1>6, <1>7

\* The steps of cmdDel keep the invariant (plugin.go:466-535).
LEMMA DelKeepsInv ==
    ASSUME CniInv, NEW c \in Container,
           DelBegin(c) \/ FindPort(c) \/ DelPort(c) \/ ReleaseIP(c) \/ DelLink(c)
    PROVE  KeepsInv(c)
<1> USE CniAssumption
<1> USE DEF CniTypeOK, AddPC, DelPC, Goto, Return, linkVars, runVars, lateVars
<1>0. CniTypeOK /\ LinkInv(c) /\ (c \notin overtaken => KeyInv(c) /\ OrphanInv(c))
  BY DEF CniInv
<1>1. CASE DelBegin(c)
  <2>1. CniTypeOK'
    BY <1>0, <1>1 DEF DelBegin, Overtakes
  <2>2. Frame(c)
    BY <1>0, <1>1 DEF DelBegin, Overtakes, Frame
  <2>3. LinkInv(c)'
    BY <1>0, <1>1 DEF DelBegin, Overtakes, LinkInv
  <2>4. ASSUME c \notin overtaken' PROVE KeyInv(c)'
    BY <1>0, <1>1, <2>4 DEF DelBegin, Overtakes, LinkInv, KeyInv, OrphanInv
  <2>5. ASSUME c \notin overtaken' PROVE OrphanInv(c)'
    BY <1>0, <1>1, <2>5 DEF DelBegin, Overtakes, LinkInv, KeyInv, OrphanInv
  <2>6. QED
    BY <2>1, <2>2, <2>3, <2>4, <2>5 DEF KeepsInv
<1>2. CASE FindPort(c)
  <2>1. CniTypeOK'
    BY <1>0, <1>2 DEF FindPort
  <2>2. Frame(c)
    BY <1>0, <1>2 DEF FindPort, Frame
  <2>3. LinkInv(c)'
    BY <1>0, <1>2 DEF FindPort, LinkInv
  <2>4. ASSUME c \notin overtaken' PROVE KeyInv(c)'
    BY <1>0, <1>2, <2>4 DEF FindPort, LinkInv, KeyInv, OrphanInv
  <2>5. ASSUME c \notin overtaken' PROVE OrphanInv(c)'
    BY <1>0, <1>2, <2>5 DEF FindPort, LinkInv, KeyInv, OrphanInv
  <2>6. QED
    BY <2>1, <2>2, <2>3, <2>4, <2>5 DEF KeepsInv
<1>3. CASE DelPort(c)
  <2>0. /\ ports[c] = 1
        /\ \/ ports' = [ports EXCEPT ![c] = 0] /\ Goto(c, "del") /\ UNCHANGED phase
           \/ ports' \in {ports, [ports EXCEPT ![c] = 0]} /\ Return(c, "failed")
        /\ UNCHANGED <<netns, veth, conf, owner, path, req, lateVars>>
    <3>1. ports[c] = 1 /\ ports[c] - 1 = 0
      BY <1>0, <1>3 DEF DelPort, LinkInv
    <3>2. QED
      BY <1>3, <3>1 DEF DelPort
  <2>1. CniTypeOK'
    BY <1>0, <2>0
  <2>2. Frame(c)
    BY <1>0, <2>0 DEF Frame
  <2>3. LinkInv(c)'
    BY <1>0, <1>3, <2>0 DEF DelPort, LinkInv
  <2>4. ASSUME c \notin overtaken' PROVE KeyInv(c)'
    BY <1>0, <2>0, <2>4 DEF LinkInv, KeyInv
  <2>5. ASSUME c \notin overtaken' PROVE OrphanInv(c)'
    BY <1>0, <1>3, <2>0, <2>5 DEF DelPort, OrphanInv
  <2>6. QED
    BY <2>1, <2>2, <2>3, <2>4, <2>5 DEF KeepsInv
<1>4. CASE ReleaseIP(c)
  <2>0. /\ owner' \in [Addr -> Container \cup {None}]
        /\ \A a \in Addr : owner'[a] = owner[a] \/ (owner[a] = c /\ owner'[a] = None)
    <3>1. owner' = owner \/ owner' \in Released(owner, c)
      BY <1>4 DEF ReleaseIP
    <3>2. QED
      BY <1>0, <3>1, ReleasedFacts
  <2>1. CniTypeOK'
    BY <1>0, <1>4, <2>0 DEF ReleaseIP, AfterRelease
  <2>2. Frame(c)
    BY <1>0, <1>4, <2>0 DEF ReleaseIP, AfterRelease, Frame
  <2>3. LinkInv(c)'
    BY <1>0, <1>4 DEF ReleaseIP, AfterRelease, LinkInv
  <2>4. ASSUME c \notin overtaken' PROVE KeyInv(c)'
    <3>1. c \notin overtaken /\ KeyInv(c) /\ UNCHANGED <<linkVars, req>> /\ pc[c] = "del"
      BY <1>0, <1>4, <2>4 DEF ReleaseIP
    <3>2. c \notin veth \/ ports[c] = 0
      BY <1>0, <3>1 DEF LinkInv
    <3>3. \/ pc'[c] = "idle" /\ phase'[c] \in {"down", "failed"}
          \/ pc'[c] = "dellink" /\ \A a \in Addr : owner'[a] # c
      <4>1. CASE Return(c, "failed") \/ Return(c, "down")
        BY <1>0, <4>1
      <4>2. ASSUME AfterRelease(c), c \in path,
                   owner' \in IF Owned(c) = {} THEN {owner} ELSE Released(owner, c) \ {owner}
            PROVE  pc'[c] = "dellink" /\ \A a \in Addr : owner'[a] # c
        <5>1. pc'[c] = "dellink"
          BY <1>0, <4>2 DEF AfterRelease
        <5>2. CASE Owned(c) = {}
          BY <4>2, <5>1, <5>2 DEF Owned
        <5>3. CASE Owned(c) # {}
          <6>1. PICK a \in Addr : owner[a] = c /\ owner' = [owner EXCEPT ![a] = None]
            BY <4>2, <5>3 DEF Released
          <6>2. \A b \in Addr : b # a => owner[b] # c
            BY <3>1, <6>1 DEF KeyInv
          <6>3. QED
            BY <1>0, <5>1, <6>1, <6>2
        <5>4. QED
          BY <5>2, <5>3
      <4>3. QED
        BY <1>4, <4>1, <4>2 DEF ReleaseIP, AfterRelease
    <3>4. QED
      BY <1>0, <2>0, <3>1, <3>2, <3>3 DEF KeyInv
  <2>5. ASSUME c \notin overtaken' PROVE OrphanInv(c)'
    BY <1>0, <1>4, <2>5, <2>0 DEF ReleaseIP, AfterRelease, LinkInv, KeyInv, OrphanInv
  <2>6. QED
    BY <2>1, <2>2, <2>3, <2>4, <2>5 DEF KeepsInv
<1>5. CASE DelLink(c)
  <2>1. CniTypeOK'
    BY <1>0, <1>5 DEF DelLink
  <2>2. Frame(c)
    BY <1>0, <1>5 DEF DelLink, Frame
  <2>3. LinkInv(c)'
    BY <1>0, <1>5 DEF DelLink, LinkInv
  <2>4. ASSUME c \notin overtaken' PROVE KeyInv(c)'
    BY <1>0, <1>5, <2>4 DEF DelLink, LinkInv, KeyInv, OrphanInv
  <2>5. ASSUME c \notin overtaken' PROVE OrphanInv(c)'
    BY <1>0, <1>5, <2>5 DEF DelLink, LinkInv, KeyInv, OrphanInv
  <2>6. QED
    BY <2>1, <2>2, <2>3, <2>4, <2>5 DEF KeepsInv
<1>6. QED
  BY <1>1, <1>2, <1>3, <1>4, <1>5

\* Killed plugins, orphaned requests and lost namespaces keep it.
LEMMA WorldKeepsInv ==
    ASSUME CniInv, NEW c \in Container,
           Kill(c) \/ IpamEndsOrphan(c) \/ NetnsGone(c)
    PROVE  KeepsInv(c)
<1> USE CniAssumption
<1> USE DEF CniTypeOK, AddPC, DelPC, Goto, Return, linkVars, runVars, lateVars
<1>0. CniTypeOK /\ LinkInv(c) /\ (c \notin overtaken => KeyInv(c) /\ OrphanInv(c))
  BY DEF CniInv
<1>1. CASE Kill(c)
  <2>1. CniTypeOK'
    BY <1>0, <1>1 DEF Kill
  <2>2. Frame(c)
    BY <1>0, <1>1 DEF Kill, Frame
  <2>3. LinkInv(c)'
    BY <1>0, <1>1 DEF Kill, LinkInv
  <2>4. ASSUME c \notin overtaken' PROVE KeyInv(c)'
    BY <1>0, <1>1, <2>4 DEF Kill, LinkInv, KeyInv, OrphanInv
  <2>5. ASSUME c \notin overtaken' PROVE OrphanInv(c)'
    BY <1>0, <1>1, <2>5 DEF Kill, LinkInv, KeyInv, OrphanInv
  <2>6. QED
    BY <2>1, <2>2, <2>3, <2>4, <2>5 DEF KeepsInv
<1>2. CASE IpamEndsOrphan(c)
  <2>0. PICK r \in orphan[c] :
            /\ orphan' = [orphan EXCEPT ![c] = @ \ {r}]
            /\ owner' \in [Addr -> Container \cup {None}]
            /\ \A a \in Addr : \/ owner'[a] = owner[a]
                               \/ owner[a] = c /\ owner'[a] = None
                               \/ r # Del /\ owner[a] = None /\ a = r /\ owner'[a] \in {c, None}
    <3>1. PICK r \in orphan[c] :
            /\ orphan' = [orphan EXCEPT ![c] = @ \ {r}]
            /\ owner' \in IF r = Del THEN Released(owner, c)
                          ELSE UNION {Released(o, c) : o \in Reserved(owner, r, c)}
      BY <1>2 DEF IpamEndsOrphan
    <3>2. ASSUME r = Del
          PROVE  /\ owner' \in [Addr -> Container \cup {None}]
                 /\ \A a \in Addr : owner'[a] = owner[a] \/ (owner[a] = c /\ owner'[a] = None)
      <4>1. owner' \in Released(owner, c)
        BY <3>1, <3>2
      <4>2. QED
        BY <1>0, <4>1, ReleasedFacts
    <3>3. ASSUME r # Del
          PROVE  /\ owner' \in [Addr -> Container \cup {None}]
                 /\ \A a \in Addr : \/ owner'[a] = owner[a]
                                    \/ owner[a] = c /\ owner'[a] = None
                                    \/ owner[a] = None /\ a = r /\ owner'[a] \in {c, None}
      <4>1. r \in Addr /\ owner \in [Addr -> Container \cup {None}]
        BY <1>0, <3>1, <3>3
      <4>2. owner' \in UNION {Released(o, c) : o \in Reserved(owner, r, c)}
        BY <3>1, <3>3
      <4>3. QED
        BY <4>1, <4>2, FailedAddFacts
    <3>4. QED
      BY <3>1, <3>2, <3>3
  <2>1. CniTypeOK'
    BY <1>0, <1>2, <2>0 DEF IpamEndsOrphan
  <2>2. Frame(c)
    BY <1>0, <1>2, <2>0 DEF IpamEndsOrphan, Frame
  <2>3. LinkInv(c)'
    BY <1>0, <1>2 DEF IpamEndsOrphan, LinkInv
  <2>4. ASSUME c \notin overtaken' PROVE KeyInv(c)'
    BY <1>0, <1>2, <2>4, <2>0 DEF IpamEndsOrphan, LinkInv, KeyInv, OrphanInv
  <2>5. ASSUME c \notin overtaken' PROVE OrphanInv(c)'
    BY <1>0, <1>2, <2>5, <2>0 DEF IpamEndsOrphan, LinkInv, KeyInv, OrphanInv
  <2>6. QED
    BY <2>1, <2>2, <2>3, <2>4, <2>5 DEF KeepsInv
<1>3. CASE NetnsGone(c)
  <2>1. CniTypeOK'
    BY <1>0, <1>3 DEF NetnsGone
  <2>2. Frame(c)
    BY <1>0, <1>3 DEF NetnsGone, Frame
  <2>3. LinkInv(c)'
    BY <1>0, <1>3 DEF NetnsGone, LinkInv
  <2>4. ASSUME c \notin overtaken' PROVE KeyInv(c)'
    BY <1>0, <1>3, <2>4 DEF NetnsGone, LinkInv, KeyInv, OrphanInv
  <2>5. ASSUME c \notin overtaken' PROVE OrphanInv(c)'
    BY <1>0, <1>3, <2>5 DEF NetnsGone, LinkInv, KeyInv, OrphanInv
  <2>6. QED
    BY <2>1, <2>2, <2>3, <2>4, <2>5 DEF KeepsInv
<1>4. QED
  BY <1>1, <1>2, <1>3

\* The invariant is inductive.
LEMMA CniInvInductive ==
    /\ CniInit => CniInv
    /\ CniInv /\ [CniNext]_cniVars => CniInv'
<1>1. CniInit => CniInv
  BY CniAssumption DEF CniInit, CniInv, CniTypeOK, LinkInv, KeyInv, OrphanInv, AddPC, DelPC
<1>2. ASSUME CniInv, NEW c \in Container, KeepsInv(c) PROVE CniInv'
  BY <1>2, FrameKeepsInv
<1>3. ASSUME CniInv, CniNext PROVE CniInv'
  <2>1. PICK c \in Container :
          \/ AddBegin(c) \/ SetupVeth(c) \/ AddPort(c) \/ LinkUp(c) \/ AskIpam(c)
          \/ Configure(c) \/ AddEnd(c)
          \/ DelBegin(c) \/ FindPort(c) \/ DelPort(c) \/ ReleaseIP(c) \/ DelLink(c)
          \/ Kill(c) \/ IpamEndsOrphan(c) \/ NetnsGone(c)
    BY <1>3 DEF CniNext
  <2>2. KeepsInv(c)
    BY <1>3, <2>1, AddKeepsInv, DelKeepsInv, WorldKeepsInv
  <2>3. QED
    BY <1>2, <1>3, <2>2
<1>4. ASSUME CniInv, UNCHANGED cniVars PROVE CniInv'
  BY <1>4 DEF cniVars, linkVars, runVars, lateVars, CniInv, CniTypeOK, LinkInv, KeyInv,
              OrphanInv
<1>5. QED
  BY <1>1, <1>3, <1>4

\* The invariant implies what it is for.
LEMMA CniInvImplies ==
    CniInv => /\ CniTypeOK /\ WireReserved /\ UpMeansConnected
              /\ DelCleans /\ OneReservation /\ OnePort
<1> SUFFICES ASSUME CniInv
             PROVE  /\ CniTypeOK /\ WireReserved /\ UpMeansConnected
                    /\ DelCleans /\ OneReservation /\ OnePort
  OBVIOUS
<1>0. \A c \in Container : ports[c] \in {0, 1}
  BY DEF CniInv, LinkInv
<1>5. OnePort
  <2> SUFFICES ASSUME NEW c \in Container PROVE ports[c] <= 1
    BY DEF OnePort
  <2>1. CASE ports[c] = 0
    BY <2>1
  <2>2. CASE ports[c] = 1
    BY <2>2
  <2>3. QED
    BY <1>0, <2>1, <2>2
<1> USE DEF CniInv, CniTypeOK
<1>1. WireReserved
  BY DEF WireReserved, OnWire, LinkInv, KeyInv
<1>2. UpMeansConnected
  <2> SUFFICES ASSUME NEW c \in Container \ overtaken, phase[c] = "up", pc[c] = "idle"
               PROVE  /\ c \in veth /\ ports[c] = 1
                      /\ \E a \in Addr : conf[c] = {a} /\ Owned(c) = {a}
    BY DEF UpMeansConnected
  <2>1. PICK a \in Addr : conf[c] = {a} /\ owner[a] = c
    BY DEF KeyInv
  <2>2. Owned(c) = {a}
    BY <2>1 DEF KeyInv, Owned
  <2>3. QED
    BY <2>1, <2>2 DEF LinkInv
<1>3. DelCleans
  BY DEF DelCleans, Owned, LinkInv, KeyInv
<1>4. OneReservation
  BY DEF OneReservation, Owned, KeyInv
<1>6. QED
  BY <1>1, <1>2, <1>3, <1>4, <1>5

\* The plugin keeps its types whatever fails and whoever is killed.
THEOREM CniTypeCorrect == CniSpec => []CniTypeOK
<1>1. CniInv /\ [CniNext]_cniVars => CniInv'
  BY CniInvInductive
<1>2. QED
  BY <1>1, CniInvInductive, CniInvImplies, PTL DEF CniSpec

\* An address is reserved as long as its container is on the bridge with it
\* (plugin.go:483, 507).
THEOREM AddressesOnWireReserved == CniSpec => []WireReserved
<1>1. CniInv /\ [CniNext]_cniVars => CniInv'
  BY CniInvInductive
<1>2. QED
  BY <1>1, CniInvInductive, CniInvImplies, PTL DEF CniSpec

\* An ADD that reported success has put interface, port and address in place, and they
\* stay until the next DEL (plugin.go:356-463).
THEOREM UpIsConnected == CniSpec => []UpMeansConnected
<1>1. CniInv /\ [CniNext]_cniVars => CniInv'
  BY CniInvInductive
<1>2. QED
  BY <1>1, CniInvInductive, CniInvImplies, PTL DEF CniSpec

\* A DEL with a Netns that reported success has left nothing (plugin.go:466-535).
THEOREM DelsClean == CniSpec => []DelCleans
<1>1. CniInv /\ [CniNext]_cniVars => CniInv'
  BY CniInvInductive
<1>2. QED
  BY <1>1, CniInvInductive, CniInvImplies, PTL DEF CniSpec

\* A container has one key at most, however often ADD and DEL are repeated, fail or are
\* killed (plugin.go:381).
THEOREM OneKey == CniSpec => []OneReservation
<1>1. CniInv /\ [CniNext]_cniVars => CniInv'
  BY CniInvInductive
<1>2. QED
  BY <1>1, CniInvInductive, CniInvImplies, PTL DEF CniSpec

\* A container has one port at most, so that the one findPort takes is the only one
\* (plugin.go:338).
THEOREM SinglePort == CniSpec => []OnePort
<1>1. CniInv /\ [CniNext]_cniVars => CniInv'
  BY CniInvInductive
<1>2. QED
  BY <1>1, CniInvInductive, CniInvImplies, PTL DEF CniSpec

================================================================================
