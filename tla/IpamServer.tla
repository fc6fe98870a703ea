------------------------------- MODULE IpamServer -------------------------------
(***************************************************************************)
(* The IPAM servers of the cluster: one kubeovsd per node serving /add,    *)
(* /del and /check (pkg/daemon/handler.go) with the IPAllocator of         *)
(* allocator.go over the etcd store of backend.go, under the lock of       *)
(* EtcdMutex.                                                              *)
(*                                                                         *)
(* A handler goroutine takes one step per call of etcd: between two steps  *)
(* any other goroutine of any node may run.  The lock is not assumed to    *)
(* work: it is the model of EtcdMutex, driven from here.                   *)
(***************************************************************************)
EXTENDS EtcdMutex, AddrRange, FiniteSets

CONSTANTS
    Container,      \* container IDs (with the interface name)
    Home,           \* Home[c]: the node c runs on, whose kubeovsd it asks
    None,           \* no container
    Ranges,         \* ipamConf.Ranges: a sequence of range sets
    Requests,       \* the sets of addresses an ADD may ask for; Nil does not parse
    KVErrors,       \* TRUE: reads and writes of the store may fail
    RetryAdd,       \* TRUE: the runtime repeats a failed ADD without a DEL
    GivesUp,        \* TRUE: the runtime may stop waiting for an answer
    BadResolvConf   \* TRUE: the file resolvConf names may be unreadable

NumAllocs == Len(Ranges)

IP == UNION {Addresses(Ranges[i]) : i \in DOMAIN Ranges}

ASSUME ServerAssumption ==
    /\ Home \in [Container -> Node]
    /\ None \notin Container
    /\ Len(Ranges) \in Nat \ {0} /\ DOMAIN Ranges = 1 .. Len(Ranges)
    /\ \A i \in DOMAIN Ranges : WellFormedSet(Ranges[i])
    /\ \A S \in Requests : S \subseteq Nat \cup {Nil}
    /\ {KVErrors, RetryAdd, GivesUp, BadResolvConf} \subseteq BOOLEAN

VARIABLES
    owner,      \* owner[a]: the container in the store's key for a, or None
    last,       \* last[i]: last_reserved_ip.<i>, or Nil
    pc,         \* pc[h]: where handler h is
    mode,       \* mode[h]: what it is doing
    cont,       \* cont[h]: the container of its request
    want,       \* want[h]: requestedIPs that no allocator has taken yet
    ask,        \* ask[h]: requestedIP of the running Get, or Nil
    alloc,      \* alloc[h]: the allocator it is at
    got,        \* got[h]: allocatedIPs
    cand,       \* cand[h]: the address whose key it is about to read, write or delete
    iter,       \* iter[h]: its RangeIter, or Nil
    gone,       \* handlers whose client does not wait any more
    phase,      \* phase[c]: how c stands with the container runtime
    asked,      \* asked[c]: the addresses of its last ADD
    held        \* held[c]: the addresses the runtime was told c has

storeVars == <<owner, last>>
reqVars == <<mode, cont, want, ask, alloc, got, cand, iter>>
envVars == <<gone, phase, asked, held>>
vars == <<lockVars, storeVars, pc, reqVars, envVars>>

Owned(c) == {a \in IP : owner[a] = c}

\* Where Lock is called, and where the deferred Unlock runs.
Locking == {"get", "rel", "chk"}
Unlocking == {"gotok", "goterr", "relok", "relerr", "found", "missing"}

PC == {"idle", "pick", "iter", "resv", "put", "putlast", "del"} \cup Locking \cup Unlocking

ServerTypeOK ==
    /\ owner \in [IP -> Container \cup {None}]
    /\ last \in [1 .. NumAllocs -> IP \cup {Nil}]
    /\ pc \in [Handler -> PC]
    /\ mode \in [Handler -> {"none", "add", "undo", "del", "delerr", "check"}]
    /\ cont \in [Handler -> Container \cup {None}]
    /\ want \in [Handler -> SUBSET (Nat \cup {Nil})]
    /\ ask \in [Handler -> IP \cup {Nil}]
    /\ alloc \in [Handler -> 1 .. NumAllocs + 1]
    /\ got \in [Handler -> SUBSET IP]
    /\ cand \in [Handler -> IP \cup {Nil}]
    /\ iter \in [Handler -> Iterator \cup {Nil}]
    /\ gone \subseteq Handler
    /\ phase \in [Container -> {"absent", "busy", "up", "failed"}]
    /\ asked \in [Container -> SUBSET (Nat \cup {Nil})]
    /\ held \in [Container -> SUBSET IP]

TypeOK == LockTypeOK /\ ServerTypeOK

Init ==
    /\ LockInit
    /\ owner = [a \in IP |-> None]
    /\ last = [i \in 1 .. NumAllocs |-> Nil]
    /\ pc = [h \in Handler |-> "idle"]
    /\ mode = [h \in Handler |-> "none"]
    /\ cont = [h \in Handler |-> None]
    /\ want = [h \in Handler |-> {}]
    /\ ask = [h \in Handler |-> Nil]
    /\ alloc = [h \in Handler |-> 1]
    /\ got = [h \in Handler |-> {}]
    /\ cand = [h \in Handler |-> Nil]
    /\ iter = [h \in Handler |-> Nil]
    /\ gone = {}
    /\ phase = [c \in Container |-> "absent"]
    /\ asked = [c \in Container |-> {}]
    /\ held = [c \in Container |-> {}]

Goto(h, p) == pc' = [pc EXCEPT ![h] = p]

--------------------------------------------------------------------------------
(***************************************************************************)
(* Requests                                                                *)
(***************************************************************************)

\* A handler begins to serve a request for c.
Begin(h, c, m, p, ips) ==
    /\ pc[h] = "idle" /\ NodeOf[h] \in up /\ Home[c] = NodeOf[h]
    /\ Goto(h, p)
    /\ mode' = [mode EXCEPT ![h] = m]
    /\ cont' = [cont EXCEPT ![h] = c]
    /\ want' = [want EXCEPT ![h] = ips]
    /\ UNCHANGED <<lockVars, storeVars, ask, alloc, got, cand, iter, gone>>

\* The variables of a handler that is not serving a request.
Finish(h) ==
    /\ Goto(h, "idle")
    /\ mode' = [mode EXCEPT ![h] = "none"]
    /\ cont' = [cont EXCEPT ![h] = None]
    /\ want' = [want EXCEPT ![h] = {}]
    /\ ask' = [ask EXCEPT ![h] = Nil]
    /\ alloc' = [alloc EXCEPT ![h] = 1]
    /\ got' = [got EXCEPT ![h] = {}]
    /\ cand' = [cand EXCEPT ![h] = Nil]
    /\ iter' = [iter EXCEPT ![h] = Nil]
    /\ gone' = gone \ {h}

AddRecv(h, c, ips) ==
    /\ phase[c] = "absent" \/ (RetryAdd /\ phase[c] = "failed")
    /\ Begin(h, c, "add", "pick", ips)
    /\ phase' = [phase EXCEPT ![c] = "busy"]
    /\ asked' = [asked EXCEPT ![c] = ips]
    /\ UNCHANGED held

\* The runtime has taken the container's interface down, or is about to.  DEL may come
\* more than once, and after an ADD that failed.
DelRecv(h, c) ==
    /\ phase[c] # "busy"
    /\ Begin(h, c, "del", "rel", {})
    /\ phase' = [phase EXCEPT ![c] = "busy"]
    /\ asked' = [asked EXCEPT ![c] = {}]
    /\ held' = [held EXCEPT ![c] = {}]

CheckRecv(h, c) ==
    /\ phase[c] = "up"
    /\ Begin(h, c, "check", "chk", {})
    /\ UNCHANGED <<phase, asked, held>>

\* The runtime kills the plugin that waits for the answer.
GiveUp(h) ==
    /\ GivesUp
    /\ pc[h] # "idle" /\ mode[h] # "check" /\ h \notin gone
    /\ gone' = gone \cup {h}
    /\ phase' = [phase EXCEPT ![cont[h]] = "failed"]
    /\ UNCHANGED <<lockVars, storeVars, pc, reqVars, asked, held>>

--------------------------------------------------------------------------------
(***************************************************************************)
(* Add                                                                     *)
(***************************************************************************)

\* The range set of allocator i.  NewIpamServer takes the address of its loop variable,
\* so that every allocator has the last one.
Rangeset(i) == Ranges[NumAllocs]

\* The requested address is not looked for (mutant of PickRequested).
PickRequestedAny(h) ==
    /\ pc[h] = "pick" /\ alloc[h] <= NumAllocs
    /\ ask' = [ask EXCEPT ![h] = Nil]
    /\ want' = [want EXCEPT ![h] = {}]
    /\ Goto(h, "get")
    /\ UNCHANGED <<lockVars, storeVars, mode, cont, alloc, got, cand, iter, envVars>>

\* Any requested address in the range set becomes the argument of Get: the order of a
\* Go map is random.
PickRequested(h) ==
    LET fits == {a \in want[h] : SetContains(Rangeset(alloc[h]), a)} IN
    /\ pc[h] = "pick" /\ alloc[h] <= NumAllocs
    /\ \/ \E a \in fits :
            /\ ask' = [ask EXCEPT ![h] = a]
            /\ want' = [want EXCEPT ![h] = @ \ {a}]
       \/ fits = {} /\ UNCHANGED <<ask, want>>
    /\ Goto(h, "get")
    /\ UNCHANGED <<lockVars, storeVars, mode, cont, alloc, got, cand, iter, envVars>>

\* What net.ParseIP makes of the key of address a: keys are whole paths.
ParsedKey(a) == Nil

GetByID(c) == {ParsedKey(a) : a \in Owned(c)} \ {Nil}

\* Get has the lock, or the error of Lock that it ignores, and a requested address.
GetRequested(h) ==
    LET rs == Rangeset(alloc[h]) IN
    /\ pc[h] = "get" /\ lpc[h] = "crit"
    /\ ask[h] # Nil
    /\ IF IsGateway(rs[RangeFor(rs, ask[h])], ask[h])
       THEN Goto(h, "goterr") /\ UNCHANGED cand
       ELSE Goto(h, "resv") /\ cand' = [cand EXCEPT ![h] = ask[h]]
    /\ UNCHANGED <<lockVars, storeVars, mode, cont, want, ask, alloc, got, iter, envVars>>

\* Get without a requested address: refuse a container that has one, else start from
\* the last reserved address, or from the beginning when that cannot be read.
GetDynamic(h) ==
    LET rs == Rangeset(alloc[h]) IN
    /\ pc[h] = "get" /\ lpc[h] = "crit"
    /\ ask[h] = Nil
    /\ \/ /\ \E a \in GetByID(cont[h]) : SetContains(rs, a)
          /\ Goto(h, "goterr")
          /\ UNCHANGED iter
       \/ /\ \A a \in GetByID(cont[h]) : ~ SetContains(rs, a)
          /\ Goto(h, "iter")
          /\ \/ iter' = [iter EXCEPT ![h] = GetIter(rs, last[alloc[h]])]
             \/ KVErrors /\ iter' = [iter EXCEPT ![h] = GetIter(rs, Nil)]
    /\ UNCHANGED <<lockVars, storeVars, mode, cont, want, ask, alloc, got, cand, envVars>>

GetNext(h) ==
    LET step == IterStep(Rangeset(alloc[h]), iter[h]) IN
    /\ pc[h] = "iter"
    /\ iter' = [iter EXCEPT ![h] = step.iter]
    /\ \/ step.out = "nil" /\ Goto(h, "goterr") /\ UNCHANGED cand
       \/ step.out = "skip" /\ UNCHANGED <<pc, cand>>
       \/ step.out = "ip" /\ Goto(h, "resv") /\ cand' = [cand EXCEPT ![h] = step.iter.cur]
    /\ UNCHANGED <<lockVars, storeVars, mode, cont, want, ask, alloc, got, envVars>>

--------------------------------------------------------------------------------
(***************************************************************************)
(* Store.Reserve                                                           *)
(***************************************************************************)

\* The key is written without a look (mutant of ReserveGet).
ReserveGetBlind(h) ==
    /\ pc[h] = "resv"
    /\ Goto(h, "put")
    /\ UNCHANGED <<lockVars, storeVars, reqVars, envVars>>

\* Reserve reads the key.  A taken address fails a request for it; an iterator goes on.
ReserveGet(h) ==
    /\ pc[h] = "resv"
    /\ \/ owner[cand[h]] = None /\ Goto(h, "put")
       \/ owner[cand[h]] # None /\ Goto(h, IF ask[h] = Nil THEN "iter" ELSE "goterr")
       \/ KVErrors /\ Goto(h, "goterr")
    /\ UNCHANGED <<lockVars, storeVars, reqVars, envVars>>

\* It writes the key, whoever has written it meanwhile; a failed Put may be applied.
ReservePut(h) ==
    /\ pc[h] = "put"
    /\ \/ owner' = [owner EXCEPT ![cand[h]] = cont[h]] /\ Goto(h, "putlast")
       \/ KVErrors /\ owner' = [owner EXCEPT ![cand[h]] = cont[h]] /\ Goto(h, "goterr")
       \/ KVErrors /\ UNCHANGED owner /\ Goto(h, "goterr")
    /\ UNCHANGED <<lockVars, last, reqVars, envVars>>

\* Get returns the requested address, not the reserved one (mutant of ReserveLast).
ReserveLastAsked(h) ==
    /\ pc[h] = "putlast"
    /\ \/ /\ last' = [last EXCEPT ![alloc[h]] = cand[h]]
          /\ got' = [got EXCEPT ![h] = @ \cup {ask[h]}]
          /\ Goto(h, "gotok")
       \/ /\ KVErrors
          /\ last' \in {last, [last EXCEPT ![alloc[h]] = cand[h]]}
          /\ Goto(h, "goterr")
          /\ UNCHANGED got
    /\ UNCHANGED <<lockVars, owner, mode, cont, want, ask, alloc, cand, iter, envVars>>

\* It writes the last reserved address; the key stays when that fails.
ReserveLast(h) ==
    /\ pc[h] = "putlast"
    /\ \/ /\ last' = [last EXCEPT ![alloc[h]] = cand[h]]
          /\ got' = [got EXCEPT ![h] = @ \cup {cand[h]}]
          /\ Goto(h, "gotok")
       \/ /\ KVErrors
          /\ last' \in {last, [last EXCEPT ![alloc[h]] = cand[h]]}
          /\ Goto(h, "goterr")
          /\ UNCHANGED got
    /\ UNCHANGED <<lockVars, owner, mode, cont, want, ask, alloc, cand, iter, envVars>>

\* Get has returned: on to the next allocator, or release what there is.
AfterGet(h) ==
    /\ pc[h] \in {"gotok", "goterr"} /\ lpc[h] = "idle"
    /\ IF pc[h] = "gotok"
       THEN /\ alloc' = [alloc EXCEPT ![h] = @ + 1]
            /\ Goto(h, "pick")
            /\ UNCHANGED mode
       ELSE /\ alloc' = [alloc EXCEPT ![h] = 1]
            /\ Goto(h, "rel")
            /\ mode' = [mode EXCEPT ![h] = "undo"]
    /\ ask' = [ask EXCEPT ![h] = Nil]
    /\ cand' = [cand EXCEPT ![h] = Nil]
    /\ iter' = [iter EXCEPT ![h] = Nil]
    /\ UNCHANGED <<lockVars, storeVars, cont, want, got, envVars>>

\* Every allocator has given an address, but a requested one is left over.
AddUnfulfilled(h) ==
    /\ pc[h] = "pick" /\ alloc[h] = NumAllocs + 1
    /\ want[h] # {}
    /\ alloc' = [alloc EXCEPT ![h] = 1]
    /\ mode' = [mode EXCEPT ![h] = "undo"]
    /\ Goto(h, "rel")
    /\ UNCHANGED <<lockVars, storeVars, cont, want, ask, got, cand, iter, envVars>>

\* The answer, if somebody waits for it.
AddReply(h) ==
    /\ pc[h] = "pick" /\ alloc[h] = NumAllocs + 1
    /\ want[h] = {}
    /\ held' = IF h \in gone THEN held ELSE [held EXCEPT ![cont[h]] = got[h]]
    /\ phase' = IF h \in gone THEN phase ELSE [phase EXCEPT ![cont[h]] = "up"]
    /\ Finish(h)
    /\ UNCHANGED <<lockVars, storeVars, asked>>

\* resolvConf is set and cannot be read or parsed: the handler returns with the
\* addresses reserved, and the plugin rejects the empty body of its answer.
AddReplyEmpty(h) ==
    /\ BadResolvConf
    /\ pc[h] = "pick" /\ alloc[h] = NumAllocs + 1
    /\ want[h] = {}
    /\ phase' = IF h \in gone THEN phase ELSE [phase EXCEPT ![cont[h]] = "failed"]
    /\ Finish(h)
    /\ UNCHANGED <<lockVars, storeVars, asked, held>>

--------------------------------------------------------------------------------
(***************************************************************************)
(* Release, for Del and for an Add that failed                             *)
(***************************************************************************)

\* A key of any container is taken for the right one (mutant of ReleaseList).
ReleaseListAny(h) ==
    /\ pc[h] = "rel" /\ lpc[h] = "crit"
    /\ \/ \E k \in IP : owner[k] # None /\ cand' = [cand EXCEPT ![h] = k] /\ Goto(h, "del")
       \/ (\A k \in IP : owner[k] = None) /\ UNCHANGED cand /\ Goto(h, "relok")
    /\ UNCHANGED <<lockVars, storeVars, mode, cont, want, ask, alloc, got, iter, envVars>>

\* ReleaseByKey lists the keys and goes for the first that names the container.  The
\* second look, for keys of an older version, finds none.
ReleaseList(h) ==
    /\ pc[h] = "rel" /\ lpc[h] = "crit"
    /\ \/ \E k \in Owned(cont[h]) : cand' = [cand EXCEPT ![h] = k] /\ Goto(h, "del")
       \/ Owned(cont[h]) = {} /\ UNCHANGED cand /\ Goto(h, "relok")
       \/ KVErrors /\ UNCHANGED cand /\ Goto(h, "relerr")
    /\ UNCHANGED <<lockVars, storeVars, mode, cont, want, ask, alloc, got, iter, envVars>>

\* It deletes that key, whatever is in it by now, and returns.
ReleaseDelete(h) ==
    /\ pc[h] = "del"
    /\ \/ owner' = [owner EXCEPT ![cand[h]] = None] /\ Goto(h, "relok")
       \/ KVErrors /\ owner' = [owner EXCEPT ![cand[h]] = None] /\ Goto(h, "relerr")
       \/ KVErrors /\ UNCHANGED owner /\ Goto(h, "relerr")
    /\ UNCHANGED <<lockVars, last, reqVars, envVars>>

\* Del stops after its first allocator (mutant of LastRelease).
LastReleaseFirst(h) == TRUE

\* Every allocator has had its Release.
LastRelease(h) == alloc[h] = NumAllocs

\* Only Del keeps the error of a Release.
AfterError(h) == IF mode[h] = "del" /\ pc[h] = "relerr" THEN "delerr" ELSE mode[h]

ReleaseNext(h) ==
    /\ pc[h] \in {"relok", "relerr"} /\ lpc[h] = "idle"
    /\ ~ LastRelease(h)
    /\ alloc' = [alloc EXCEPT ![h] = @ + 1]
    /\ mode' = [mode EXCEPT ![h] = AfterError(h)]
    /\ cand' = [cand EXCEPT ![h] = Nil]
    /\ Goto(h, "rel")
    /\ UNCHANGED <<lockVars, storeVars, cont, want, ask, got, iter, envVars>>

\* A Del that succeeded leaves the container absent; the runtime tries again after one
\* that did not, and after an Add that failed.
ReleaseReply(h) ==
    /\ pc[h] \in {"relok", "relerr"} /\ lpc[h] = "idle"
    /\ LastRelease(h)
    /\ phase' = IF h \in gone THEN phase
                ELSE [phase EXCEPT ![cont[h]] =
                        IF AfterError(h) = "del" THEN "absent" ELSE "failed"]
    /\ Finish(h)
    /\ UNCHANGED <<lockVars, storeVars, asked, held>>

--------------------------------------------------------------------------------
(***************************************************************************)
(* Check                                                                   *)
(***************************************************************************)

\* Only keys of the older version are looked for (mutant of FindByID).
FindByIDOld(h) ==
    /\ pc[h] = "chk" /\ lpc[h] = "crit"
    /\ Goto(h, "missing")
    /\ UNCHANGED <<lockVars, storeVars, reqVars, envVars>>

\* FindByKey lists the keys and looks for one that names the container.
FindByID(h) ==
    /\ pc[h] = "chk" /\ lpc[h] = "crit"
    /\ \/ Owned(cont[h]) # {} /\ Goto(h, "found")
       \/ Owned(cont[h]) = {} /\ Goto(h, "missing")
       \/ KVErrors /\ Goto(h, "missing")
    /\ UNCHANGED <<lockVars, storeVars, reqVars, envVars>>

CheckReply(h) ==
    /\ pc[h] \in {"found", "missing"} /\ lpc[h] = "idle"
    /\ Finish(h)
    /\ UNCHANGED <<lockVars, storeVars, phase, asked, held>>

--------------------------------------------------------------------------------
(***************************************************************************)
(* The lock, and processes that die                                        *)
(***************************************************************************)

\* Lock is called where the code calls it, and Unlock is deferred to the return.
LockCall(h) ==
    /\ \/ pc[h] \in Locking /\ (LockTxn(h) \/ LockFail(h))
       \/ LockResp(h) \/ LockTest(h) \/ LockWait(h) \/ LockWaitErr(h)
       \/ pc[h] \in Unlocking /\ UnlockSend(h)
       \/ UnlockDelete(h) \/ UnlockFail(h) \/ UnlockReset(h)
    /\ UNCHANGED <<storeVars, pc, reqVars, envVars>>

\* kubeovsd dies: its requests break off wherever they are, containers live on.
Die(n) ==
    /\ Crash(n)
    /\ pc' = [h \in Handler |-> IF NodeOf[h] = n THEN "idle" ELSE pc[h]]
    /\ mode' = [h \in Handler |-> IF NodeOf[h] = n THEN "none" ELSE mode[h]]
    /\ cont' = [h \in Handler |-> IF NodeOf[h] = n THEN None ELSE cont[h]]
    /\ want' = [h \in Handler |-> IF NodeOf[h] = n THEN {} ELSE want[h]]
    /\ ask' = [h \in Handler |-> IF NodeOf[h] = n THEN Nil ELSE ask[h]]
    /\ alloc' = [h \in Handler |-> IF NodeOf[h] = n THEN 1 ELSE alloc[h]]
    /\ got' = [h \in Handler |-> IF NodeOf[h] = n THEN {} ELSE got[h]]
    /\ cand' = [h \in Handler |-> IF NodeOf[h] = n THEN Nil ELSE cand[h]]
    /\ iter' = [h \in Handler |-> IF NodeOf[h] = n THEN Nil ELSE iter[h]]
    /\ gone' = {h \in gone : NodeOf[h] # n}
    /\ phase' = [c \in Container |->
                    IF Home[c] = n /\ phase[c] = "busy" THEN "failed" ELSE phase[c]]
    /\ UNCHANGED <<storeVars, asked, held>>

--------------------------------------------------------------------------------
Serve(h) ==
    \/ PickRequested(h) \/ GetRequested(h) \/ GetDynamic(h) \/ GetNext(h)
    \/ ReserveGet(h) \/ ReservePut(h) \/ ReserveLast(h) \/ AfterGet(h)
    \/ AddUnfulfilled(h) \/ AddReply(h) \/ AddReplyEmpty(h)
    \/ ReleaseList(h) \/ ReleaseDelete(h) \/ ReleaseNext(h) \/ ReleaseReply(h)
    \/ FindByID(h) \/ CheckReply(h)

Request(h) ==
    \E c \in Container :
        (\E ips \in Requests : AddRecv(h, c, ips)) \/ DelRecv(h, c) \/ CheckRecv(h, c)

Next ==
    \/ \E h \in Handler : Request(h) \/ GiveUp(h) \/ Serve(h) \/ LockCall(h)
    \/ \E n \in Node : Die(n)
    \/ \E n \in Node : Restart(n) /\ UNCHANGED <<storeVars, pc, reqVars, envVars>>
    \/ \E l \in Lease : Expire(l) /\ UNCHANGED <<storeVars, pc, reqVars, envVars>>

Spec == Init /\ [][Next]_vars

(***************************************************************************)
(* Goroutines run and etcd answers; a dead process's lease runs out.       *)
(***************************************************************************)
Fairness ==
    /\ \A h \in Handler : WF_vars(Serve(h) \/ LockCall(h))
    /\ \A l \in Lease : WF_vars(Expire(l) /\ UNCHANGED <<storeVars, pc, reqVars, envVars>>)

LiveSpec == Spec /\ Fairness

--------------------------------------------------------------------------------
(***************************************************************************)
(* Properties                                                              *)
(***************************************************************************)

\* Pods on different nodes never get the same address (docs/ipam-design.md): no address
\* has been handed to two containers.
NoConflict ==
    \A c, d \in Container : c # d => held[c] \cap held[d] = {}

\* What the runtime was told is what the store says: the keys that name a running
\* container are those of the addresses it was given, no fewer (or another container
\* could get one) and no more (a duplicate allocation).
GrantExact ==
    \A c \in Container : held[c] = IF phase[c] = "up" THEN Owned(c) ELSE {}

\* After a DEL that succeeded no key names the container: nothing is left behind that
\* nobody will ever release (allocator.go:123).
NoLeak == \A c \in Container : phase[c] = "absent" => Owned(c) = {}

\* "if an IP was requested that wasn't fullfilled, fail" (handler.go:131): a running
\* container has every address that was asked for.
RequestHonoured == \A c \in Container : phase[c] = "up" => asked[c] \subseteq held[c]

\* a is in a range of the range set in use, and is not the gateway of that range.
MayHandOut(a) ==
    \E j \in DOMAIN Rangeset(1) :
        a \in Members(Rangeset(1)[j]) /\ a # Rangeset(1)[j].gw

\* The gateway of a range is never reserved (allocator.go:61, 198, 223), whatever fails.
GatewayFree ==
    \A a \in IP :
        owner[a] # None \/ (\E i \in 1 .. NumAllocs : last[i] = a) => MayHandOut(a)

\* Every allocator gives a running container an address of its own (handler.go:110-127),
\* also when they search the same range set.
OnePerAllocator ==
    \A c \in Container : phase[c] = "up" => Cardinality(held[c]) = NumAllocs

\* "每个 range 都有自己的 allocator", each range has its own allocator (handler.go:42): a
\* running container has an address of every range set.
AddressOfEachSet ==
    \A c \in Container :
        phase[c] = "up" => \A i \in DOMAIN Ranges : held[c] \cap Addresses(Ranges[i]) # {}

\* Check finds the address of a container that runs (handler.go:190).
CheckSees == \A h \in Handler : pc[h] = "missing" => phase[cont[h]] # "up"

\* Every request is answered, unless its process dies.
RequestAnswered == \A h \in Handler : pc[h] # "idle" ~> pc[h] = "idle"

\* The servers implement the address pool.
Pool == INSTANCE AddressPool WITH Addr <- IP
PoolRefined == Pool!PoolSpec

================================================================================
