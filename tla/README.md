# kubeovs-l2 in TLA+

kubeovs-l2 is an underlay CNI for Kubernetes: pods hang on an Open vSwitch bridge that
shares the node's physical network, so the addresses of all pods of the cluster come from
one pool, kept in etcd. This directory models the part of the repository that has to get
this right: the IPAM servers of the nodes, their allocator, their store and their lock, the
CNI plugin that brings addresses onto the bridge and takes them off it, the daemon's set-up of
the node, and the in-memory IPAM of `pkg/ipam`.

## The system

| Part | State | Operations | Interaction |
|---|---|---|---|
| CNI plugin, `cmd/cni` | none of its own: veth pairs, OVS ports, namespaces | `cmdAdd`, `cmdDel` | run by the container runtime; POSTs `/add` and `/del` to the kubeovsd of its node over a unix socket |
| node set-up, `cmd/kubeovsd` | OVS bridge, its port, addresses and routes of the node | `main` | once per start of the process, then runs the IPAM server |
| IPAM server, `pkg/daemon` | one allocator per range set | `Add`, `Del`, `Check` | every request is a goroutine; calls the allocators |
| allocator, `pkg/ipametcd/backend/allocator` | the range set (a pointer to it) | `Get`, `GetIter`, `Next`, `Release`; `LoadIPAMConfig`, `Canonicalize`, `Overlaps` | takes the lock, then calls the store |
| store, `pkg/ipametcd/backend/etcd/backend.go` | in etcd: a key for each reserved address, naming the container; `last_reserved_ip.<i>` | `Reserve`, `LastReservedIP`, `ReleaseByID`, `FindByID`, `GetByID` | one etcd call after the other, no transactions |
| lock, `.../etcd/lock.go` | one session (a lease of 60 s) and one `concurrency.Mutex` per process | `Lock`, `Unlock` | a key per lease in etcd; the oldest key has the lock |
| in-memory IPAM, `pkg/ipam` | free and reserved ranges of a subnet, four maps between pods and their IP and MAC addresses | `NewSubnet`, `GetRandomMac`, `GetStaticMac`, `GetRandomAddress`, `GetStaticAddress`, `ReleaseAddress` | used by no binary |
| controller, `pkg/controller` | a work queue | `Run`, pod handlers | stubs; started by no binary |

What is hard: requests of many nodes, and several of one node, at the same time on one store
without transactions; a lock whose object is shared by the goroutines of a process; calls of
etcd that fail, applied or not; processes that die and restart in between; leases that run
out; a runtime that gives up, repeats ADD and sends DEL more than once; an iterator with
inclusive ends, gateways to skip and several ranges; a set-up of the node that moves the
address it is reached by, and that a restart has to take up in the middle; lists of ranges that
are cut and merged. The list of hazards, each at its line, is
in `PROJECT.json`.

What makes the parts correct:

* lock: never two goroutines of the cluster in the critical section; Unlock removes the key;
  nobody waits for ever, no matter who dies;
* ranges and configuration: an accepted configuration gives each address to one range of one
  set; nothing else is rejected;
* iterator: Get offers each allocatable address once, says "full" only when it is, ends, and
  goes round robin;
* servers: no address with two containers; what the runtime was told is what the store says;
  a successful DEL leaves nothing behind; no gateway is given away; a requested address is
  given or the ADD fails; every request is answered;
* plugin: what ADD and DEL report is so; no address is released while its container is on the
  bridge with it; nothing is reserved or plugged in twice;
* node set-up: a kubeovsd that serves has a connected node behind it, however often it died on
  the way; no address gets lost; it ends up serving;
* in-memory IPAM: the free list is the pool without what was given away; no address and no MAC
  address belongs to two pods; the maps agree.

## Modules

| Module | Models | State and actions |
|---|---|---|
| `EtcdMutex` | `lock.go` over the vendored `clientv3/concurrency` (mutex, key, session) | `keys`, `earlier`, `expired` are etcd's; `lease`, `myKey`, `myRev` a process's; `lpc`, `ahead` a goroutine's. `LockTxn`, `LockResp`, `LockTest`, `LockWait` are the stages of `Mutex.Lock`, cut at the answers of etcd and at the accesses to the shared fields after them (what comes before the transaction, the write of `m.myKey` and its re-reads of `mutex.go:46-51`, is one step with it); `UnlockSend`, `UnlockDelete`, `UnlockReset` those of `Unlock`; `LockFail`, `LockWaitErr`, `UnlockFail` their error paths; `Crash`, `Restart`, `Expire` |
| `AddrRange` | `range.go`, `range_set.go`, `RangeIter` of `allocator.go` | operators only: `WellFormed` (an assumption, see below), `Contains`, `RangesOverlap`, `RangeAccepted` and `CanonicalRange` (`Canonicalize`), `RangeFor`, `SetAccepted`, `GetIter`, `IterStep` (one pass through `Next`) |
| `IpamConfig` | `LoadIPAMConfig` | `conf`, `status`; `LoadOk`, `LoadError` |
| `RangeIter` | one allocator under the lock | `taken`, `last`, `iter` and history variables; `GetBegin`, `NextSkips`, `NextTaken`, `NextFree`, `NextExhausted`, `GetRequested`, `Release` |
| `IpamServer` | `handler.go`, `allocator.go`, `backend.go`; extends `EtcdMutex` and `AddrRange` | `owner` and `last` are the store; `pc`, `mode`, `cont`, `want`, `ask`, `alloc`, `got`, `cand`, `iter` are the local variables of a handler goroutine; `phase`, `asked`, `held`, `gone` what the container runtime knows. One action for each call of etcd and what follows it up to the next |
| `CniPlugin` | `cmd/cni/plugin.go` | `netns`, `veth`, `ports`, `conf` are the node's; `owner` is the store; `pc`, `path`, `req` a running plugin's; `phase` is what the runtime knows; `orphan`, `overtaken` record requests of killed plugins. `AddBegin`, `SetupVeth`, `AddPort`, `LinkUp`, `AskIpam`, `Configure`, `AddEnd` are `cmdAdd`; `DelBegin`, `FindPort`, `DelPort`, `ReleaseIP`, `DelLink` are `cmdDel`; `Kill`, `IpamEndsOrphan`, `NetnsGone` |
| `NodeSetup` | `cmd/kubeovsd/main.go`, `Run` of `handler.go` | `nic`, `br`, `bridge`, `port`, `brUp`, `nicUp`, `routed`, `cni`, `sock` are the node's; `pc`, `moving`, `blind` those of the process; `os`, `torn`, `faults` record what the operating system gave, what was lost and what went wrong. One action for each call of `main` that changes the node; `Exit`, `Reboot`, `Renew` |
| `IPRanges` | `ip.go` and the range functions of `util.go` in `pkg/ipam` | operators only: `Add`, `Sub` (modulo `Top`), `InRange`, `Members`, `splitRange`, `SplitIPRangeList` |
| `Subnet` | `subnet.go`, `GetIPRangeList`, `MergeIPRangeList` | `free`, `reserved`, `PodToIP`, `IPToPod`, `PodToMac`, `MacToPod` are the fields of `Subnet`; `made`, `told`, `moves`, `tail`, `phantoms`, `clash` are history. `NewSubnet` is the initial state, `GetRandomMac`, `GetStaticMac`, `GetRandomAddress`, `GetStaticAddress`, `ReleaseAddress` the actions |
| `AddressPool` | no code: it is the promise the servers are shown to keep | `owner`, `held`; `Assign`, `TakeBack`, `Grant`, `GiveUpAddresses` |
| `EtcdMutexProofs`, `AddrRangeProofs`, `AllocatorProofs` (of `IpamConfig` and `RangeIter`), `IpamServerProofs`, `IpamGrantProofs`, `CniPluginProofs`, `NodeSetupProofs`, `SubnetProofs` (of `IPRanges` and `Subnet`) | | the theorems |
| `MCIpamConfig`, `MCRangeIter`, `MCIpamServer`, `MCCniPlugin`, `MCNodeSetup`, `MCSubnet` | | values of the constants for TLC |

Definitions ending in what they break (`LockTestNoWait`, `ReserveGetBlind`, ...) are mutants:
plausible errors in the definition next to them, which the properties have to notice. Nothing
uses them.

### How state corresponds to the code

* A lock key is named after its lease, so a key is its lease. Create revisions are only
  compared, so a revision is the set of existing keys that are older; `waitDeletes` returns
  when that set is empty. Deleting `"\x00"`, the name `Unlock` leaves in `m.myKey`, deletes
  nothing.
* An address is a number, IPv4 below `V6`; `Nil` is a nil `net.IP` or a text that does not
  parse. `strings.Split("", ",")` has one element, so an ADD without addresses asks for
  `{Nil}`: the model takes that over, and no such ADD ever succeeds.
* `Rangeset(i)` is the last range set for every `i`: `NewIpamServer` passes the address of its
  loop variable (the module's Go version has one variable for the whole loop).
* The range set of kubeovsd comes from its own configuration file (`main.go:218-230`), without
  `LoadIPAMConfig` and `Canonicalize`, which no binary calls: nothing notices a start after the
  end or a gateway that does not parse. That ranges are `WellFormed` is an assumption on what the
  administrator wrote, and what `IpamConfig` shows is about the package, not about the daemon.
* `ParsedKey` is `Nil`: `GetByID` parses whole etcd keys, which contain slashes.
* `Finish` sets the local variables of a goroutine back; a goroutine that ends has none.
* A call of etcd that fails may have been applied. That it is applied after the error has been
  returned is not modelled.
* The runtime sends at most one ADD or DEL for a container at a time, unless it has given up
  waiting for the last one (`GiveUp`); ADD after a failed ADD needs `RetryAdd`, DEL may always
  be repeated. DEL ends the container's use of its addresses: `CniPlugin` shows that the plugin
  has taken the port off the bridge by then (`WireReserved`), and that no ADD asks for an
  address before a DEL has released the last one (`OneReservation`), which is why the runs have
  `RetryAdd = FALSE`. `GatewaysFree` and `RequestsHonoured` are proved for both values.
* In `CniPlugin` a call of the IPAM server is one step: an ADD gets an address only if it is
  free, a DEL that succeeds deletes one key, a call that fails may have had its effect. The
  first is what `NoAddressTwice` proves of the servers under `Reliable`. The server goes on with
  the request of a plugin that is killed and ends it at any later time; a container is
  `overtaken` once the next plugin has started before that.
* In `NodeSetup` a failing call and a death of the process are the same step, `Exit`, as `main`
  exits on every error but that of `AddrList`. `AddAddrExists` is the one error that is not a
  matter of chance: the bridge has the address already. The bridge and its port survive a
  reboot, as the database of OVS is persistent; addresses, routes and `/var/run` do not.
* In `Subnet` each operation is one step: all of them hold the mutex (`GetRandomMac` and
  `GetStaticMac` called from outside do not; callers are taken to be serial there). An address
  is a number below `Top`, which stands for 2^32, so that the addition of `uint32` wraps at
  `Top`. Ranges that end before they start are kept: the code makes them.

## Runs

Passing runs:

| Run | Bounds | Shows |
|---|---|---|
| `config` | some 26 000 configurations of up to three ranges in IPv4 subnets (one of them too small, one misaligned) and an IPv6 one, starts and ends in and next to them | `AddressesUnambiguous`, `NothingElseRejected`, `EmptyOnlyAtBroadcast` |
| `iter` | ranges of 1, 2 and 4 addresses, gateway at every kind of place; sets of two ranges | `OffersFresh`, `ExhaustedMeansFull`, `RoundRobin`, `GetReturns` |
| `ipam_safe` | 2 nodes with one request at a time, 2 containers, 2 addresses and the gateway, requests for none, for one and for the other, 3 leases; store and Unlock fail, processes crash and restart | `TypeOK`, `MutualExclusion`, `NoCircularWait`, `NoConflict`, `GrantExact`, `PoolRefined` |
| `ipam_two_sets` | 1 node, 2 containers, 2 range sets, four kinds of requests (none, one address, two, the gateway); lock and store fail, leases get lost, clients give up, resolv.conf is unreadable | `NoLeak`, `RequestHonoured`, `GatewayFree`, `OnePerAllocator` |
| `ipam_live` | 2 nodes, 2 containers, 1 address and the gateway, 3 leases; nothing fails but processes, nobody gives up, fairness | `UnlockReleases`, `CheckSees`, `RequestAnswered` |
| `cni` | 2 containers, 2 addresses; every command and call fails or not, plugins are killed anywhere, namespaces get lost | `CniTypeOK`, `WireReserved`, `UpMeansConnected`, `DelCleans`, `OneReservation`, `OnePort` |
| `node` | 2 addresses, any of them on the NIC, 4 faults (deaths and failing calls, reboots, addresses put back, address lists that cannot be read), fairness | `NodeTypeOK`, `ServingConnected`, `NodeServes` |
| `subnet` | 12 addresses, 2 pods, 2 MAC addresses; subnets of 8, 4 and 2 addresses in the middle and at the end of the address space, addresses excluded out of order, twice, at the end, all; one move of a pod to another address and one address given away wrongly | `SubnetTypeOK`, `NewSubnetExact`, `MapsAgree`, `PoolConserved`, `PhantomOnlyByTail`, `MacOwned` |

Two nodes and two containers are enough for the conflicts the properties speak of, which are
between two. More leases than nodes let a process come back while its old key is still there,
so that a queue forms behind dead processes; leases are reused once their key is gone, which
keeps the model finite. The lock has no run of its own: the servers drive it, and what it
promises is checked there. A single allocatable address makes "taken" and "full" common (in
`ipam_live`, where only one container at a time can have an address, and in `ipam_two_sets`, where
an ADD takes both addresses of the last set); in `ipam_safe` each container may ask for either of two
addresses, so that they compete for one or both succeed. Four faults let a
process die with an address, the operating system put it back, the next process fail on it and
a reboot follow; the theorems about the set-up have no bound. Twelve addresses let a free range
be cut in the middle twice. Leases, pods and MAC addresses are symmetric where no liveness is
checked.

Runs that end in a violation. Each shows that the code does not do what the repository says;
the findings of `PROJECT.json` quote the lines:

| Run | Property | What happens |
|---|---|---|
| `ipam_concurrent` | `NoConflict` | two ADDs of one node share the lock key: the second Lock finds it in place and returns; one address for both |
| `ipam_each_set` | `AddressOfEachSet` | an ADD over two range sets gets two addresses of the last one: all allocators point to the loop variable of `NewIpamServer`. With a set for each allocator the property holds |
| `iter_endless` | `EveryGetReturns` | two ranges, all taken, the last reserved address at the end of one of them: `Next` sets `startIP` in the next range and keeps `startRange`, the test of `allocator.go:218` never holds, and Get goes round for ever |
| `cni_del_again` | `DelRepeats` | DEL after a DEL: findPort finds no port and cmdDel returns its error |

The configuration of kubeovsd has one set of one range and shows neither of the second and third.

The passing runs and the theorems therefore state their conditions as constants: `NodeOf` with
one handler for each node, `LockErrors`, `LeaseLoss`, `RetryAdd`; `GetReturns` leaves out what
`iter_endless` shows. They say what the code does guarantee under them. Further deviations appear in the model as a condition of a property and
have no run of their own:

* `Get` ignores the error of `Lock` (`allocator.go:45`): with `LockErrors` or `LeaseLoss` two
  nodes may be in the critical section, and `NoConflict` does not hold.
* Two requests of one node share the Mutex (`NodeOf` with two handlers for a node): an Unlock
  resets `m.myKey` under the other request, whose Unlock then deletes nothing, and
  `UnlockReleases` does not hold either.
* `GetByID` never finds an address and `ReleaseByKey` deletes one key a call: a client that
  repeats ADD (`RetryAdd`) gets a second address, and DEL leaves one of the two. The plugin is
  no such client, see `OneReservation`.
* A DEL that failed at `/del` is never made good while the namespace exists: the next one fails
  at `findPort`. A DEL without Netns leaves the port in the database of OVS. `DelCleans`
  speaks of a DEL that succeeds, with a Netns.
* A plugin killed in a call and overtaken by the next may leave a key for ever, and its late
  release may take the next one's address: the properties of `CniPlugin` leave out overtaken
  containers.
* A requested address moves the cursor of the round robin: `RoundRobin` speaks of the time
  until one is requested.
* A range may start at the IPv4 broadcast address and is then empty, as its default end is
  before it: `EmptyOnlyAtBroadcast` says that this is the only way to an empty range.

Of the set-up of a node (`ServingConnected` names the first two as its exceptions):

* A process that dies between `AddrDel` and `AddrAdd` (`main.go:182-188`) takes the address with
  it: the next one finds an empty list and takes the move for done. A reboot brings it back.
* A failing `AddrList` is logged and taken for "already moved" (`main.go:173-179`).
* Only the first address of the NIC is moved in each start (the TODO of `main.go:181`).
* An address the operating system puts back on the NIC while the bridge has it costs a process:
  `AddrAdd` fails with "exists", and the next start finds it gone from the NIC.
* The CNI configuration is installed before the bridge exists, so that the runtime may call the
  plugin too early.

Of the in-memory IPAM:

* `splitRange` keeps the first address of a range that covers the end of another: `util.go:103`
  adds one where the other branches subtract. A subnet whose last usable address is excluded
  gives it away all the same, against the comment of `subnet.go:43`; `NewSubnetExact` leaves
  that case out, `SplitKeepsFirst` proves it. Such an address is free and reserved at once: one
  pod gets it by name, another one by chance, and both have it. `MapsAgree` and `PoolConserved`
  therefore speak of an exact pool (the attempt to prove `MapsAgree` without `Exact` found
  this; it takes three pods).
* `SplitIPRangeList` at the end of a longer range leaves a range that ends before it starts
  (`util.go:132-136`), and `GetRandomAddress` gives away its start (`PhantomOnlyByTail`). In a
  subnet of one or two addresses the first free range is such a range.
* A pod that asks for a second address keeps the entry of the first in `IPToPod`, so that it is
  never freed (`moves = 0` in `MapsAgree`).
* `GenerateMac` may make up an address in use (`clash` in `MacOwned`). `GetStaticMac` forgets the
  pod's former address without freeing it, refuses the pod's own, and what it recorded stays
  when the IP address is refused. `subnet.go:122` looks up the empty MAC address instead of the
  pod.
* `GetPodAddress` reads the maps without the mutex.

### Fairness

`Fairness` makes a goroutine go on when it can (the Go scheduler runs it and
etcd answers; contexts have no deadline, so a call that gets no answer is a call that waits)
and a lease nobody keeps alive run out. No request has to arrive, no process has to crash or
to restart. For the iterator, `Get` runs to its end. Weak fairness is enough: an older key
that stays away once deleted leaves a waiting Lock enabled. `NodeSpec` has weak fairness on
`Main`: kubelet restarts the container of the DaemonSet, and calls return. What goes wrong is
bounded by `MaxFaults`, so that `NodeServes` says: if it stops going wrong, kubeovsd serves.

## Theorems

All for any number of nodes, handlers, leases, containers, ranges and addresses.

* `LockTypeCorrect`, `TypeCorrect`: the types, whatever fails. For the servers the
  strengthening is `LocalInv`: which container, allocator, iterator and candidate a handler
  has at which place; it rests on `GetIterInRange` and `IterStepInRange`, which say that an
  iterator stays in its range set.
* `Exclusion`: under `Reliable` (one request at a time on each node, Lock does not fail, no
  live process loses its lease) the lock is exclusive. The inductive invariant `MutexInv` adds
  to the types: processes have different leases and live ones valid leases (`LeasesInv`);
  where a goroutine is says whether its key exists and what `myKey` is (`ControlInv`); keys
  are totally ordered by `earlier` (`OrderInv`); what a goroutine knows to be older than its
  key covers all that is (`QueueInv`). Two goroutines in the critical section would each have
  no older key, against the order.
* `Release`: if Unlock does not fail either, no key outlives the critical section.
* `OverlapExact`: the four end point tests of `Range.Overlaps` are exact.
* `NoAddressTwice`: under `Reliable`, no address is handed to two containers. `LockRefined`
  carries `Exclusion` over to the servers: each of their steps is a step of the lock or leaves
  it alone. The inductive invariant `OwnInv` says: handlers serve containers of their node
  (`HomeInv`), so that one container has one handler; the store is touched in the critical
  section (`CritInv`); what was read there still holds when it is used (`StoreInv`); a
  container that is worked upon is not in use (`BusyInv`); and what a container was told is
  its own (`HeldInv`), which is `NoConflict`.
* `ImplementsPool`: under `Reliable` every step of the servers is a step of `AddressPool`; a
  key is written only when the address is free and deleted only when nobody uses it. It uses
  the same invariant.
* `WaitsAreAcyclic`: whatever fails and however many goroutines share a Mutex, no set of
  goroutines waits for keys of its own. `WaitInv` says that there are finitely many keys, that
  `earlier` orders them strictly (`AgeInv`), and that a revision a process or a goroutine holds
  is no newer than the key of its lease (`RevInv`); the oldest key of such a set waits for
  nobody in it.
* `GatewaysFree`, `RequestsHonoured`: no condition at all. `GateInv` says that a candidate may be
  handed out from the moment it is chosen (`CandInv`) and so may all that is in the store
  (`KeptInv`). `GrantInv` says that every address asked for is still wanted, being looked at,
  or given (`CoverInv`), and that a runtime waits for one handler at most for each container
  (`WorkInv`, `SoleInv`).
* `GrantsExact`, `NothingLeaks`, `OneEach` (which is `OnePerAllocator`): under `Reliable` and without `RetryAdd`; `CheckFinds`
  with a store that does not fail. `LedgerInv` keeps the books: at each place of a handler, how many keys its
  container has, against the allocators it has passed or the releases to come (`Book`), and for
  each container what is left when nobody works on it (`Account`). It needs the exclusion of
  `OwnInv`: nobody else writes a key of the container, nor deletes one.
* `NodeTypeCorrect`, `ServesConnected`: for any number of addresses and faults. `NodeInv` says
  what has been done at each call of `main` (`StageInv`) and where the addresses are
  (`PlaceInv`): on the NIC, on the bridge, in the hands of the process, or lost with one.
* `LoadedUnambiguous`, `LoadedNonEmpty`, `RejectedForReason`: for every configuration. A
  configuration is loaded in one step, so the invariant `ConfigInv` only says that what was
  accepted is what `CanonicalSet` made of it; the work is in the lemmas about
  `Canonicalize` and about overlaps, over the places of ranges in sets.
* `OffersAreFresh`, `ExhaustedIsFull`, `GoesRound`: for range sets with any number of ranges of
  any size, as long as they are disjoint and not empty. `WalkInv` says that the addresses
  offered so far are those between where the iterator started and where it is, in the cyclic
  order of ranges and of addresses in them, unless it started at the end of one of several
  ranges and cannot come back there; when it is back at its start there is nothing else. `HandInv` carries this from one call of `Get` to the next: the addresses offered since
  `a` was reserved are those between `a` and the cursor, and the cursor is the last reserved
  address.
* `SplitExact`, `SplitKeepsFirst`, `PiecesExact`: what `splitRange` and `SplitIPRangeList` leave, as
  sets, by cases over the end points.
* `SubnetTypeCorrect`, `MacsOwned`: for every subnet, whatever is excluded or asked for.
* `PoolMadeExact`, `PoolIsConserved`, `MapsStayAgreed`, `PhantomsNeedTail`: for every subnet, list of
  excluded addresses, number of pods and sequence of calls. All rest on lists of ranges in
  order (`Spaced`: bounds, a gap between each two ranges, and whether a range may end one
  before it starts). The loops of the code are recursive functions over the numbers of
  passes; `LoopRuns` gives their equations and `LoopInduction` is induction over the passes,
  by the least one that fails. `JoinedSpaced`, `SplitListSpaced`, `FirstTakenSpaced` and
  `MergeSpaced` say what each operation does to an ordered list and to its set of addresses.
  For `NewSubnet`, `StageOk` says what each reserved range leaves of the pool: only its last
  range can still be cut, and it may reach one past the last cut, as `splitRange` adds one;
  `StageLost` is the case in which that sum wraps around. `StageExact` holds to the end if
  the last usable address is not excluded, or all are. `PoolInv` is inductive: while the pool
  was exact and nothing else was given away, the free list is in order, its addresses are
  those of the pool nobody has, everything recorded is of the pool or reserved, and the maps
  agree; and while `tail` is false no free range ends before it starts, so that nothing else
  can be given away.
* `CniTypeCorrect`, `AddressesOnWireReserved`, `UpIsConnected`, `DelsClean`, `OneKey`, `SinglePort`:
  the properties of the plugin, whatever fails and whoever is killed. The inductive invariant `CniInv` says for each
  container where its plugin is and which of interface, port and addresses exist then
  (`LinkInv`), which keys it may have (`KeyInv`), and what a request that outlived its plugin
  can still do (`OrphanInv`). A step for one container leaves those of the others alone
  (`FrameKeepsInv`).

Assumptions: `MutexAssumption`, `AddrAssumption`, `NilAssumption`, `ServerAssumption`,
`CniAssumption`, `NodeAssumption`, `TopAssumption`, `SubnetAssumption`, about the types of the
constants; `ConfigAssumption`, that the addresses of a subnet are of one family;
`ServerAssumption` and `RangeSetsAssumption`, that the ranges of an allocator are filled in and
not empty, and for the iterator also disjoint and inside their subnets. `LoadedUnambiguous` and
`LoadedNonEmpty` prove this of what `LoadIPAMConfig` accepts, but for the empty range at the
broadcast address; for kubeovsd, which does not call it, it stays an assumption. The bounds of `Subnet`
(`MaxMoves`, `MaxPhantoms`) are any numbers.

Every safety property that a passing run checks is proved. `NothingLeaks` and `OneEach` ask for
`Reliable`; that the two properties survive a failing Lock on a node that is alone is checked in
`ipam_two_sets` only. Model-checked only: liveness
(`GetReturns`, `RequestAnswered`, `NodeServes`), which needs fairness and `ENABLED`.

## Not modelled

* The accesses of `m.myKey` and `m.myRev` are atomic here; for the Go memory model they are
  data races.
* Names of networks that are prefixes of each other share keys in `Store.list`; there is one
  network, as in `cmd/kubeovsd`.
* `ip.NextIP` on addresses whose first byte is zero, subnets whose address and mask have
  different lengths, JSON and CNI arguments.
* The text of answers and logs, and what resolv.conf contains.
* Routes, MAC addresses, MTU, gratuitous ARP and `calcGateways` of the plugin (nobody calls the
  last one). Commands of `ovs-vsctl` are atomic.
* What the configuration of kubeovsd says and how it is read (`main.go:125` expects JSON,
  the file of `deployment/deployment.yaml` is YAML).
* The controller: its handlers return nil without doing anything, its event handlers are not
  registered with the informer, and no binary starts it. There is no step to model.
* The fake store of the unit tests.

## Plan

Done: `EtcdMutex`, `AddrRange`, `IpamConfig`, `RangeIter`, `AddressPool`, `IpamServer`,
`CniPlugin`, `NodeSetup`, `IPRanges`, `Subnet`, with the runs and theorems above.

Left:

1. `GrantsExact` and `NothingLeaks` for a client that repeats ADD: how many addresses it can
   collect.
2. A theorem about the pool of a subnet whose last usable address is excluded: which addresses
   are free and reserved at once.
3. The controller, once its handlers do something.
