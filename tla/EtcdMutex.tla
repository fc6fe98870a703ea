------------------------------- MODULE EtcdMutex -------------------------------
(***************************************************************************)
(* The cluster-wide lock of kubeovs-l2: EtcdLock of                        *)
(* pkg/ipametcd/backend/etcd/lock.go over the vendored etcd client mutex   *)
(* (clientv3/concurrency/mutex.go).                                        *)
(*                                                                         *)
(* Every kubeovsd process (a Node) opens ONE etcd session, hence one lease *)
(* and one Mutex value {myKey, myRev}, shared by the goroutines (Handlers) *)
(* that serve its HTTP requests.  A lock key is named after the lease, so  *)
(* a key is identified here with its lease.  Create revisions are only     *)
(* ever compared, so a revision r is represented by the set of existing    *)
(* lock keys whose create revision is below r: such a set only shrinks.    *)
(*                                                                         *)
(* Steps are cut at the answers of RPCs and at the accesses to the fields  *)
(* of the shared Mutex that come after one.  What Lock does before its     *)
(* transaction is one step with it: it writes m.myKey and reads it again   *)
(* (mutex.go:46-51), and no reset by another goroutine comes in between.   *)
(***************************************************************************)
CONSTANTS
    Node,           \* kubeovsd processes, one per cluster node
    Handler,        \* HTTP handler goroutines
    NodeOf,         \* NodeOf[g]: the process goroutine g belongs to
    Lease,          \* etcd lease IDs
    LockErrors,     \* TRUE: an etcd call made by Lock may fail
    UnlockErrors,   \* TRUE: the Delete made by Unlock may fail
    LeaseLoss       \* TRUE: the lease of a running process may expire

ASSUME MutexAssumption ==
    /\ NodeOf \in [Handler -> Node]
    /\ {LockErrors, UnlockErrors, LeaseLoss} \subseteq BOOLEAN

VARIABLES
    keys,       \* leases whose lock key exists in etcd
    earlier,    \* earlier[l]: existing keys with a lower create revision than l's
    expired,    \* leases that etcd has revoked
    up,         \* nodes whose process runs
    lease,      \* lease[n]: the lease of n's session
    myKey,      \* Mutex.myKey of n: the key of its lease, or "\x00"
    myRev,      \* Mutex.myRev of n, as the set of existing keys older than it
    lpc,        \* lpc[g]: where g is in Lock or Unlock
    ahead       \* ahead[g]: existing keys older than the revision g got or waits for

lockVars == <<keys, earlier, expired, up, lease, myKey, myRev, lpc, ahead>>

\* "del", "nul": a Delete of the lease's key, or of "\x00", is on its way;
\* "wdel", "wnul", "wreset": the Unlock that Lock itself runs when its wait fails.
LockPC == {"idle", "resp", "test", "wait", "crit", "del", "nul", "reset",
           "wdel", "wnul", "wreset"}

LeaseOf(g) == lease[NodeOf[g]]

LockTypeOK ==
    /\ keys \subseteq Lease
    /\ earlier \in [Lease -> SUBSET Lease]
    /\ expired \subseteq Lease
    /\ up \subseteq Node
    /\ lease \in [Node -> Lease]
    /\ myKey \in [Node -> {"key", "nul"}]
    /\ myRev \in [Node -> SUBSET Lease]
    /\ lpc \in [Handler -> LockPC]
    /\ ahead \in [Handler -> SUBSET Lease]

\* Every process has started: NewEtcdLock gave it a session of its own.
LockInit ==
    /\ keys = {}
    /\ earlier = [l \in Lease |-> {}]
    /\ expired = {}
    /\ up = Node
    /\ lease \in {f \in [Node -> Lease] : \A m, n \in Node : m # n => f[m] # f[n]}
    /\ myKey = [n \in Node |-> "nul"]
    /\ myRev = [n \in Node |-> {}]
    /\ lpc = [g \in Handler |-> "idle"]
    /\ ahead = [g \in Handler |-> {}]

--------------------------------------------------------------------------------
(***************************************************************************)
(* What etcd does.                                                         *)
(***************************************************************************)

\* The keys older than the key of lease l once the acquiring transaction has run.
Rank(l) == IF l \in keys THEN earlier[l] ELSE keys

\* The transaction of Lock: put the key if it does not exist.
PutKey(l) ==
    /\ keys' = keys \cup {l}
    /\ earlier' = [earlier EXCEPT ![l] = Rank(l)]

\* The key of lease l is deleted: nobody waits for it any more.
DropKey(l) ==
    /\ keys' = keys \ {l}
    /\ earlier' = [k \in Lease |-> IF k = l THEN {} ELSE earlier[k] \ {l}]
    /\ myRev' = [n \in Node |-> myRev[n] \ {l}]
    /\ ahead' = [g \in Handler |-> ahead[g] \ {l}]

--------------------------------------------------------------------------------
(***************************************************************************)
(* Lock                                                                    *)
(***************************************************************************)

\* Lock names its key and runs the transaction; the answer carries the create
\* revision of the key, old or new, and the owner of the lock.
LockTxn(g) ==
    /\ lpc[g] = "idle" /\ NodeOf[g] \in up /\ LeaseOf(g) \notin expired
    /\ PutKey(LeaseOf(g))
    /\ myKey' = [myKey EXCEPT ![NodeOf[g]] = "key"]
    /\ ahead' = [ahead EXCEPT ![g] = Rank(LeaseOf(g))]
    /\ lpc' = [lpc EXCEPT ![g] = "resp"]
    /\ UNCHANGED <<expired, up, lease, myRev>>

\* The transaction fails (always, once the lease is gone: its put names the lease),
\* applied or not, and Lock returns the error.  No caller looks at it.
LockFail(g) ==
    /\ lpc[g] = "idle" /\ NodeOf[g] \in up
    /\ \/ LeaseOf(g) \in expired /\ UNCHANGED <<keys, earlier>>
       \/ LockErrors /\ UNCHANGED <<keys, earlier>>
       \/ LockErrors /\ LeaseOf(g) \notin expired /\ PutKey(LeaseOf(g))
    /\ myKey' = [myKey EXCEPT ![NodeOf[g]] = "key"]
    /\ lpc' = [lpc EXCEPT ![g] = "crit"]
    /\ UNCHANGED <<expired, up, lease, myRev, ahead>>

\* m.myRev takes the revision of the answer.
LockResp(g) ==
    /\ lpc[g] = "resp"
    /\ myRev' = [myRev EXCEPT ![NodeOf[g]] = ahead[g]]
    /\ lpc' = [lpc EXCEPT ![g] = "test"]
    /\ UNCHANGED <<keys, earlier, expired, up, lease, myKey, ahead>>

\* A Lock that returns without waiting for older keys (mutant of LockTest).
LockTestNoWait(g) ==
    /\ lpc[g] = "test"
    /\ lpc' = [lpc EXCEPT ![g] = "crit"]
    /\ ahead' = [ahead EXCEPT ![g] = {}]
    /\ UNCHANGED <<keys, earlier, expired, up, lease, myKey, myRev>>

\* A Lock that waits for every other key, not only for older ones (mutant of LockTest).
LockTestWaitAll(g) ==
    /\ lpc[g] = "test"
    /\ lpc' = [lpc EXCEPT ![g] = IF keys \ {LeaseOf(g)} = {} THEN "crit" ELSE "wait"]
    /\ ahead' = [ahead EXCEPT ![g] = keys \ {LeaseOf(g)}]
    /\ UNCHANGED <<keys, earlier, expired, up, lease, myKey, myRev>>

\* Lock returns if its key is the oldest; if not, it waits for the keys created
\* before m.myRev, which is read again here.
LockTest(g) ==
    /\ lpc[g] = "test"
    /\ lpc' = [lpc EXCEPT ![g] = IF myRev[NodeOf[g]] = {} THEN "crit" ELSE "wait"]
    /\ ahead' = [ahead EXCEPT ![g] = myRev[NodeOf[g]]]
    /\ UNCHANGED <<keys, earlier, expired, up, lease, myKey, myRev>>

\* waitDeletes has seen every older key deleted.
LockWait(g) ==
    /\ lpc[g] = "wait"
    /\ ahead[g] = {}
    /\ lpc' = [lpc EXCEPT ![g] = "crit"]
    /\ UNCHANGED <<keys, earlier, expired, up, lease, myKey, myRev, ahead>>

\* waitDeletes fails: Lock runs Unlock, whose Delete names m.myKey as it is now.
LockWaitErr(g) ==
    /\ LockErrors
    /\ lpc[g] = "wait"
    /\ lpc' = [lpc EXCEPT ![g] = IF myKey[NodeOf[g]] = "key" THEN "wdel" ELSE "wnul"]
    /\ ahead' = [ahead EXCEPT ![g] = {}]
    /\ UNCHANGED <<keys, earlier, expired, up, lease, myKey, myRev>>

--------------------------------------------------------------------------------
(***************************************************************************)
(* Unlock                                                                  *)
(***************************************************************************)

\* Unlock sends a Delete of m.myKey.
UnlockSend(g) ==
    /\ lpc[g] = "crit"
    /\ lpc' = [lpc EXCEPT ![g] = IF myKey[NodeOf[g]] = "key" THEN "del" ELSE "nul"]
    /\ UNCHANGED <<keys, earlier, expired, up, lease, myKey, myRev, ahead>>

\* Where a Delete that succeeded, and one that failed, leave the goroutine.
AfterDelete(p) == IF p \in {"del", "nul"} THEN "reset" ELSE "wreset"

AfterUnlock(p) == IF p \in {"del", "nul", "reset"} THEN "idle" ELSE "crit"

\* An Unlock that forgets to delete (mutant of UnlockDelete).
UnlockDeleteLost(g) ==
    /\ lpc[g] \in {"del", "nul", "wdel", "wnul"}
    /\ lpc' = [lpc EXCEPT ![g] = AfterDelete(lpc[g])]
    /\ UNCHANGED <<keys, earlier, expired, up, lease, myKey, myRev, ahead>>

\* The Delete is applied and acknowledged.  "\x00" is never a key of the store.
UnlockDelete(g) ==
    /\ lpc[g] \in {"del", "nul", "wdel", "wnul"}
    /\ IF lpc[g] \in {"del", "wdel"}
       THEN DropKey(LeaseOf(g))
       ELSE UNCHANGED <<keys, earlier, myRev, ahead>>
    /\ lpc' = [lpc EXCEPT ![g] = AfterDelete(lpc[g])]
    /\ UNCHANGED <<expired, up, lease, myKey>>

\* The Delete fails, applied or not: Unlock returns at once, and the deferred call
\* drops the error.
UnlockFail(g) ==
    /\ UnlockErrors
    /\ lpc[g] \in {"del", "nul", "wdel", "wnul"}
    /\ \/ UNCHANGED <<keys, earlier, myRev, ahead>>
       \/ lpc[g] \in {"del", "wdel"} /\ DropKey(LeaseOf(g))
    /\ lpc' = [lpc EXCEPT ![g] = AfterUnlock(lpc[g])]
    /\ UNCHANGED <<expired, up, lease, myKey>>

\* Unlock clears the fields of the shared Mutex, whoever uses them by now.
UnlockReset(g) ==
    /\ lpc[g] \in {"reset", "wreset"}
    /\ myKey' = [myKey EXCEPT ![NodeOf[g]] = "nul"]
    /\ myRev' = [myRev EXCEPT ![NodeOf[g]] = {}]
    /\ lpc' = [lpc EXCEPT ![g] = AfterUnlock(lpc[g])]
    /\ UNCHANGED <<keys, earlier, expired, up, lease, ahead>>

--------------------------------------------------------------------------------
(***************************************************************************)
(* Processes and leases                                                    *)
(***************************************************************************)

\* A process dies with its goroutines; etcd keeps its key until the lease expires.
Crash(n) ==
    /\ n \in up
    /\ up' = up \ {n}
    /\ lpc' = [g \in Handler |-> IF NodeOf[g] = n THEN "idle" ELSE lpc[g]]
    /\ ahead' = [g \in Handler |-> IF NodeOf[g] = n THEN {} ELSE ahead[g]]
    /\ UNCHANGED <<keys, earlier, expired, lease, myKey, myRev>>

\* The new process opens a session: a lease that no key and no process has.
Restart(n) ==
    /\ n \notin up
    /\ \E l \in Lease \ keys :
        /\ \A m \in Node \ {n} : lease[m] # l
        /\ lease' = [lease EXCEPT ![n] = l]
        /\ expired' = expired \ {l}
    /\ up' = up \cup {n}
    /\ myKey' = [myKey EXCEPT ![n] = "nul"]
    /\ myRev' = [myRev EXCEPT ![n] = {}]
    /\ UNCHANGED <<keys, earlier, lpc, ahead>>

\* A lease runs out with its key.  A running process keeps its lease alive, unless
\* it is cut off from etcd for the whole of the lease's 60 seconds.
Expire(l) ==
    /\ l \notin expired
    /\ LeaseLoss \/ \A n \in up : lease[n] # l
    /\ expired' = expired \cup {l}
    /\ DropKey(l)
    /\ UNCHANGED <<up, lease, myKey, lpc>>

--------------------------------------------------------------------------------
LockStep(g) ==
    \/ LockTxn(g) \/ LockFail(g) \/ LockResp(g) \/ LockTest(g) \/ LockWait(g)
    \/ LockWaitErr(g)
    \/ UnlockSend(g) \/ UnlockDelete(g) \/ UnlockFail(g) \/ UnlockReset(g)

LockNext ==
    \/ \E g \in Handler : LockStep(g)
    \/ \E n \in Node : Crash(n) \/ Restart(n)
    \/ \E l \in Lease : Expire(l)

LockSpec == LockInit /\ [][LockNext]_lockVars

--------------------------------------------------------------------------------
(***************************************************************************)
(* Properties                                                              *)
(***************************************************************************)

\* One request at a time in each process.
Serial == \A g, h \in Handler : NodeOf[g] = NodeOf[h] => g = h

\* "Lock acquires an exclusive lock" (lock.go:49): never two goroutines of the
\* cluster between the return of Lock and their call of Unlock.
MutualExclusion ==
    \A g, h \in Handler : g # h => ~ (lpc[g] = "crit" /\ lpc[h] = "crit")

\* "Unlock releases the lock" (lock.go:54): a running process none of whose
\* goroutines is in Lock, in Unlock or between them has no key in etcd.
UnlockReleases ==
    \A n \in up :
        (\A g \in Handler : NodeOf[g] = n => lpc[g] = "idle") => lease[n] \notin keys

\* No circular wait, whatever fails and however many requests share a Mutex: in any
\* set of goroutines blocked in Lock, one waits for none of the others' keys.
NoCircularWait ==
    \A W \in SUBSET {g \in Handler : lpc[g] = "wait"} :
        W # {} => \E g \in W : \A h \in W : LeaseOf(h) \notin ahead[g]

================================================================================
