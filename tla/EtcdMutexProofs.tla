---------------------------- MODULE EtcdMutexProofs ----------------------------
(***************************************************************************)
(* What the etcd lock guarantees for every number of nodes and leases.     *)
(***************************************************************************)
EXTENDS EtcdMutex, FiniteSetTheorems, TLAPS

(***************************************************************************)
(* The case the lock is written for: one request at a time per process,    *)
(* Lock's calls of etcd succeed, running processes keep their leases.      *)
(* Processes crash and restart, and Unlock may fail.                       *)
(***************************************************************************)
Reliable == Serial /\ ~LockErrors /\ ~LeaseLoss

\* No two processes share a lease, and a running one has a valid lease.
LeasesInv ==
    /\ \A m, n \in Node : m # n => lease[m] # lease[n]
    /\ \A n \in up : lease[n] \notin expired

\* A goroutine that is not idle belongs to a running process; none is in the error
\* path of Lock.
ControlInv ==
    \A g \in Handler :
        /\ lpc[g] # "idle" => NodeOf[g] \in up
        /\ lpc[g] \notin {"wdel", "wnul", "wreset"}

\* Of two lock keys, one was created first.
OrderInv == \A k, l \in keys : k # l => k \in earlier[l] \/ l \in earlier[k]

\* From the transaction of Lock to the Delete of Unlock the key exists, and no key
\* older than it escapes the goroutine's notice.
QueueInv ==
    \A g \in Handler :
        /\ lpc[g] \in {"resp", "test", "wait", "crit", "del"} => LeaseOf(g) \in keys
        /\ lpc[g] \in {"resp", "wait"} => earlier[LeaseOf(g)] \subseteq ahead[g]
        /\ lpc[g] = "test" => earlier[LeaseOf(g)] \subseteq myRev[NodeOf[g]]
        /\ lpc[g] = "crit" => earlier[LeaseOf(g)] = {}

MutexInv == LockTypeOK /\ LeasesInv /\ ControlInv /\ OrderInv /\ QueueInv

\* The variables keep their types, in every step of the lock: whatever fails and
\* however many goroutines share a Mutex (lock.go, mutex.go).
THEOREM LockTypeCorrect == LockSpec => []LockTypeOK
<1> USE MutexAssumption
<1>1. LockInit => LockTypeOK
  BY DEF LockInit, LockTypeOK, LockPC
<1>2. LockTypeOK /\ [LockNext]_lockVars => LockTypeOK'
  <2> SUFFICES ASSUME LockTypeOK, [LockNext]_lockVars PROVE LockTypeOK'
    OBVIOUS
  <2> USE DEF LockTypeOK, LockPC
  <2>1. ASSUME NEW g \in Handler, LockTxn(g) PROVE LockTypeOK'
    BY <2>1 DEF LockTxn, PutKey, Rank, LeaseOf
  <2>2. ASSUME NEW g \in Handler, LockFail(g) PROVE LockTypeOK'
    BY <2>2 DEF LockFail, PutKey, Rank, LeaseOf
  <2>3. ASSUME NEW g \in Handler, LockResp(g) \/ LockTest(g) \/ LockWait(g) \/ LockWaitErr(g)
        PROVE LockTypeOK'
    BY <2>3 DEF LockResp, LockTest, LockWait, LockWaitErr
  <2>4. ASSUME NEW g \in Handler, UnlockSend(g) \/ UnlockReset(g) PROVE LockTypeOK'
    BY <2>4 DEF UnlockSend, UnlockReset, AfterUnlock
  <2>5. ASSUME NEW g \in Handler, UnlockDelete(g) PROVE LockTypeOK'
    BY <2>5 DEF UnlockDelete, DropKey, AfterDelete, LeaseOf
  <2>6. ASSUME NEW g \in Handler, UnlockFail(g) PROVE LockTypeOK'
    BY <2>6 DEF UnlockFail, DropKey, AfterUnlock, LeaseOf
  <2>7. ASSUME NEW n \in Node, Crash(n) \/ Restart(n) PROVE LockTypeOK'
    BY <2>7 DEF Crash, Restart
  <2>8. ASSUME NEW l \in Lease, Expire(l) PROVE LockTypeOK'
    BY <2>8 DEF Expire, DropKey
  <2>9. CASE UNCHANGED lockVars
    BY <2>9 DEF lockVars
  <2>10. QED
    BY <2>1, <2>2, <2>3, <2>4, <2>5, <2>6, <2>7, <2>8, <2>9 DEF LockNext, LockStep
<1>3. QED
  BY <1>1, <1>2, PTL DEF LockSpec

--------------------------------------------------------------------------------
\* A step of a goroutine in Lock keeps the inductive invariant (mutex.go:42-78).
LEMMA LockKeepsInv ==
    ASSUME Reliable, MutexInv, NEW g \in Handler,
           LockTxn(g) \/ LockFail(g) \/ LockResp(g) \/ LockTest(g) \/ LockWait(g)
             \/ LockWaitErr(g),
           LockTypeOK'
    PROVE  MutexInv'
<1> USE MutexAssumption DEF Reliable
<1> USE DEF MutexInv, LeaseOf
<1>1. CASE LockTxn(g)
  <2> USE <1>1 DEF LockTxn, PutKey, Rank
  <2>1. LeasesInv'
    BY DEF LeasesInv, LockTypeOK
  <2>2. ControlInv'
    BY DEF ControlInv, LockTypeOK
  <2>3. OrderInv'
    BY DEF OrderInv, LockTypeOK
  <2>4. ASSUME NEW h \in Handler, h # g PROVE lease[NodeOf[h]] # lease[NodeOf[g]]
    BY <2>4 DEF Serial, LeasesInv
  <2>5. QueueInv'
    BY <2>4 DEF QueueInv, LockTypeOK
  <2>6. QED
    BY <2>1, <2>2, <2>3, <2>5
<1>2. CASE LockFail(g)
  BY <1>2 DEF LockFail, LeasesInv
<1>3. CASE LockResp(g)
  BY <1>3 DEF LockResp, LeasesInv, ControlInv, OrderInv, QueueInv, LockTypeOK, Serial
<1>4. CASE LockTest(g)
  BY <1>4 DEF LockTest, LeasesInv, ControlInv, OrderInv, QueueInv, LockTypeOK
<1>5. CASE LockWait(g)
  BY <1>5 DEF LockWait, LeasesInv, ControlInv, OrderInv, QueueInv, LockTypeOK
<1>6. CASE LockWaitErr(g)
  BY <1>6 DEF LockWaitErr
<1>7. QED
  BY <1>1, <1>2, <1>3, <1>4, <1>5, <1>6

\* A key that goes away takes nothing from the other keys' order.
LEMMA DropKeepsOrder ==
    ASSUME LockTypeOK, OrderInv, NEW l \in Lease, DropKey(l)
    PROVE  OrderInv'
BY DEF OrderInv, DropKey, LockTypeOK

\* A step of a goroutine in Unlock keeps the inductive invariant (mutex.go:80-88).
LEMMA UnlockKeepsInv ==
    ASSUME Reliable, MutexInv, NEW g \in Handler,
           UnlockSend(g) \/ UnlockDelete(g) \/ UnlockFail(g) \/ UnlockReset(g),
           LockTypeOK'
    PROVE  MutexInv'
<1> USE MutexAssumption DEF Reliable
<1> USE DEF MutexInv, LeaseOf
<1>1. CASE UnlockSend(g)
  BY <1>1 DEF UnlockSend, LeasesInv, ControlInv, OrderInv, QueueInv, LockTypeOK
<1>2. CASE UnlockReset(g)
  BY <1>2 DEF UnlockReset, AfterUnlock, LeasesInv, ControlInv, OrderInv, QueueInv,
              LockTypeOK, Serial
<1>3. ASSUME UnlockDelete(g) \/ UnlockFail(g)
      PROVE  MutexInv'
  <2> DEFINE l == lease[NodeOf[g]]
  <2>1. l \in Lease
    BY DEF LockTypeOK
  <2>2. /\ UNCHANGED <<expired, up, lease, myKey>>
        /\ lpc' \in {[lpc EXCEPT ![g] = "idle"], [lpc EXCEPT ![g] = "reset"]}
        /\ lpc[g] \in {"del", "nul"}
    BY <1>3 DEF UnlockDelete, UnlockFail, AfterDelete, AfterUnlock, ControlInv
  <2>3. LeasesInv' /\ ControlInv'
    BY <2>2 DEF LeasesInv, ControlInv, LockTypeOK
  <2>4. CASE UNCHANGED <<keys, earlier, myRev, ahead>>
    BY <2>2, <2>3, <2>4 DEF OrderInv, QueueInv, LockTypeOK
  <2>5. CASE DropKey(l)
    <3>1. OrderInv'
      BY <2>1, <2>5, DropKeepsOrder
    <3>2. ASSUME NEW h \in Handler, h # g PROVE lease[NodeOf[h]] # l
      BY <3>2 DEF Serial, LeasesInv
    <3>3. QueueInv'
      BY <2>1, <2>2, <2>5, <3>2 DEF QueueInv, DropKey, LockTypeOK
    <3>4. QED
      BY <2>3, <3>1, <3>3
  <2>6. QED
    BY <1>3, <2>4, <2>5 DEF UnlockDelete, UnlockFail
<1>4. QED
  BY <1>1, <1>2, <1>3

\* Crashes, restarts and the expiry of dead leases keep the inductive invariant
\* (session.go, NewEtcdLock).
LEMMA EnvironmentKeepsInv ==
    ASSUME Reliable, MutexInv, LockTypeOK',
           \/ \E n \in Node : Crash(n) \/ Restart(n)
           \/ \E l \in Lease : Expire(l)
    PROVE  MutexInv'
<1> USE MutexAssumption DEF Reliable
<1> USE DEF MutexInv, LeaseOf
<1>1. ASSUME NEW n \in Node, Crash(n) PROVE MutexInv'
  BY <1>1 DEF Crash, LeasesInv, ControlInv, OrderInv, QueueInv, LockTypeOK
<1>2. ASSUME NEW n \in Node, Restart(n) PROVE MutexInv'
  <2>1. ASSUME NEW g \in Handler, NodeOf[g] = n PROVE lpc[g] = "idle"
    BY <1>2, <2>1 DEF Restart, ControlInv
  <2>2. LeasesInv' /\ ControlInv' /\ OrderInv'
    BY <1>2, <2>1 DEF Restart, LeasesInv, ControlInv, OrderInv, LockTypeOK
  <2>3. QueueInv'
    BY <1>2, <2>1 DEF Restart, QueueInv, LockTypeOK
  <2>4. QED
    BY <2>2, <2>3
<1>3. ASSUME NEW l \in Lease, Expire(l) PROVE MutexInv'
  <2>1. OrderInv'
    BY <1>3, DropKeepsOrder DEF Expire
  <2>2. ASSUME NEW g \in Handler, lpc[g] # "idle" PROVE lease[NodeOf[g]] # l
    BY <1>3, <2>2 DEF Expire, ControlInv
  <2>3. LeasesInv' /\ ControlInv'
    BY <1>3 DEF Expire, LeasesInv, ControlInv, LockTypeOK
  <2>4. QueueInv'
    BY <1>3, <2>2 DEF Expire, QueueInv, DropKey, LockTypeOK
  <2>5. QED
    BY <2>1, <2>3, <2>4
<1>4. QED
  BY <1>1, <1>2, <1>3

\* The inductive invariant holds initially and after every step.
LEMMA MutexInvInductive ==
    ASSUME Reliable
    PROVE  /\ LockInit => MutexInv
           /\ MutexInv /\ LockTypeOK' /\ [LockNext]_lockVars => MutexInv'
<1>1. LockInit => MutexInv
  BY MutexAssumption DEF LockInit, MutexInv, LockTypeOK, LockPC, LeasesInv, ControlInv, OrderInv,
      QueueInv, LeaseOf
<1>2. ASSUME MutexInv, LockTypeOK', [LockNext]_lockVars PROVE MutexInv'
  <2>1. CASE UNCHANGED lockVars
    BY <1>2, <2>1 DEF lockVars, MutexInv, LockTypeOK, LeasesInv, ControlInv, OrderInv,
                      QueueInv, LeaseOf
  <2>2. CASE \E g \in Handler : LockStep(g)
    BY <1>2, <2>2, LockKeepsInv, UnlockKeepsInv DEF LockStep
  <2>3. CASE \/ \E n \in Node : Crash(n) \/ Restart(n)
             \/ \E l \in Lease : Expire(l)
    BY <1>2, <2>3, EnvironmentKeepsInv
  <2>4. QED
    BY <1>2, <2>1, <2>2, <2>3 DEF LockNext
<1>3. QED
  BY <1>1, <1>2

\* "Lock acquires an exclusive lock" (lock.go:49), for any number of nodes that
\* crash, restart and fail to unlock, as long as each serves one request at a time,
\* keeps its lease and gets answers from etcd when it locks.
THEOREM Exclusion ==
    ASSUME Reliable
    PROVE  LockSpec => []MutualExclusion
<1>1. MutexInv => MutualExclusion
  <2> SUFFICES ASSUME MutexInv, NEW g \in Handler, NEW h \in Handler, g # h,
                      lpc[g] = "crit", lpc[h] = "crit"
               PROVE  FALSE
    BY DEF MutualExclusion
  <2>1. LeaseOf(g) # LeaseOf(h)
    BY MutexAssumption DEF Reliable, Serial, MutexInv, LeasesInv, LeaseOf
  <2>2. LeaseOf(g) \in earlier[LeaseOf(h)] \/ LeaseOf(h) \in earlier[LeaseOf(g)]
    BY <2>1 DEF MutexInv, QueueInv, OrderInv
  <2>3. QED
    BY <2>2 DEF MutexInv, QueueInv
<1>2. QED
  BY <1>1, LockTypeCorrect, MutexInvInductive, PTL DEF LockSpec

--------------------------------------------------------------------------------
\* The field myKey names the key for as long as Unlock has to find it there, and
\* only a goroutine between the two calls accounts for a key in etcd.
ReleaseInv ==
    /\ \A g \in Handler :
        /\ lpc[g] \in {"resp", "test", "wait", "crit"} => myKey[NodeOf[g]] = "key"
        /\ lpc[g] # "nul"
    /\ \A n \in up :
        (\A g \in Handler : NodeOf[g] = n => lpc[g] \in {"idle", "reset"})
            => lease[n] \notin keys

\* Without failing Deletes, every step keeps the account of keys (mutex.go:80-88).
LEMMA ReleaseInvInductive ==
    ASSUME Reliable, ~UnlockErrors
    PROVE  /\ LockInit => ReleaseInv
           /\ MutexInv /\ ReleaseInv /\ [LockNext]_lockVars => ReleaseInv'
<1> USE MutexAssumption DEF Reliable
<1>1. LockInit => ReleaseInv
  BY DEF LockInit, ReleaseInv
<1>2. ASSUME MutexInv, ReleaseInv, [LockNext]_lockVars PROVE ReleaseInv'
  <2> USE <1>2 DEF MutexInv, LeaseOf
  <2>1. CASE UNCHANGED lockVars
    BY <2>1 DEF lockVars, ReleaseInv
  <2>2. ASSUME NEW g \in Handler, LockTxn(g) PROVE ReleaseInv'
    <3> USE <2>2 DEF LockTxn, PutKey, LockTypeOK
    <3>1. ASSUME NEW n \in up, n # NodeOf[g] PROVE lease[n] # lease[NodeOf[g]]
      BY <3>1 DEF LeasesInv
    <3>2. QED
      BY <3>1 DEF ReleaseInv
  <2>3. ASSUME NEW g \in Handler, LockFail(g) \/ LockWaitErr(g) \/ UnlockFail(g)
        PROVE  ReleaseInv'
    BY <2>3 DEF LockFail, LockWaitErr, UnlockFail, LeasesInv
  <2>4. ASSUME NEW g \in Handler,
               LockResp(g) \/ LockTest(g) \/ LockWait(g) \/ UnlockSend(g)
        PROVE  ReleaseInv'
    BY <2>4 DEF LockResp, LockTest, LockWait, UnlockSend, ReleaseInv, LockTypeOK
  <2>5. ASSUME NEW g \in Handler, UnlockDelete(g) PROVE ReleaseInv'
    <3>1. lpc[g] = "del" /\ lpc' = [lpc EXCEPT ![g] = "reset"]
      BY <2>5 DEF UnlockDelete, AfterDelete, ControlInv, ReleaseInv
    <3>2. keys' = keys \ {lease[NodeOf[g]]} /\ UNCHANGED <<up, lease, myKey>>
      BY <2>5, <3>1 DEF UnlockDelete, DropKey
    <3>3. QED
      BY <3>1, <3>2 DEF ReleaseInv, LockTypeOK
  <2>6. ASSUME NEW g \in Handler, UnlockReset(g) PROVE ReleaseInv'
    <3>1. lpc' = [lpc EXCEPT ![g] = "idle"]
      BY <2>6 DEF UnlockReset, AfterUnlock, ControlInv
    <3>2. ASSUME NEW h \in Handler, lpc'[h] # "idle"
          PROVE  NodeOf[h] # NodeOf[g] /\ lpc'[h] = lpc[h]
      BY <3>1, <3>2 DEF LockTypeOK, Serial
    <3>3. ASSUME NEW h \in Handler, lpc'[h] \in {"idle", "reset"}
          PROVE  lpc[h] \in {"idle", "reset"}
      BY <2>6, <3>1, <3>3 DEF UnlockReset, LockTypeOK, ControlInv
    <3>4. myKey' = [myKey EXCEPT ![NodeOf[g]] = "nul"] /\ UNCHANGED <<keys, up, lease>>
      BY <2>6 DEF UnlockReset
    <3>5. QED
      BY <3>2, <3>3, <3>4 DEF ReleaseInv, LockTypeOK
  <2>7. ASSUME NEW n \in Node, Crash(n) PROVE ReleaseInv'
    BY <2>7 DEF Crash, ReleaseInv, LockTypeOK
  <2>8. ASSUME NEW n \in Node, Restart(n) PROVE ReleaseInv'
    <3>1. ASSUME NEW g \in Handler, NodeOf[g] = n PROVE lpc[g] = "idle"
      BY <2>8, <3>1 DEF Restart, ControlInv
    <3>2. QED
      BY <2>8, <3>1 DEF Restart, ReleaseInv, LockTypeOK
  <2>9. ASSUME NEW l \in Lease, Expire(l) PROVE ReleaseInv'
    BY <2>9 DEF Expire, DropKey, ReleaseInv, LockTypeOK
  <2>10. QED
    BY <2>1, <2>2, <2>3, <2>4, <2>5, <2>6, <2>7, <2>8, <2>9 DEF LockNext, LockStep
<1>3. QED
  BY <1>1, <1>2

\* "Unlock releases the lock" (lock.go:54) for any number of nodes that crash and
\* restart, as long as each serves one request at a time and no call of etcd fails.
THEOREM Release ==
    ASSUME Reliable, ~UnlockErrors
    PROVE  LockSpec => []UnlockReleases
<1>1. ReleaseInv => UnlockReleases
  BY DEF ReleaseInv, UnlockReleases
<1>2. QED
  BY <1>1, LockTypeCorrect, MutexInvInductive, ReleaseInvInductive, PTL DEF LockSpec

--------------------------------------------------------------------------------
(***************************************************************************)
(* Why the waits of the lock never form a circle, whatever fails and       *)
(* however many goroutines share a Mutex.                                  *)
(***************************************************************************)

\* The keys are ordered by their age: a strict, transitive order.
AgeInv ==
    /\ IsFiniteSet(keys)
    /\ \A l \in Lease : earlier[l] \subseteq keys /\ l \notin earlier[l]
    /\ \A l \in Lease : \A k \in earlier[l] : earlier[k] \subseteq earlier[l]

\* A revision of lease l's Mutex is no newer than the key of l, if that exists: keys that
\* are older than the revision are older than the key.
NotNewer(l, rev) == rev \subseteq keys /\ (l \in keys => rev \subseteq earlier[l])

RevInv ==
    /\ \A n \in Node : NotNewer(lease[n], myRev[n])
    /\ \A g \in Handler : NotNewer(LeaseOf(g), ahead[g])

WaitInv == LockTypeOK /\ AgeInv /\ RevInv

\* A key that is put is the newest (mutex.go:45-56).
LEMMA PutKeepsAge ==
    ASSUME LockTypeOK, AgeInv, NEW l \in Lease, PutKey(l)
    PROVE  /\ AgeInv'
           /\ \A k \in Lease, rev \in SUBSET Lease : NotNewer(k, rev) => NotNewer(k, rev)'
           /\ Rank(l) \subseteq keys' /\ Rank(l) \subseteq earlier'[l]
<1> USE DEF LockTypeOK, AgeInv
<1>1. /\ keys' = keys \cup {l} /\ earlier'[l] = Rank(l)
      /\ \A k \in Lease \ {l} : earlier'[k] = earlier[k]
  BY DEF PutKey
<1>2. IsFiniteSet(keys')
  BY <1>1, FS_AddElement
<1>3. Rank(l) \subseteq keys /\ l \notin Rank(l) /\ (l \in keys => Rank(l) = earlier[l])
      /\ (l \notin keys => Rank(l) = keys)
  BY DEF Rank
<1>4. ASSUME NEW k \in Lease PROVE earlier'[k] \subseteq keys' /\ k \notin earlier'[k]
  BY <1>1, <1>3
<1>5. ASSUME NEW m \in Lease, NEW k \in earlier'[m] PROVE earlier'[k] \subseteq earlier'[m]
  <2>1. CASE m = l
    BY <1>1, <1>3, <1>5, <2>1
  <2>2. CASE m # l
    BY <1>1, <1>3, <1>5, <2>2
  <2>3. QED
    BY <2>1, <2>2
<1>6. ASSUME NEW k \in Lease, NEW rev \in SUBSET Lease, NotNewer(k, rev)
      PROVE  NotNewer(k, rev)'
  BY <1>1, <1>3, <1>6 DEF NotNewer
<1>7. AgeInv'
  BY <1>2, <1>4, <1>5
<1>8. QED
  BY <1>1, <1>3, <1>6, <1>7

\* A key that goes away is older than none.
LEMMA DropKeepsAge ==
    ASSUME LockTypeOK, AgeInv, NEW l \in Lease, DropKey(l)
    PROVE  /\ AgeInv'
           /\ \A k \in Lease, rev \in SUBSET Lease : NotNewer(k, rev) => NotNewer(k, rev \ {l})'
<1> USE DEF LockTypeOK, AgeInv
<1>1. /\ keys' = keys \ {l} /\ earlier'[l] = {}
      /\ \A k \in Lease \ {l} : earlier'[k] = earlier[k] \ {l}
  BY DEF DropKey
<1>2. IsFiniteSet(keys')
  BY <1>1, FS_RemoveElement
<1>3. ASSUME NEW k \in Lease PROVE earlier'[k] \subseteq keys' /\ k \notin earlier'[k]
  BY <1>1
<1>4. ASSUME NEW m \in Lease, NEW k \in earlier'[m] PROVE earlier'[k] \subseteq earlier'[m]
  BY <1>1, <1>4
<1>5. ASSUME NEW k \in Lease, NEW rev \in SUBSET Lease, NotNewer(k, rev)
      PROVE  NotNewer(k, rev \ {l})'
  BY <1>1, <1>5 DEF NotNewer
<1>6. QED
  BY <1>2, <1>3, <1>4, <1>5

\* A step that puts or deletes no key.
LEMMA KeysStay ==
    ASSUME WaitInv, LockTypeOK', UNCHANGED <<keys, earlier>>,
           \A n \in Node : NotNewer(lease'[n], myRev'[n]),
           \A g \in Handler : NotNewer(LeaseOf(g)', ahead'[g])
    PROVE  WaitInv'
<1>1. AgeInv'
  BY DEF WaitInv, AgeInv
<1>2. RevInv'
  BY DEF RevInv, NotNewer
<1>3. QED
  BY <1>1, <1>2 DEF WaitInv

\* A key goes away with its lease or in an Unlock; all revisions follow.
LEMMA DropKeepsWaits ==
    ASSUME WaitInv, LockTypeOK', NEW l \in Lease, DropKey(l), UNCHANGED lease
    PROVE  WaitInv'
<1> USE MutexAssumption DEF WaitInv
<1>1. AgeInv'
  BY DropKeepsAge
<1>2. ASSUME NEW k \in Lease, NEW rev \in SUBSET Lease, NotNewer(k, rev)
      PROVE  rev \ {l} \subseteq keys' /\ (k \in keys' => rev \ {l} \subseteq earlier'[k])
  BY <1>2, DropKeepsAge DEF NotNewer
<1>3. ASSUME NEW n \in Node PROVE NotNewer(lease[n], myRev[n])'
  <2>1. lease[n] \in Lease /\ myRev[n] \in SUBSET Lease /\ NotNewer(lease[n], myRev[n])
    BY DEF LockTypeOK, RevInv
  <2>2. myRev'[n] = myRev[n] \ {l} /\ lease'[n] = lease[n]
    BY DEF DropKey
  <2>3. QED
    BY <1>2, <2>1, <2>2 DEF NotNewer
<1>4. ASSUME NEW g \in Handler PROVE NotNewer(LeaseOf(g), ahead[g])'
  <2>1. LeaseOf(g) \in Lease /\ ahead[g] \in SUBSET Lease /\ NotNewer(LeaseOf(g), ahead[g])
    BY DEF LockTypeOK, RevInv, LeaseOf
  <2>2. ahead'[g] = ahead[g] \ {l} /\ LeaseOf(g)' = LeaseOf(g)
    BY DEF DropKey, LeaseOf
  <2>3. QED
    BY <1>2, <2>1, <2>2 DEF NotNewer
<1>5. QED
  BY <1>1, <1>3, <1>4 DEF RevInv

\* The transaction of Lock puts the key, if it does not exist, and answers with its
\* revision, or fails with the key put.
LEMMA PutKeepsWaits ==
    ASSUME WaitInv, LockTypeOK', NEW g \in Handler, PutKey(LeaseOf(g)), UNCHANGED <<lease, myRev>>,
           ahead' \in {ahead, [ahead EXCEPT ![g] = Rank(LeaseOf(g))]}
    PROVE  WaitInv'
<1> USE MutexAssumption DEF WaitInv
<1>1. LeaseOf(g) \in Lease
  BY DEF LockTypeOK, LeaseOf
<1>2. AgeInv' /\ Rank(LeaseOf(g)) \subseteq keys' /\ Rank(LeaseOf(g)) \subseteq earlier'[LeaseOf(g)]
  BY <1>1, PutKeepsAge
<1>3. ASSUME NEW k \in Lease, NEW rev \in SUBSET Lease, NotNewer(k, rev)
      PROVE  rev \subseteq keys' /\ (k \in keys' => rev \subseteq earlier'[k])
  BY <1>1, <1>3, PutKeepsAge DEF NotNewer
<1>4. ASSUME NEW n \in Node PROVE NotNewer(lease[n], myRev[n])'
  <2>1. lease[n] \in Lease /\ myRev[n] \in SUBSET Lease /\ NotNewer(lease[n], myRev[n])
    BY DEF LockTypeOK, RevInv
  <2>2. QED
    BY <1>3, <2>1 DEF NotNewer
<1>5. ASSUME NEW h \in Handler PROVE NotNewer(LeaseOf(h), ahead[h])'
  <2>1. LeaseOf(h) \in Lease /\ ahead[h] \in SUBSET Lease /\ NotNewer(LeaseOf(h), ahead[h])
        /\ LeaseOf(h)' = LeaseOf(h)
    BY DEF LockTypeOK, RevInv, LeaseOf
  <2>2. CASE ahead'[h] = ahead[h]
    BY <1>3, <2>1, <2>2 DEF NotNewer
  <2>3. CASE h = g /\ ahead'[h] = Rank(LeaseOf(g))
    BY <1>2, <2>1, <2>3 DEF NotNewer
  <2>4. QED
    BY <2>2, <2>3 DEF LockTypeOK
<1>6. QED
  BY <1>2, <1>4, <1>5 DEF RevInv

\* The order of the keys and the revisions holds initially and after every step.
LEMMA WaitInvInductive ==
    /\ LockInit => WaitInv
    /\ WaitInv /\ LockTypeOK' /\ [LockNext]_lockVars => WaitInv'
<1> USE MutexAssumption
<1>1. ASSUME LockInit PROVE WaitInv
  <2>1. LockTypeOK
    BY <1>1 DEF LockInit, LockTypeOK, LockPC
  <2>2. AgeInv
    BY <1>1, FS_EmptySet DEF LockInit, AgeInv
  <2>3. RevInv
    BY <1>1 DEF LockInit, RevInv, NotNewer, LeaseOf
  <2>4. QED
    BY <2>1, <2>2, <2>3 DEF WaitInv
<1>2. ASSUME WaitInv, LockTypeOK', [LockNext]_lockVars PROVE WaitInv'
  <2> USE <1>2
  <2> USE DEF WaitInv
  <2>1. CASE UNCHANGED lockVars
    BY <2>1, KeysStay DEF lockVars, RevInv, LeaseOf
  <2>2. ASSUME NEW g \in Handler, LockTxn(g) \/ LockFail(g) PROVE WaitInv'
    <3>1. CASE PutKey(LeaseOf(g))
      BY <2>2, <3>1, PutKeepsWaits DEF LockTxn, LockFail
    <3>2. CASE UNCHANGED <<keys, earlier, lease, myRev, ahead>>
      BY <3>2, KeysStay DEF RevInv, LeaseOf
    <3>3. QED
      BY <2>2, <3>1, <3>2 DEF LockTxn, LockFail
  <2>3. ASSUME NEW g \in Handler, LockResp(g) PROVE WaitInv'
    <3>1. /\ UNCHANGED <<keys, earlier, lease, ahead>>
          /\ myRev' = [myRev EXCEPT ![NodeOf[g]] = ahead[g]]
      BY <2>3 DEF LockResp
    <3>2. ASSUME NEW n \in Node PROVE NotNewer(lease[n], myRev'[n])
      BY <3>1 DEF RevInv, LeaseOf, LockTypeOK
    <3>3. QED
      BY <3>1, <3>2, KeysStay DEF RevInv, LeaseOf
  <2>4. ASSUME NEW g \in Handler, LockTest(g) PROVE WaitInv'
    <3>1. /\ UNCHANGED <<keys, earlier, lease, myRev>>
          /\ ahead' = [ahead EXCEPT ![g] = myRev[NodeOf[g]]]
      BY <2>4 DEF LockTest
    <3>2. ASSUME NEW h \in Handler PROVE NotNewer(LeaseOf(h), ahead'[h])
      BY <3>1 DEF RevInv, LeaseOf, LockTypeOK
    <3>3. QED
      BY <3>1, <3>2, KeysStay DEF RevInv, LeaseOf
  <2>5. ASSUME NEW g \in Handler, LockWait(g) \/ UnlockSend(g) PROVE WaitInv'
    BY <2>5, KeysStay DEF LockWait, UnlockSend, RevInv, LeaseOf
  <2>6. ASSUME NEW g \in Handler, LockWaitErr(g) PROVE WaitInv'
    <3>1. UNCHANGED <<keys, earlier, lease, myRev>> /\ ahead' = [ahead EXCEPT ![g] = {}]
      BY <2>6 DEF LockWaitErr
    <3>2. ASSUME NEW h \in Handler PROVE NotNewer(LeaseOf(h), ahead'[h])
      BY <3>1 DEF RevInv, LockTypeOK, NotNewer
    <3>3. QED
      BY <3>1, <3>2, KeysStay DEF RevInv, LeaseOf
  <2>7. ASSUME NEW g \in Handler, UnlockDelete(g) \/ UnlockFail(g) PROVE WaitInv'
    <3>1. LeaseOf(g) \in Lease /\ UNCHANGED lease
      BY <2>7 DEF UnlockDelete, UnlockFail, LockTypeOK, LeaseOf
    <3>2. CASE DropKey(LeaseOf(g))
      BY <3>1, <3>2, DropKeepsWaits
    <3>3. CASE UNCHANGED <<keys, earlier, myRev, ahead>>
      BY <3>1, <3>3, KeysStay DEF RevInv, LeaseOf
    <3>4. QED
      BY <2>7, <3>2, <3>3 DEF UnlockDelete, UnlockFail
  <2>8. ASSUME NEW g \in Handler, UnlockReset(g) PROVE WaitInv'
    <3>1. /\ UNCHANGED <<keys, earlier, lease, ahead>>
          /\ myRev' = [myRev EXCEPT ![NodeOf[g]] = {}]
      BY <2>8 DEF UnlockReset
    <3>2. ASSUME NEW n \in Node PROVE NotNewer(lease[n], myRev'[n])
      BY <3>1 DEF RevInv, LockTypeOK, NotNewer
    <3>3. QED
      BY <3>1, <3>2, KeysStay DEF RevInv, LeaseOf
  <2>9. ASSUME NEW n \in Node, Crash(n) PROVE WaitInv'
    <3>1. /\ UNCHANGED <<keys, earlier, lease, myRev>>
          /\ \A g \in Handler : ahead'[g] = {} \/ ahead'[g] = ahead[g]
      BY <2>9 DEF Crash
    <3>2. ASSUME NEW g \in Handler PROVE NotNewer(LeaseOf(g), ahead'[g])
      BY <3>1 DEF RevInv, NotNewer
    <3>3. QED
      BY <3>1, <3>2, KeysStay DEF RevInv, LeaseOf
  <2>10. ASSUME NEW n \in Node, Restart(n) PROVE WaitInv'
    <3>1. /\ UNCHANGED <<keys, earlier, ahead>> /\ myRev'[n] = {} /\ lease'[n] \notin keys
          /\ \A m \in Node \ {n} : myRev'[m] = myRev[m] /\ lease'[m] = lease[m]
      BY <2>10 DEF Restart, LockTypeOK
    <3>2. ASSUME NEW m \in Node PROVE NotNewer(lease'[m], myRev'[m])
      BY <3>1 DEF RevInv, NotNewer
    <3>3. ASSUME NEW g \in Handler PROVE NotNewer(lease'[NodeOf[g]], ahead'[g])
      BY <3>1 DEF RevInv, NotNewer, LeaseOf
    <3>4. QED
      BY <3>1, <3>2, <3>3, KeysStay DEF LeaseOf
  <2>11. ASSUME NEW l \in Lease, Expire(l) PROVE WaitInv'
    BY <2>11, DropKeepsWaits DEF Expire
  <2>12. QED
    BY <2>1, <2>2, <2>3, <2>4, <2>5, <2>6, <2>7, <2>8, <2>9, <2>10, <2>11 DEF LockNext, LockStep
<1>3. QED
  BY <1>1, <1>2

\* In any set of goroutines blocked in Lock one waits for none of the others' keys
\* (mutex.go:68-76), for any number of nodes and of goroutines that share a Mutex and
\* whatever fails: of those that have a key, the one whose key is the oldest.
THEOREM WaitsAreAcyclic == LockSpec => []NoCircularWait
<1> USE MutexAssumption
<1>1. ASSUME WaitInv PROVE NoCircularWait
  <2> SUFFICES ASSUME NEW W \in SUBSET Handler, W # {}
               PROVE  \E g \in W : \A h \in W : LeaseOf(h) \notin ahead[g]
    BY DEF NoCircularWait
  <2> DEFINE K == {g \in W : LeaseOf(g) \in keys}
             Age(g) == Cardinality(earlier[LeaseOf(g)])
             T == {Age(g) : g \in K}
  <2>1. \A g \in Handler : /\ LeaseOf(g) \in Lease /\ ahead[g] \subseteq keys
                           /\ LeaseOf(g) \in keys => ahead[g] \subseteq earlier[LeaseOf(g)]
    BY <1>1 DEF WaitInv, LockTypeOK, RevInv, NotNewer, LeaseOf
  <2>2. CASE K = {}
    BY <2>1, <2>2
  <2>3. CASE K # {}
    <3>1. \A l \in Lease : IsFiniteSet(earlier[l]) /\ Cardinality(earlier[l]) \in Nat
      BY <1>1, FS_Subset, FS_CardinalityType DEF WaitInv, AgeInv
    <3>2. T \subseteq Nat /\ T # {}
      BY <2>1, <2>3, <3>1
    <3>3. PICK t \in T : \A u \in T : <<u, t>> \notin OpToRel(<, Nat)
      BY <3>2, NatLessThanWellFounded, WFMin
    <3>4. PICK g \in K : t = Age(g)
      BY <3>3
    <3>5. ASSUME NEW h \in W, LeaseOf(h) \in ahead[g] PROVE FALSE
      <4>1. LeaseOf(h) \in earlier[LeaseOf(g)] /\ h \in K
        BY <2>1, <3>4, <3>5
      <4>2. /\ earlier[LeaseOf(h)] \in SUBSET earlier[LeaseOf(g)]
            /\ earlier[LeaseOf(h)] # earlier[LeaseOf(g)]
        BY <1>1, <2>1, <3>4, <4>1 DEF WaitInv, AgeInv
      <4>3. /\ Age(h) <= Age(g) /\ Age(h) # Age(g)
            /\ Age(h) \in Nat /\ Age(g) \in Nat
        BY <2>1, <3>1, <3>4, <4>2, FS_Subset
      <4>4. Age(h) < Age(g)
        BY <4>3
      <4>5. <<Age(h), t>> \in OpToRel(<, Nat)
        BY <3>4, <4>3, <4>4 DEF OpToRel
      <4>6. Age(h) \in T
        BY <4>1
      <4>7. QED
        BY <3>3, <4>5, <4>6
    <3>6. QED
      BY <3>4, <3>5
  <2>4. QED
    BY <2>2, <2>3
<1>2. QED
  BY <1>1, LockTypeCorrect, WaitInvInductive, PTL DEF LockSpec

================================================================================
