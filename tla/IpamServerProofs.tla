--------------------------- MODULE IpamServerProofs ---------------------------
(***************************************************************************)
(* The IPAM servers keep every address with one container, for every       *)
(* number of nodes, containers and addresses.                              *)
(***************************************************************************)
EXTENDS IpamServer, EtcdMutexProofs, AddrRangeProofs

\* A step of the servers is a step of the lock or leaves the lock alone.
LEMMA LockRefined == [Next]_vars => [LockNext]_lockVars
<1> SUFFICES ASSUME [Next]_vars PROVE [LockNext]_lockVars
  OBVIOUS
<1>1. ASSUME NEW h \in Handler, Request(h) \/ GiveUp(h) PROVE UNCHANGED lockVars
  BY <1>1 DEF Request, AddRecv, DelRecv, CheckRecv, Begin, GiveUp
<1>2. ASSUME NEW h \in Handler, Serve(h) PROVE UNCHANGED lockVars
  BY <1>2 DEF Serve, PickRequested, GetRequested, GetDynamic, GetNext, ReserveGet,
      ReservePut, ReserveLast, AfterGet, AddUnfulfilled, AddReply, AddReplyEmpty,
      ReleaseList, ReleaseDelete, ReleaseNext, ReleaseReply, FindByID, CheckReply
<1>3. ASSUME NEW h \in Handler, LockCall(h) PROVE LockNext
  BY <1>3 DEF LockCall, LockNext, LockStep
<1>4. ASSUME NEW n \in Node, Die(n) PROVE LockNext
  BY <1>4 DEF Die, LockNext
<1>5. QED
  BY <1>1, <1>2, <1>3, <1>4 DEF Next, LockNext, vars

\* The range sets together contain what each allocator may reserve.
LEMMA RangesetFacts ==
    ASSUME NEW i
    PROVE  /\ WellFormedSet(Rangeset(i))
           /\ Addresses(Rangeset(i)) \subseteq IP
           /\ IP \subseteq Nat
<1>1. NumAllocs \in DOMAIN Ranges
  BY ServerAssumption DEF NumAllocs
<1>2. WellFormedSet(Rangeset(i))
  BY <1>1, ServerAssumption DEF Rangeset
<1>3. Addresses(Rangeset(i)) \subseteq IP
  BY <1>1 DEF Rangeset, IP
<1>4. ASSUME NEW a \in IP PROVE a \in Nat
  <2>1. PICK k \in DOMAIN Ranges : a \in Addresses(Ranges[k])
    BY <1>4 DEF IP
  <2>2. PICK j \in DOMAIN Ranges[k] : a \in Members(Ranges[k][j])
    BY <2>1 DEF Addresses
  <2>3. WellFormed(Ranges[k][j])
    BY <2>2, ServerAssumption DEF WellFormedSet
  <2>4. QED
    BY <2>2, <2>3 DEF Members, WellFormed
<1>5. QED
  BY <1>2, <1>3, <1>4

\* What a handler's variables mean where it is.
LocalInv ==
    \A h \in Handler :
        /\ pc[h] # "idle" => cont[h] \in Container
        /\ pc[h] # "pick" => alloc[h] \in 1 .. NumAllocs
        /\ iter[h] # Nil => InRangeSet(Rangeset(1), iter[h])
        /\ pc[h] = "iter" \/ (pc[h] = "resv" /\ ask[h] = Nil) => iter[h] # Nil
        /\ pc[h] \in {"resv", "put", "putlast", "del"} => cand[h] \in IP

TypeInv == ServerTypeOK /\ LocalInv

\* A request that arrives, and a client that leaves, keep the types.
LEMMA RequestKeepsTypes ==
    ASSUME TypeInv, NEW h \in Handler, Request(h) \/ GiveUp(h)
    PROVE  TypeInv'
<1> USE ServerAssumption
<1> USE DEF TypeInv, ServerTypeOK, PC, Locking, Unlocking, reqVars, storeVars, Goto
<1>1. ASSUME NEW c \in Container, NEW ips \in Requests, AddRecv(h, c, ips) PROVE TypeInv'
  <2>1. ServerTypeOK'
    BY <1>1 DEF AddRecv, Begin
  <2>2. LocalInv'
    BY <1>1 DEF AddRecv, Begin, LocalInv
  <2>3. QED
    BY <2>1, <2>2
<1>2. ASSUME NEW c \in Container, DelRecv(h, c) PROVE TypeInv'
  <2>1. ServerTypeOK'
    BY <1>2 DEF DelRecv, Begin
  <2>2. LocalInv'
    BY <1>2 DEF DelRecv, Begin, LocalInv
  <2>3. QED
    BY <2>1, <2>2
<1>3. ASSUME NEW c \in Container, CheckRecv(h, c) PROVE TypeInv'
  <2>1. ServerTypeOK'
    BY <1>3 DEF CheckRecv, Begin
  <2>2. LocalInv'
    BY <1>3 DEF CheckRecv, Begin, LocalInv
  <2>3. QED
    BY <2>1, <2>2
<1>4. ASSUME GiveUp(h) PROVE TypeInv'
  BY <1>4 DEF GiveUp, LocalInv
<1>5. QED
  BY <1>1, <1>2, <1>3, <1>4 DEF Request

\* An iterator is not nil: its fields can be read.
LEMMA NilNotIterator == Nil \notin Iterator
BY NilAssumption

\* The steps of Get and Reserve keep the types (allocator.go:44-121, backend.go:69-91).
LEMMA AllocateKeepsTypes ==
    ASSUME TypeInv, NEW h \in Handler,
           PickRequested(h) \/ GetRequested(h) \/ GetDynamic(h) \/ GetNext(h)
             \/ ReserveGet(h) \/ ReservePut(h) \/ ReserveLast(h) \/ AfterGet(h)
    PROVE  TypeInv'
<1> USE ServerAssumption
<1> USE DEF TypeInv, ServerTypeOK, PC, Locking, Unlocking, reqVars, storeVars, envVars, Goto
<1>0. NumAllocs \in Nat \ {0} /\ Nil \notin Nat
  BY AddrAssumption DEF NumAllocs
<1> DEFINE rs == Rangeset(alloc[h])
<1>a. /\ WellFormedSet(rs) /\ Addresses(rs) \subseteq IP /\ IP \subseteq Nat
      /\ rs = Rangeset(1)
  BY RangesetFacts DEF Rangeset
<1>1. CASE PickRequested(h)
  <2>1. ASSUME NEW a \in want[h], SetContains(rs, a) PROVE a \in IP
    BY <1>a, <2>1, ContainedIsAddress
  <2>2. \/ \E a \in IP : /\ ask' = [ask EXCEPT ![h] = a]
                         /\ want' = [want EXCEPT ![h] = @ \ {a}]
        \/ UNCHANGED <<ask, want>>
    <3>1. CASE UNCHANGED <<ask, want>>
      BY <3>1
    <3>2. CASE \E a \in {b \in want[h] : SetContains(rs, b)} :
                  /\ ask' = [ask EXCEPT ![h] = a]
                  /\ want' = [want EXCEPT ![h] = @ \ {a}]
      BY <3>2, <2>1
    <3>3. QED
      BY <1>1, <3>1, <3>2 DEF PickRequested
  <2>3. ServerTypeOK'
    <3>1. ask' \in [Handler -> IP \cup {Nil}]
      BY <2>2
    <3>2. want' \in [Handler -> SUBSET (Nat \cup {Nil})]
      <4>1. want[h] \in SUBSET (Nat \cup {Nil})
        OBVIOUS
      <4>2. \A a : want[h] \ {a} \in SUBSET (Nat \cup {Nil})
        BY <4>1
      <4>3. \/ \E w \in SUBSET (Nat \cup {Nil}) : want' = [want EXCEPT ![h] = w]
            \/ want' = want
        <5>1. CASE \E a \in IP : want' = [want EXCEPT ![h] = @ \ {a}]
          <6>1. PICK a \in IP : want' = [want EXCEPT ![h] = want[h] \ {a}]
            BY <5>1
          <6>2. want[h] \ {a} \in SUBSET (Nat \cup {Nil})
            BY <4>2
          <6>3. QED
            BY <6>1, <6>2
        <5>2. QED
          BY <2>2, <5>1
      <4>4. QED
        BY <4>3
    <3>3. QED
      BY <1>1, <3>1, <3>2 DEF PickRequested
  <2>4. LocalInv'
    <3>1. pc' = [pc EXCEPT ![h] = "get"] /\ alloc[h] \in 1 .. NumAllocs /\ cont[h] \in Container
      BY <1>1, <1>0 DEF PickRequested, LocalInv
    <3>2. UNCHANGED <<cont, alloc, iter, cand>> /\ \A g \in Handler \ {h} : ask'[g] = ask[g]
      BY <1>1, <2>2 DEF PickRequested
    <3>3. QED
      BY <3>1, <3>2 DEF LocalInv
  <2>5. QED
    BY <2>3, <2>4
<1>2. CASE GetRequested(h)
  <2>1. ServerTypeOK'
    BY <1>2 DEF GetRequested
  <2>2. LocalInv'
    BY <1>2 DEF GetRequested, LocalInv
  <2>3. QED
    BY <2>1, <2>2
<1>3. CASE GetDynamic(h)
  <2>1. last[alloc[h]] \in Nat \cup {Nil}
    BY <1>3, <1>a DEF GetDynamic, LocalInv
  <2>2. InRangeSet(rs, GetIter(rs, last[alloc[h]])) /\ InRangeSet(rs, GetIter(rs, Nil))
    BY <2>1, <1>a, GetIterInRange
  <2>3. iter' = iter \/ \E it : InRangeSet(rs, it) /\ iter' = [iter EXCEPT ![h] = it]
    BY <1>3, <2>2 DEF GetDynamic
  <2>4. pc'[h] = "iter" => iter'[h] # Nil
    <3>1. ASSUME NEW it, InRangeSet(rs, it) PROVE it # Nil
      <4>1. it \in Iterator
        BY <3>1 DEF InRangeSet
      <4>2. QED
        BY <4>1, NilNotIterator
    <3>2. QED
      BY <1>3, <2>2, <3>1 DEF GetDynamic
  <2>5. iter' \in [Handler -> Iterator \cup {Nil}]
    BY <2>3 DEF InRangeSet
  <2>6. ServerTypeOK'
    BY <1>3, <2>5 DEF GetDynamic
  <2>7. LocalInv'
    BY <1>3, <2>3, <2>4, <1>a DEF GetDynamic, LocalInv, Rangeset
  <2>8. QED
    BY <2>6, <2>7
<1>4. CASE GetNext(h)
  <2> DEFINE step == IterStep(rs, iter[h])
  <2>1. InRangeSet(rs, iter[h])
    BY <1>4, <1>a DEF GetNext, LocalInv
  <2>2. InRangeSet(rs, step.iter) /\ step.iter.cur \in IP
    BY <2>1, <1>a, IterStepInRange
  <2>3. step.iter \in Iterator /\ step.iter # Nil
    BY <2>2, NilNotIterator DEF InRangeSet
  <2> HIDE DEF step
  <2>4. /\ iter' = [iter EXCEPT ![h] = step.iter]
        /\ \/ pc' = [pc EXCEPT ![h] = "goterr"] /\ UNCHANGED cand
           \/ UNCHANGED <<pc, cand>>
           \/ pc' = [pc EXCEPT ![h] = "resv"] /\ cand' = [cand EXCEPT ![h] = step.iter.cur]
        /\ UNCHANGED <<storeVars, mode, cont, want, ask, alloc, got, envVars>>
        /\ pc[h] = "iter"
    BY <1>4 DEF GetNext, step
  <2>5. ServerTypeOK'
    BY <2>2, <2>3, <2>4
  <2>6. LocalInv'
    BY <2>2, <2>3, <2>4, <1>a DEF LocalInv, Rangeset
  <2>7. QED
    BY <2>5, <2>6
<1>5. CASE ReserveGet(h)
  <2>1. ServerTypeOK'
    BY <1>5 DEF ReserveGet
  <2>2. LocalInv'
    BY <1>5 DEF ReserveGet, LocalInv
  <2>3. QED
    BY <2>1, <2>2
<1>6. CASE ReservePut(h)
  <2>1. ServerTypeOK'
    BY <1>6 DEF ReservePut, LocalInv
  <2>2. LocalInv'
    BY <1>6 DEF ReservePut, LocalInv
  <2>3. QED
    BY <2>1, <2>2
<1>7. CASE ReserveLast(h)
  <2>1. cand[h] \in IP /\ alloc[h] \in 1 .. NumAllocs
    BY <1>7 DEF ReserveLast, LocalInv
  <2>2. last' \in [1 .. NumAllocs -> IP \cup {Nil}] /\ got' \in [Handler -> SUBSET IP]
    <3>1. last' = last \/ last' = [last EXCEPT ![alloc[h]] = cand[h]]
      BY <1>7 DEF ReserveLast
    <3>2. last' \in [1 .. NumAllocs -> IP \cup {Nil}]
      BY <2>1, <3>1
    <3>3. got[h] \cup {cand[h]} \in SUBSET IP
      BY <2>1
    <3>4. got' = got \/ got' = [got EXCEPT ![h] = got[h] \cup {cand[h]}]
      BY <1>7 DEF ReserveLast
    <3>5. got' \in [Handler -> SUBSET IP]
      BY <3>3, <3>4
    <3>6. QED
      BY <3>2, <3>5
  <2>3. pc' \in [Handler -> PC] /\ UNCHANGED <<owner, mode, cont, want, ask, alloc, cand, iter, envVars>>
    BY <1>7 DEF ReserveLast
  <2>4. ServerTypeOK'
    BY <2>2, <2>3
  <2>5. \E p \in {"gotok", "goterr"} : pc' = [pc EXCEPT ![h] = p]
    BY <1>7 DEF ReserveLast
  <2>6. LocalInv'
    BY <1>7, <2>1, <2>3, <2>5 DEF ReserveLast, LocalInv
  <2>7. QED
    BY <2>4, <2>6
<1>8. CASE AfterGet(h)
  <2>1. alloc[h] \in 1 .. NumAllocs
    BY <1>8 DEF AfterGet, LocalInv
  <2>2. alloc[h] + 1 \in 1 .. NumAllocs + 1
    BY <1>0, <2>1
  <2>3. ServerTypeOK'
    <3>0. \E i \in 1 .. NumAllocs + 1 : alloc' = [alloc EXCEPT ![h] = i]
      <4>1. alloc' = [alloc EXCEPT ![h] = alloc[h] + 1] \/ alloc' = [alloc EXCEPT ![h] = 1]
        BY <1>8 DEF AfterGet
      <4>2. 1 \in 1 .. NumAllocs + 1
        BY <1>0
      <4>3. QED
        BY <2>2, <4>1, <4>2
    <3>1. alloc' \in [Handler -> 1 .. NumAllocs + 1]
      BY <3>0
    <3>2. pc' \in [Handler -> PC]
          /\ mode' \in [Handler -> {"none", "add", "undo", "del", "delerr", "check"}]
      BY <1>8 DEF AfterGet
    <3>3. QED
      BY <1>8, <3>1, <3>2 DEF AfterGet
  <2>4. LocalInv'
    BY <1>8, <2>2, <1>0 DEF AfterGet, LocalInv
  <2>5. QED
    BY <2>3, <2>4
<1>9. QED
  BY <1>1, <1>2, <1>3, <1>4, <1>5, <1>6, <1>7, <1>8

\* The other steps of a handler keep the types (handler.go:131-199, backend.go:107-170).
LEMMA FinishKeepsTypes ==
    ASSUME TypeInv, NEW h \in Handler,
           AddUnfulfilled(h) \/ AddReply(h) \/ AddReplyEmpty(h)
             \/ ReleaseList(h) \/ ReleaseDelete(h) \/ ReleaseNext(h) \/ ReleaseReply(h)
             \/ FindByID(h) \/ CheckReply(h)
    PROVE  TypeInv'
<1> USE ServerAssumption
<1> USE DEF TypeInv, ServerTypeOK, PC, Locking, Unlocking, reqVars, storeVars, envVars, Goto
<1>0. NumAllocs \in Nat \ {0}
  BY DEF NumAllocs
<1>1. CASE AddUnfulfilled(h)
  <2>1. ServerTypeOK'
    BY <1>0, <1>1 DEF AddUnfulfilled
  <2>2. LocalInv'
    BY <1>0, <1>1 DEF AddUnfulfilled, LocalInv
  <2>3. QED
    BY <2>1, <2>2
<1>2. CASE AddReply(h)
  <2>1. ServerTypeOK'
    <3>1. cont[h] \in Container
      BY <1>2 DEF AddReply, LocalInv
    <3>2. held' \in [Container -> SUBSET IP]
      BY <1>2, <3>1 DEF AddReply
    <3>3. phase' \in [Container -> {"absent", "busy", "up", "failed"}]
      BY <1>2, <3>1 DEF AddReply
    <3>4. QED
      BY <1>0, <1>2, <3>2, <3>3 DEF AddReply, Finish
  <2>2. LocalInv'
    BY <1>0, <1>2 DEF AddReply, Finish, LocalInv
  <2>3. QED
    BY <2>1, <2>2
<1>3. CASE AddReplyEmpty(h)
  <2>1. ServerTypeOK'
    <3>1. cont[h] \in Container
      BY <1>3 DEF AddReplyEmpty, LocalInv
    <3>2. phase' \in [Container -> {"absent", "busy", "up", "failed"}]
      BY <1>3, <3>1 DEF AddReplyEmpty
    <3>3. QED
      BY <1>0, <1>3, <3>2 DEF AddReplyEmpty, Finish
  <2>2. LocalInv'
    BY <1>0, <1>3 DEF AddReplyEmpty, Finish, LocalInv
  <2>3. QED
    BY <2>1, <2>2
<1>4. CASE ReleaseList(h)
  <2>1. \/ \E k \in IP : cand' = [cand EXCEPT ![h] = k] /\ Goto(h, "del")
        \/ UNCHANGED cand /\ \E p \in {"relok", "relerr"} : Goto(h, p)
    <3>1. Owned(cont[h]) \subseteq IP
      BY DEF Owned
    <3>2. QED
      BY <1>4, <3>1 DEF ReleaseList
  <2>2. ServerTypeOK'
    <3>1. cand' \in [Handler -> IP \cup {Nil}]
      BY <2>1
    <3>2. pc' \in [Handler -> PC]
      BY <2>1
    <3>3. QED
      BY <1>4, <3>1, <3>2 DEF ReleaseList
  <2>3. LocalInv'
    BY <1>4, <2>1 DEF ReleaseList, LocalInv
  <2>4. QED
    BY <2>2, <2>3
<1>5. CASE ReleaseDelete(h)
  <2>1. ServerTypeOK'
    BY <1>5 DEF ReleaseDelete
  <2>2. LocalInv'
    BY <1>5 DEF ReleaseDelete, LocalInv
  <2>3. QED
    BY <2>1, <2>2
<1>6. CASE ReleaseNext(h)
  <2>1. alloc[h] \in 1 .. NumAllocs /\ alloc[h] # NumAllocs
    BY <1>6 DEF ReleaseNext, LastRelease, LocalInv
  <2>2. alloc[h] + 1 \in 1 .. NumAllocs
    BY <1>0, <2>1
  <2>3. ServerTypeOK'
    BY <1>0, <1>6, <2>2 DEF ReleaseNext, AfterError
  <2>4. LocalInv'
    BY <1>0, <1>6, <2>2 DEF ReleaseNext, LocalInv
  <2>5. QED
    BY <2>3, <2>4
<1>7. CASE ReleaseReply(h)
  <2>1. ServerTypeOK'
    <3>1. cont[h] \in Container
      BY <1>7 DEF ReleaseReply, LocalInv
    <3>2. phase' \in [Container -> {"absent", "busy", "up", "failed"}]
      BY <1>7, <3>1 DEF ReleaseReply
    <3>3. QED
      BY <1>0, <1>7, <3>2 DEF ReleaseReply, Finish
  <2>2. LocalInv'
    BY <1>0, <1>7 DEF ReleaseReply, Finish, LocalInv
  <2>3. QED
    BY <2>1, <2>2
<1>8. CASE FindByID(h)
  <2>1. \E p \in {"found", "missing"} : pc' = [pc EXCEPT ![h] = p]
    BY <1>8 DEF FindByID
  <2>2. pc[h] = "chk" /\ UNCHANGED <<storeVars, reqVars, envVars>>
    BY <1>8 DEF FindByID
  <2>3. ServerTypeOK'
    BY <2>1, <2>2
  <2>4. LocalInv'
    BY <2>1, <2>2 DEF LocalInv
  <2>5. QED
    BY <2>3, <2>4
<1>9. CASE CheckReply(h)
  <2>1. ServerTypeOK'
    BY <1>0, <1>9 DEF CheckReply, Finish
  <2>2. LocalInv'
    BY <1>0, <1>9 DEF CheckReply, Finish, LocalInv
  <2>3. QED
    BY <2>1, <2>2
<1>10. QED
  BY <1>1, <1>2, <1>3, <1>4, <1>5, <1>6, <1>7, <1>8, <1>9

\* The types and what a handler's variables mean are inductive.
LEMMA TypeInvInductive ==
    /\ Init => TypeInv
    /\ TypeInv /\ [Next]_vars => TypeInv'
<1> USE ServerAssumption
<1>0. NumAllocs \in Nat \ {0}
  BY DEF NumAllocs
<1>1. Init => TypeInv
  BY <1>0 DEF Init, TypeInv, ServerTypeOK, LocalInv, PC
<1>2. ASSUME TypeInv, [Next]_vars PROVE TypeInv'
  <2>1. ASSUME NEW h \in Handler, Request(h) \/ GiveUp(h) PROVE TypeInv'
    BY <1>2, <2>1, RequestKeepsTypes
  <2>2. ASSUME NEW h \in Handler, Serve(h) PROVE TypeInv'
    BY <1>2, <2>2, AllocateKeepsTypes, FinishKeepsTypes DEF Serve
  <2>3. ASSUME UNCHANGED <<storeVars, pc, reqVars, envVars>> PROVE TypeInv'
    BY <1>2, <2>3 DEF storeVars, reqVars, envVars, TypeInv, ServerTypeOK, LocalInv
  <2>4. ASSUME NEW n \in Node, Die(n) PROVE TypeInv'
    <3>1. ServerTypeOK'
      BY <1>0, <1>2, <2>4 DEF Die, storeVars, TypeInv, ServerTypeOK, PC
    <3>2. LocalInv'
      BY <1>0, <1>2, <2>4 DEF Die, TypeInv, ServerTypeOK, LocalInv
    <3>3. QED
      BY <3>1, <3>2 DEF TypeInv
  <2>5. QED
    BY <1>2, <2>1, <2>2, <2>3, <2>4 DEF Next, LockCall, vars
<1>3. QED
  BY <1>1, <1>2

\* Every variable keeps its type, whatever fails and however many requests run at once
\* (handler.go, allocator.go, backend.go, lock.go).
THEOREM TypeCorrect == Spec => []TypeOK
<1>1. Init => LockInit
  BY DEF Init
<1>2. TypeInv => ServerTypeOK
  BY DEF TypeInv
<1>3. QED
  BY <1>1, <1>2, TypeInvInductive, LockRefined, LockTypeCorrect, PTL DEF Spec, LockSpec, TypeOK

--------------------------------------------------------------------------------
(***************************************************************************)
(* Ownership: why no address is with two containers                        *)
(***************************************************************************)

Allocating == {"pick", "get", "iter", "resv", "put", "putlast", "gotok", "goterr"}
Releasing == {"rel", "del", "relok", "relerr"}
Checking == {"chk", "found", "missing"}

\* The handler is in the part of the code its request asks for.
ModeInv ==
    \A h \in Handler :
        /\ pc[h] \in Allocating => mode[h] = "add"
        /\ pc[h] \in Releasing => mode[h] \in {"undo", "del", "delerr"}
        /\ pc[h] \in Checking => mode[h] = "check"
        /\ pc[h] = "idle" => mode[h] = "none" /\ got[h] = {}

\* A node serves its own containers.
HomeInv == \A h \in Handler : pc[h] # "idle" => Home[cont[h]] = NodeOf[h]

\* The container of an Add or a Del that runs is not in use.
BusyInv ==
    \A h \in Handler :
        pc[h] \in Allocating \cup Releasing => phase[cont[h]] \in {"busy", "failed"}

\* The store is read and written under the lock.
CritInv ==
    \A h \in Handler : pc[h] \in {"iter", "resv", "put", "putlast", "del"} => lpc[h] = "crit"

\* What a handler has read in the store is still so when it acts upon it.
StoreInv ==
    \A h \in Handler :
        /\ pc[h] = "put" => owner[cand[h]] = None
        /\ pc[h] \in {"putlast", "del"} => owner[cand[h]] = cont[h]
        /\ pc[h] \in Allocating => \A a \in got[h] : owner[a] = cont[h]

\* A container that was told of addresses runs, and they are its own.
HeldInv ==
    \A c \in Container :
        /\ held[c] # {} => phase[c] = "up"
        /\ \A a \in held[c] : owner[a] = c

OwnInv == TypeInv /\ ModeInv /\ HomeInv /\ BusyInv /\ CritInv /\ StoreInv /\ HeldInv

\* Two requests for a container are one: its node serves one at a time.
LEMMA SameContainer ==
    ASSUME Serial, HomeInv, NEW g \in Handler, NEW h \in Handler,
           pc[g] # "idle", pc[h] # "idle", cont[g] = cont[h]
    PROVE  g = h
BY DEF Serial, HomeInv

\* Requests that arrive, and clients that leave, disturb no ownership.
LEMMA RequestKeepsOwners ==
    ASSUME Serial, OwnInv, NEW h \in Handler, Request(h) \/ GiveUp(h), TypeInv'
    PROVE  OwnInv'
<1> USE ServerAssumption
<1> USE DEF OwnInv, TypeInv, ServerTypeOK, Goto, Allocating, Releasing, Checking
<1>1. ASSUME NEW c \in Container, NEW m, NEW p, NEW ips, Begin(h, c, m, p, ips),
             \/ m = "add" /\ p = "pick" /\ phase'[c] = "busy"
             \/ m = "del" /\ p = "rel" /\ phase'[c] = "busy"
             \/ m = "check" /\ p = "chk",
             \A d \in Container \ {c} : phase'[d] = phase[d],
             phase'[c] \in {phase[c], "busy"}
      PROVE  (ModeInv /\ HomeInv /\ BusyInv /\ CritInv /\ StoreInv)'
  <2> USE <1>1 DEF Begin, storeVars, lockVars
  <2>1. ModeInv'
    BY DEF ModeInv
  <2>2. HomeInv'
    BY DEF HomeInv
  <2>3. BusyInv'
    <3>1. ASSUME NEW g \in Handler, g # h, pc[g] \in Allocating \cup Releasing
          PROVE  phase'[cont[g]] \in {"busy", "failed"}
      <4>1. cont[g] \in Container /\ phase[cont[g]] \in {"busy", "failed"}
        BY <3>1 DEF BusyInv, LocalInv
      <4>2. QED
        BY <4>1
    <3>2. QED
      BY <3>1 DEF BusyInv
  <2>4. CritInv'
    BY DEF CritInv
  <2>5. StoreInv'
    BY DEF StoreInv, ModeInv
  <2>6. QED
    BY <2>1, <2>2, <2>3, <2>4, <2>5
<1>2. ASSUME NEW c \in Container, NEW ips \in Requests, AddRecv(h, c, ips) PROVE OwnInv'
  <2>1. (ModeInv /\ HomeInv /\ BusyInv /\ CritInv /\ StoreInv)'
    BY <1>1, <1>2 DEF AddRecv
  <2>2. HeldInv'
    BY <1>2 DEF AddRecv, Begin, storeVars, HeldInv
  <2>3. QED
    BY <2>1, <2>2
<1>3. ASSUME NEW c \in Container, DelRecv(h, c) PROVE OwnInv'
  <2>1. (ModeInv /\ HomeInv /\ BusyInv /\ CritInv /\ StoreInv)'
    BY <1>1, <1>3 DEF DelRecv
  <2>2. HeldInv'
    BY <1>3 DEF DelRecv, Begin, storeVars, HeldInv
  <2>3. QED
    BY <2>1, <2>2
<1>4. ASSUME NEW c \in Container, CheckRecv(h, c) PROVE OwnInv'
  <2>1. (ModeInv /\ HomeInv /\ BusyInv /\ CritInv /\ StoreInv)'
    BY <1>1, <1>4 DEF CheckRecv
  <2>2. HeldInv'
    BY <1>4 DEF CheckRecv, Begin, storeVars, HeldInv
  <2>3. QED
    BY <2>1, <2>2
<1>5. ASSUME GiveUp(h) PROVE OwnInv'
  <2> USE <1>5 DEF GiveUp, storeVars, reqVars, lockVars
  <2>1. cont[h] \in Container /\ phase[cont[h]] \in {"busy", "failed"}
    BY DEF LocalInv, BusyInv, ModeInv, PC, Locking, Unlocking
  <2>2. ModeInv' /\ HomeInv' /\ CritInv' /\ StoreInv'
    BY DEF ModeInv, HomeInv, CritInv, StoreInv
  <2>3. BusyInv'
    BY <2>1 DEF BusyInv
  <2>4. HeldInv'
    BY <2>1 DEF HeldInv
  <2>5. QED
    BY <2>2, <2>3, <2>4
<1>6. QED
  BY <1>2, <1>3, <1>4, <1>5 DEF Request

\* The steps of a handler that neither write the store nor finish its request.
LEMMA LocalStepKeepsOwners ==
    ASSUME OwnInv, NEW h \in Handler, TypeInv',
           PickRequested(h) \/ GetRequested(h) \/ GetDynamic(h) \/ GetNext(h)
             \/ ReserveGet(h) \/ ReserveLast(h) \/ AfterGet(h) \/ AddUnfulfilled(h)
             \/ ReleaseList(h) \/ ReleaseNext(h) \/ FindByID(h)
    PROVE  OwnInv'
<1> USE ServerAssumption
<1> USE DEF OwnInv, TypeInv, ServerTypeOK, Goto, envVars, storeVars, reqVars, lockVars
<1>1. UNCHANGED <<owner, cont, phase, held, lpc>>
  BY DEF PickRequested, GetRequested, GetDynamic, GetNext, ReserveGet, ReserveLast,
      AfterGet, AddUnfulfilled, ReleaseList, ReleaseNext, FindByID
<1>2. HeldInv'
  BY <1>1 DEF HeldInv
<1>3. ASSUME NEW p, pc' = [pc EXCEPT ![h] = p], pc[h] # "idle" PROVE HomeInv'
  BY <1>1, <1>3 DEF HomeInv
<1>4. CASE PickRequested(h)
  <2> USE <1>4 DEF PickRequested, Allocating, Releasing, Checking
  <2>1. ModeInv' /\ BusyInv' /\ CritInv' /\ StoreInv'
    BY DEF ModeInv, BusyInv, CritInv, StoreInv
  <2>2. QED
    BY <1>2, <1>3, <2>1
<1>5. CASE GetRequested(h)
  <2> USE <1>5 DEF GetRequested, Allocating, Releasing, Checking
  <2>1. ModeInv' /\ BusyInv' /\ CritInv' /\ StoreInv'
    BY DEF ModeInv, BusyInv, CritInv, StoreInv
  <2>2. QED
    BY <1>2, <1>3, <2>1
<1>6. CASE GetDynamic(h)
  <2> USE <1>6 DEF GetDynamic, Allocating, Releasing, Checking
  <2>1. ModeInv' /\ BusyInv' /\ CritInv' /\ StoreInv'
    BY DEF ModeInv, BusyInv, CritInv, StoreInv
  <2>2. QED
    BY <1>2, <1>3, <2>1
<1>7. CASE GetNext(h)
  <2> USE <1>7 DEF GetNext, Allocating, Releasing, Checking
  <2>1. ModeInv' /\ BusyInv' /\ CritInv' /\ StoreInv'
    <3>1. ModeInv'
      BY DEF ModeInv
    <3>2. BusyInv'
      BY DEF BusyInv
    <3>3. CritInv'
      BY DEF CritInv
    <3>4. StoreInv'
      BY DEF StoreInv, LocalInv, CritInv
    <3>5. QED
      BY <3>1, <3>2, <3>3, <3>4
  <2>2. HomeInv'
    BY DEF HomeInv
  <2>3. QED
    BY <1>2, <2>1, <2>2
<1>8. CASE ReserveGet(h)
  <2> USE <1>8 DEF ReserveGet, Allocating, Releasing, Checking
  <2>1. ModeInv' /\ BusyInv' /\ CritInv' /\ StoreInv'
    BY DEF ModeInv, BusyInv, CritInv, StoreInv
  <2>2. HomeInv'
    BY DEF HomeInv
  <2>3. QED
    BY <1>2, <2>1, <2>2
<1>9. CASE ReserveLast(h)
  <2> USE <1>9 DEF ReserveLast, Allocating, Releasing, Checking
  <2>1. ModeInv' /\ BusyInv' /\ CritInv' /\ StoreInv'
    BY DEF ModeInv, BusyInv, CritInv, StoreInv
  <2>2. HomeInv'
    BY DEF HomeInv
  <2>3. QED
    BY <1>2, <2>1, <2>2
<1>10. CASE AfterGet(h)
  <2> USE <1>10 DEF AfterGet, Allocating, Releasing, Checking
  <2>1. ModeInv' /\ BusyInv' /\ CritInv' /\ StoreInv'
    <3>1. ModeInv'
      BY DEF ModeInv
    <3>2. BusyInv'
      BY DEF BusyInv
    <3>3. CritInv'
      BY DEF CritInv
    <3>4. StoreInv'
      BY DEF StoreInv, LocalInv, CritInv
    <3>5. QED
      BY <3>1, <3>2, <3>3, <3>4
  <2>2. HomeInv'
    BY DEF HomeInv
  <2>3. QED
    BY <1>2, <2>1, <2>2
<1>11. CASE AddUnfulfilled(h)
  <2> USE <1>11 DEF AddUnfulfilled, Allocating, Releasing, Checking
  <2>1. ModeInv' /\ BusyInv' /\ CritInv' /\ StoreInv'
    BY DEF ModeInv, BusyInv, CritInv, StoreInv
  <2>2. QED
    BY <1>2, <1>3, <2>1
<1>12. CASE ReleaseList(h)
  <2> USE <1>12 DEF ReleaseList, Owned, Allocating, Releasing, Checking
  <2>1. ModeInv' /\ BusyInv' /\ CritInv' /\ StoreInv'
    <3>1. ModeInv'
      BY DEF ModeInv
    <3>2. BusyInv'
      BY DEF BusyInv
    <3>3. CritInv'
      BY DEF CritInv
    <3>4. StoreInv'
      BY DEF StoreInv, LocalInv, CritInv
    <3>5. QED
      BY <3>1, <3>2, <3>3, <3>4
  <2>2. HomeInv'
    BY DEF HomeInv
  <2>3. QED
    BY <1>2, <2>1, <2>2
<1>13. CASE ReleaseNext(h)
  <2> USE <1>13 DEF ReleaseNext, AfterError, Allocating, Releasing, Checking
  <2>1. ModeInv' /\ BusyInv' /\ CritInv' /\ StoreInv'
    BY DEF ModeInv, BusyInv, CritInv, StoreInv
  <2>2. QED
    BY <1>2, <1>3, <2>1
<1>14. CASE FindByID(h)
  <2> USE <1>14 DEF FindByID, Allocating, Releasing, Checking
  <2>1. ModeInv' /\ BusyInv' /\ CritInv' /\ StoreInv'
    BY DEF ModeInv, BusyInv, CritInv, StoreInv
  <2>2. HomeInv'
    BY DEF HomeInv
  <2>3. QED
    BY <1>2, <2>1, <2>2
<1>15. QED
  BY <1>4, <1>5, <1>6, <1>7, <1>8, <1>9, <1>10, <1>11, <1>12, <1>13, <1>14

\* A handler that writes the store is alone with it: nobody has read it meanwhile
\* (backend.go:79, 151).
LEMMA WriteKeepsOwners ==
    ASSUME Serial, MutualExclusion, OwnInv, NEW h \in Handler, TypeInv',
           ReservePut(h) \/ ReleaseDelete(h)
    PROVE  OwnInv'
<1> USE ServerAssumption
<1> USE DEF OwnInv, TypeInv, ServerTypeOK, Goto, envVars, storeVars, reqVars, lockVars
<1>1. /\ UNCHANGED <<mode, cont, got, cand, phase, held, lpc>>
      /\ pc[h] \in {"put", "del"} /\ cand[h] \in IP
      /\ \E p \in IF pc[h] = "put" THEN {"putlast", "goterr"} ELSE {"relok", "relerr"} :
            pc' = [pc EXCEPT ![h] = p]
  BY DEF ReservePut, ReleaseDelete, LocalInv
<1>2. ASSUME NEW g \in Handler, g # h
      PROVE  pc[g] \notin {"iter", "resv", "put", "putlast", "del"}
  BY <1>1, <1>2 DEF MutualExclusion, CritInv
<1>3. ASSUME NEW g \in Handler, g # h, pc[g] # "idle" PROVE cont[g] # cont[h]
  BY <1>1, <1>3, SameContainer
<1>4. ModeInv'
  BY <1>1 DEF ModeInv, Allocating, Releasing, Checking
<1>5. HomeInv'
  BY <1>1 DEF HomeInv
<1>6. BusyInv'
  BY <1>1 DEF BusyInv, Allocating, Releasing
<1>7. CritInv'
  BY <1>1 DEF CritInv
<1>8. CASE ReservePut(h)
  <2>1. owner[cand[h]] = None /\ cont[h] \in Container
    BY <1>8 DEF ReservePut, StoreInv, LocalInv
  <2>2. \/ owner' = owner /\ pc'[h] = "goterr"
        \/ owner' = [owner EXCEPT ![cand[h]] = cont[h]] /\ pc'[h] \in {"putlast", "goterr"}
    BY <1>8 DEF ReservePut
  <2>3. ASSUME NEW a \in IP, owner[a] # None PROVE owner'[a] = owner[a]
    BY <2>1, <2>2, <2>3
  <2>4. ASSUME NEW g \in Handler, pc[g] \in Allocating, NEW a \in got[g]
        PROVE  owner'[a] = cont[g]
    <3>1. a \in IP /\ owner[a] = cont[g] /\ cont[g] \in Container
      BY <2>4 DEF StoreInv, LocalInv, Allocating
    <3>2. QED
      BY <2>3, <3>1
  <2>5. StoreInv'
    BY <1>1, <1>2, <1>8, <2>2, <2>4 DEF ReservePut, StoreInv, Allocating
  <2>6. HeldInv'
    <3>1. ASSUME NEW c \in Container, NEW a \in held[c] PROVE owner'[a] = c
      <4>1. a \in IP /\ owner[a] = c
        BY <3>1 DEF HeldInv
      <4>2. QED
        BY <2>3, <4>1
    <3>2. QED
      BY <1>1, <3>1 DEF HeldInv
  <2>7. QED
    BY <1>4, <1>5, <1>6, <1>7, <2>5, <2>6
<1>9. CASE ReleaseDelete(h)
  <2>1. /\ owner[cand[h]] = cont[h] /\ cont[h] \in Container
        /\ phase[cont[h]] \in {"busy", "failed"} /\ pc[h] = "del"
    BY <1>9 DEF ReleaseDelete, StoreInv, LocalInv, BusyInv, Releasing
  <2>2. owner' = owner \/ owner' = [owner EXCEPT ![cand[h]] = None]
    BY <1>9 DEF ReleaseDelete
  <2>3. ASSUME NEW a \in IP, owner[a] # cont[h] PROVE owner'[a] = owner[a]
    BY <2>1, <2>2, <2>3
  <2>4. ASSUME NEW g \in Handler, g # h, pc[g] \in Allocating, NEW a \in got[g]
        PROVE  owner'[a] = cont[g]
    <3>1. a \in IP /\ owner[a] = cont[g] /\ pc[g] # "idle"
      BY <2>4 DEF StoreInv, Allocating
    <3>2. QED
      BY <1>3, <2>3, <2>4, <3>1
  <2>5. StoreInv'
    BY <1>1, <1>2, <2>1, <2>4 DEF StoreInv, Allocating
  <2>6. HeldInv'
    <3>1. ASSUME NEW c \in Container, NEW a \in held[c] PROVE owner'[a] = c
      <4>1. a \in IP /\ owner[a] = c /\ phase[c] = "up"
        BY <3>1 DEF HeldInv
      <4>2. QED
        BY <2>1, <2>3, <4>1
    <3>2. QED
      BY <1>1, <3>1 DEF HeldInv
  <2>7. QED
    BY <1>4, <1>5, <1>6, <1>7, <2>5, <2>6
<1>10. QED
  BY <1>8, <1>9

\* A handler that answers.
LEMMA ReplyKeepsOwners ==
    ASSUME Serial, OwnInv, NEW h \in Handler, TypeInv',
           AddReply(h) \/ AddReplyEmpty(h) \/ ReleaseReply(h) \/ CheckReply(h)
    PROVE  OwnInv'
<1> USE ServerAssumption
<1> USE DEF OwnInv, TypeInv, ServerTypeOK, Goto, storeVars, lockVars
<1>1. Finish(h) /\ pc[h] # "idle" /\ cont[h] \in Container /\ UNCHANGED <<owner, lpc>>
  BY DEF AddReply, AddReplyEmpty, ReleaseReply, CheckReply, LocalInv
<1>2. ASSUME NEW d \in Container, d # cont[h] PROVE phase'[d] = phase[d] /\ held'[d] = held[d]
  BY <1>1, <1>2 DEF AddReply, AddReplyEmpty, ReleaseReply, CheckReply
<1>3. ASSUME NEW g \in Handler, g # h, pc[g] # "idle"
      PROVE  cont[g] # cont[h] /\ cont[g] \in Container
  BY <1>1, <1>3, SameContainer DEF LocalInv
<1>4. ModeInv'
  BY <1>1 DEF Finish, ModeInv, Allocating, Releasing, Checking
<1>5. HomeInv'
  BY <1>1 DEF Finish, HomeInv
<1>6. BusyInv'
  <2>1. ASSUME NEW g \in Handler, pc'[g] \in Allocating \cup Releasing
        PROVE  phase'[cont'[g]] \in {"busy", "failed"}
    <3>1. g # h /\ pc[g] = pc'[g] /\ cont'[g] = cont[g] /\ pc[g] # "idle"
      BY <1>1, <2>1 DEF Finish, Allocating, Releasing
    <3>2. QED
      BY <1>2, <1>3, <2>1, <3>1 DEF BusyInv
  <2>2. QED
    BY <2>1 DEF BusyInv
<1>7. CritInv'
  BY <1>1 DEF Finish, CritInv
<1>8. StoreInv'
  BY <1>1 DEF Finish, StoreInv, Allocating
<1>9. HeldInv'
  <2>1. CASE AddReply(h)
    <3>1. CASE h \in gone
      BY <1>1, <2>1, <3>1 DEF AddReply, HeldInv
    <3>2. CASE h \notin gone
      <4>1. \A a \in got[h] : owner[a] = cont[h]
        BY <2>1 DEF AddReply, StoreInv, Allocating
      <4>2. held'[cont[h]] = got[h] /\ phase'[cont[h]] = "up"
        BY <1>1, <2>1, <3>2 DEF AddReply
      <4>3. QED
        BY <1>1, <1>2, <4>1, <4>2 DEF HeldInv
    <3>3. QED
      BY <3>1, <3>2
  <2>2. CASE AddReplyEmpty(h) \/ ReleaseReply(h)
    <3>1. phase[cont[h]] \in {"busy", "failed"} /\ UNCHANGED held
      BY <2>2 DEF AddReplyEmpty, ReleaseReply, BusyInv, Allocating, Releasing
    <3>2. held'[cont[h]] = {}
      BY <1>1, <3>1 DEF HeldInv
    <3>3. QED
      BY <1>1, <1>2, <3>2 DEF HeldInv
  <2>3. CASE CheckReply(h)
    BY <1>1, <2>3 DEF CheckReply, HeldInv
  <2>4. QED
    BY <2>1, <2>2, <2>3
<1>10. QED
  BY <1>4, <1>5, <1>6, <1>7, <1>8, <1>9

\* The lock lets nobody out of the critical section but where Unlock is called, and a
\* process that dies leaves the store as it is.
LEMMA LockKeepsOwners ==
    ASSUME OwnInv, LockTypeOK, TypeInv',
           \/ \E h \in Handler : LockCall(h)
           \/ \E n \in Node : Die(n)
           \/ \E n \in Node : Restart(n) /\ UNCHANGED <<storeVars, pc, reqVars, envVars>>
           \/ \E l \in Lease : Expire(l) /\ UNCHANGED <<storeVars, pc, reqVars, envVars>>
    PROVE  OwnInv'
<1> USE ServerAssumption
<1> USE DEF OwnInv, TypeInv, ServerTypeOK, envVars, storeVars, reqVars
<1>1. ASSUME UNCHANGED <<storeVars, pc, reqVars, envVars>>, CritInv' PROVE OwnInv'
  <2>1. ModeInv' /\ HomeInv' /\ BusyInv'
    BY <1>1 DEF ModeInv, HomeInv, BusyInv
  <2>2. StoreInv' /\ HeldInv'
    BY <1>1 DEF StoreInv, HeldInv
  <2>3. QED
    BY <1>1, <2>1, <2>2
<1>2. ASSUME NEW h \in Handler, LockCall(h) PROVE OwnInv'
  <2>0. \A g \in Handler \ {h} : lpc'[g] = lpc[g]
    <3>1. \E p : lpc' = [lpc EXCEPT ![h] = p]
      BY <1>2 DEF LockCall, LockTxn, LockFail, LockResp, LockTest, LockWait,
                  LockWaitErr, UnlockSend, UnlockDelete, UnlockFail, UnlockReset
    <3>2. QED
      BY <3>1 DEF LockTypeOK
  <2>1. CASE lpc[h] = "crit"
    <3>1. pc[h] \in Unlocking
      BY <1>2, <2>1 DEF LockCall, LockTxn, LockFail, LockResp, LockTest, LockWait,
                        LockWaitErr, UnlockDelete, UnlockFail, UnlockReset
    <3>2. CritInv'
      BY <1>2, <2>0, <3>1 DEF CritInv, Unlocking, LockCall
    <3>3. QED
      BY <1>1, <1>2, <3>2 DEF LockCall
  <2>2. CASE lpc[h] # "crit"
    <3>1. CritInv'
      BY <1>2, <2>0, <2>2 DEF CritInv, LockCall
    <3>2. QED
      BY <1>1, <1>2, <3>1 DEF LockCall
  <2>3. QED
    BY <2>1, <2>2
<1>3. ASSUME NEW n \in Node, Die(n) PROVE OwnInv'
  <2> USE <1>3 DEF Die
  <2>1. ModeInv'
    BY DEF ModeInv, Allocating, Releasing, Checking
  <2>2. HomeInv'
    BY DEF HomeInv
  <2>3. BusyInv'
    BY DEF BusyInv, LocalInv, Allocating, Releasing
  <2>4. CritInv'
    BY DEF CritInv, Crash
  <2>5. StoreInv'
    BY DEF StoreInv, Allocating
  <2>6. HeldInv'
    BY DEF HeldInv
  <2>7. QED
    BY <2>1, <2>2, <2>3, <2>4, <2>5, <2>6
<1>4. ASSUME UNCHANGED <<storeVars, pc, reqVars, envVars>>, UNCHANGED lpc PROVE OwnInv'
  BY <1>1, <1>4 DEF CritInv
<1>5. QED
  BY <1>2, <1>3, <1>4 DEF Restart, Expire

\* The steps together.
LEMMA OwnInvInductive ==
    ASSUME Serial
    PROVE  /\ Init => OwnInv
           /\ OwnInv /\ LockTypeOK /\ MutualExclusion /\ [Next]_vars => OwnInv'
<1> USE ServerAssumption
<1>1. ASSUME Init PROVE OwnInv
  <2>1. TypeInv
    BY <1>1, TypeInvInductive
  <2>2. QED
    BY <1>1, <2>1 DEF Init, OwnInv, ModeInv, HomeInv, BusyInv, CritInv, StoreInv, HeldInv,
        Allocating, Releasing, Checking
<1>2. ASSUME OwnInv, LockTypeOK, MutualExclusion, [Next]_vars PROVE OwnInv'
  <2>1. TypeInv'
    BY <1>2, TypeInvInductive DEF OwnInv
  <2>2. ASSUME NEW h \in Handler, Request(h) \/ GiveUp(h) PROVE OwnInv'
    BY <1>2, <2>1, <2>2, RequestKeepsOwners
  <2>3. ASSUME NEW h \in Handler, Serve(h) PROVE OwnInv'
    BY <1>2, <2>1, <2>3, LocalStepKeepsOwners, WriteKeepsOwners, ReplyKeepsOwners DEF Serve
  <2>4. ASSUME UNCHANGED vars PROVE OwnInv'
    BY <1>2, <2>1, <2>4 DEF vars, lockVars, storeVars, reqVars, envVars, OwnInv, ModeInv,
        HomeInv, BusyInv, CritInv, StoreInv, HeldInv
  <2>5. QED
    BY <1>2, <2>1, <2>2, <2>3, <2>4, LockKeepsOwners DEF Next
<1>3. QED
  BY <1>1, <1>2

\* Pods on different nodes never get the same address (docs/ipam-design.md), for any
\* number of nodes, containers and addresses, though reads and writes of the store and
\* Unlock fail, processes crash and restart, clients give up and repeat: as long as each
\* node serves one request at a time, Lock does not fail and no live lease is lost.
THEOREM NoAddressTwice ==
    ASSUME Reliable
    PROVE  Spec => []NoConflict
<1>1. OwnInv => NoConflict
  <2> SUFFICES ASSUME OwnInv, NEW c \in Container, NEW d \in Container, c # d,
                      NEW a \in held[c], a \in held[d]
               PROVE  FALSE
    BY DEF NoConflict
  <2>1. QED
    BY DEF OwnInv, HeldInv
<1>2. Init => LockInit
  BY DEF Init
<1>3. Serial
  BY DEF Reliable
<1>4. QED
  BY <1>1, <1>2, <1>3, LockRefined, LockTypeCorrect, Exclusion, OwnInvInductive, PTL
     DEF Spec, LockSpec

\* Every step of the servers is a step of the pool or leaves the pool alone.
LEMMA StepRefines ==
    ASSUME OwnInv, [Next]_vars
    PROVE  [Pool!PoolNext]_(Pool!poolVars)
<1> USE ServerAssumption
<1> USE DEF storeVars, envVars, Pool!PoolNext, Pool!poolVars
<1>1. ASSUME NEW h \in Handler, NEW c \in Container, DelRecv(h, c) PROVE Pool!PoolNext
  BY <1>1 DEF DelRecv, Begin, Pool!GiveUpAddresses
<1>2. ASSUME NEW h \in Handler, ReservePut(h) PROVE [Pool!PoolNext]_(Pool!poolVars)
  <2>1. cand[h] \in IP /\ cont[h] \in Container /\ owner[cand[h]] = None
    BY <1>2 DEF ReservePut, OwnInv, TypeInv, LocalInv, StoreInv
  <2>2. Pool!Assign(cand[h], cont[h]) \/ UNCHANGED <<owner, held>>
    BY <1>2, <2>1 DEF ReservePut, Pool!Assign
  <2>3. QED
    BY <2>1, <2>2
<1>3. ASSUME NEW h \in Handler, ReleaseDelete(h) PROVE [Pool!PoolNext]_(Pool!poolVars)
  <2>1. cand[h] \in IP /\ owner[cand[h]] = cont[h] /\ phase[cont[h]] \in {"busy", "failed"}
    BY <1>3 DEF ReleaseDelete, OwnInv, TypeInv, LocalInv, StoreInv, BusyInv, Releasing
  <2>2. \A c \in Container : cand[h] \notin held[c]
    BY <2>1 DEF OwnInv, HeldInv
  <2>3. Pool!TakeBack(cand[h]) \/ UNCHANGED <<owner, held>>
    BY <1>3, <2>2 DEF ReleaseDelete, Pool!TakeBack
  <2>4. QED
    BY <2>1, <2>3
<1>4. ASSUME NEW h \in Handler, AddReply(h) PROVE [Pool!PoolNext]_(Pool!poolVars)
  <2>1. cont[h] \in Container /\ got[h] \in SUBSET IP /\ \A a \in got[h] : owner[a] = cont[h]
    BY <1>4 DEF AddReply, OwnInv, TypeInv, ServerTypeOK, LocalInv, StoreInv, Allocating
  <2>2. Pool!Grant(cont[h], got[h]) \/ UNCHANGED <<owner, held>>
    BY <1>4, <2>1 DEF AddReply, Pool!Grant
  <2>3. QED
    BY <2>1, <2>2
<1>5. ASSUME NEW h \in Handler, NEW c \in Container,
             (\E ips \in Requests : AddRecv(h, c, ips)) \/ CheckRecv(h, c)
      PROVE  UNCHANGED Pool!poolVars
  BY <1>5 DEF AddRecv, CheckRecv, Begin
<1>6. ASSUME NEW h \in Handler,
             PickRequested(h) \/ GetRequested(h) \/ GetDynamic(h) \/ GetNext(h)
               \/ ReserveGet(h) \/ ReserveLast(h) \/ AfterGet(h) \/ AddUnfulfilled(h)
               \/ AddReplyEmpty(h) \/ ReleaseList(h) \/ ReleaseNext(h) \/ ReleaseReply(h)
               \/ FindByID(h) \/ CheckReply(h) \/ GiveUp(h)
      PROVE  UNCHANGED Pool!poolVars
  BY <1>6 DEF PickRequested, GetRequested, GetDynamic, GetNext, ReserveGet, ReserveLast,
      AfterGet, AddUnfulfilled, AddReplyEmpty, ReleaseList, ReleaseNext, ReleaseReply,
      FindByID, CheckReply, GiveUp
<1>7. QED
  BY <1>1, <1>2, <1>3, <1>4, <1>5, <1>6 DEF Next, Request, Serve, LockCall, Die, vars

\* The servers implement the address pool, under the same conditions: an address is
\* assigned only when it is free, and taken back only when no container uses it.
THEOREM ImplementsPool ==
    ASSUME Reliable
    PROVE  Spec => PoolRefined
<1>1. Init => Pool!PoolInit
  BY DEF Init, Pool!PoolInit
<1>2. OwnInv /\ [Next]_vars => [Pool!PoolNext]_(Pool!poolVars)
  BY StepRefines
<1>3. Init => LockInit
  BY DEF Init
<1>4. Serial
  BY DEF Reliable
<1>5. QED
  BY <1>1, <1>2, <1>3, <1>4, LockRefined, LockTypeCorrect, Exclusion, OwnInvInductive, PTL
     DEF Spec, LockSpec, PoolRefined, Pool!PoolSpec
================================================================================
