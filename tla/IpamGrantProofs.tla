---------------------------- MODULE IpamGrantProofs ----------------------------
(***************************************************************************)
(* What an ADD gives and what a DEL leaves.                                *)
(*                                                                         *)
(* First, without any condition on the lock: no gateway is reserved and an *)
(* ADD that succeeds gives what was asked for, although requests run at    *)
(* once and lock, lease, store, process and client fail.  Then, under a    *)
(* lock that excludes: the keys of the store, counted.                     *)
(***************************************************************************)
EXTENDS IpamServerProofs, FiniteSetTheorems

(***************************************************************************)
(* Gateways                                                                *)
(***************************************************************************)

\* What a handler is about to reserve may be handed out; a requested address that Get
\* has still to look at is in the range set.
CandInv ==
    \A h \in Handler :
        /\ pc[h] \in {"idle", "pick"} => ask[h] = Nil
        /\ pc[h] = "get" /\ ask[h] # Nil => SetContains(Rangeset(1), ask[h])
        /\ pc[h] \in {"resv", "put", "putlast"} => MayHandOut(cand[h])

\* What is reserved, or was last, may be handed out.
KeptInv ==
    /\ \A a \in IP : owner[a] # None => MayHandOut(a)
    /\ \A i \in 1 .. NumAllocs : last[i] # Nil => MayHandOut(last[i])

GateInv == TypeInv /\ CandInv /\ KeptInv

\* An address that a range contains and whose gateway it is not may be handed out.
LEMMA ContainedMayBeHandedOut ==
    ASSUME NEW a \in Nat \cup {Nil}, SetContains(Rangeset(1), a),
           ~ IsGateway(Rangeset(1)[RangeFor(Rangeset(1), a)], a)
    PROVE  MayHandOut(a)
<1> DEFINE rs == Rangeset(1)
           j == RangeFor(rs, a)
<1>1. WellFormedSet(rs)
  BY RangesetFacts
<1>2. j \in DOMAIN rs /\ Contains(rs[j], a)
  BY <1>1, RangeForFirst DEF WellFormedSet
<1>3. a \in Members(rs[j])
  BY <1>1, <1>2, AddrAssumption DEF Contains, Members, WellFormedSet, WellFormed
<1>4. a # rs[j].gw
  BY DEF IsGateway
<1>5. QED
  BY <1>2, <1>3, <1>4 DEF MayHandOut

\* The steps of a handler.
LEMMA ServeKeepsGateways ==
    ASSUME GateInv, NEW h \in Handler, Serve(h), TypeInv'
    PROVE  GateInv'
<1> USE ServerAssumption
<1> USE DEF GateInv, TypeInv, ServerTypeOK, Goto, storeVars, reqVars
<1>a. \A i : Rangeset(i) = Rangeset(1)
  BY DEF Rangeset
<1>1. CASE PickRequested(h)
  <2>1. KeptInv'
    BY <1>1 DEF PickRequested, KeptInv
  <2>2. ask'[h] # Nil => SetContains(Rangeset(1), ask'[h])
    BY <1>1, <1>a DEF PickRequested, CandInv
  <2>3. \A g \in Handler \ {h} : ask'[g] = ask[g]
    BY <1>1 DEF PickRequested
  <2>4. CandInv'
    BY <1>1, <2>2, <2>3 DEF PickRequested, CandInv
  <2>5. QED
    BY <2>1, <2>4
<1>2. CASE GetRequested(h)
  <2>1. KeptInv'
    BY <1>2 DEF GetRequested, KeptInv
  <2>2. pc'[h] = "resv" => cand'[h] = ask[h] /\ MayHandOut(ask[h])
    <3>1. ask[h] \in Nat \cup {Nil} /\ SetContains(Rangeset(1), ask[h])
      BY <1>2, RangesetFacts DEF GetRequested, CandInv
    <3>2. QED
      BY <1>2, <1>a, <3>1, ContainedMayBeHandedOut DEF GetRequested
  <2>3. pc'[h] \in {"resv", "goterr"} /\ \A g \in Handler \ {h} : cand'[g] = cand[g]
    BY <1>2 DEF GetRequested
  <2>4. CandInv'
    BY <1>2, <2>2, <2>3 DEF GetRequested, CandInv
  <2>5. QED
    BY <2>1, <2>4
<1>3. CASE GetDynamic(h)
  <2>1. KeptInv'
    BY <1>3 DEF GetDynamic, KeptInv
  <2>2. \E p \in {"goterr", "iter"} : pc' = [pc EXCEPT ![h] = p]
    BY <1>3 DEF GetDynamic
  <2>3. UNCHANGED <<ask, cand>>
    BY <1>3 DEF GetDynamic
  <2>4. CandInv'
    BY <2>2, <2>3 DEF CandInv
  <2>5. QED
    BY <2>1, <2>4
<1>4. CASE GetNext(h)
  <2> DEFINE step == IterStep(Rangeset(1), iter[h])
  <2>1. KeptInv'
    BY <1>4 DEF GetNext, KeptInv
  <2>2. InRangeSet(Rangeset(1), iter[h])
    BY <1>4 DEF GetNext, LocalInv
  <2>3. step.out = "ip" => MayHandOut(step.iter.cur)
    <3>1. WellFormedSet(Rangeset(1))
      BY RangesetFacts
    <3>2. /\ InRangeSet(Rangeset(1), step.iter)
          /\ step.iter.cur \in Addresses(Rangeset(1))
          /\ step.out = "ip" => ~ IsGateway(Rangeset(1)[step.iter.idx], step.iter.cur)
      BY <2>2, <3>1, IterStepInRange
    <3>3. step.iter.cur \in Nat
      BY <3>2, RangesetFacts
    <3> HIDE DEF step
    <3>4. step.iter.cur # Nil
      BY <3>3, AddrAssumption
    <3>5. QED
      BY <3>2, <3>4 DEF MayHandOut, InRangeSet, IsGateway
  <2> HIDE DEF step
  <2>4. \/ pc' = [pc EXCEPT ![h] = "goterr"] /\ UNCHANGED cand
        \/ UNCHANGED <<pc, cand>>
        \/ /\ step.out = "ip" /\ pc' = [pc EXCEPT ![h] = "resv"]
           /\ cand' = [cand EXCEPT ![h] = step.iter.cur]
    BY <1>4, <1>a DEF GetNext, step
  <2>5. CandInv'
    BY <1>4, <2>3, <2>4 DEF GetNext, CandInv
  <2>6. QED
    BY <2>1, <2>5
<1>5. CASE ReserveGet(h)
  <2>1. KeptInv'
    BY <1>5 DEF ReserveGet, KeptInv
  <2>2. CandInv'
    BY <1>5 DEF ReserveGet, CandInv
  <2>3. QED
    BY <2>1, <2>2
<1>6. CASE ReservePut(h)
  <2>1. cand[h] \in IP /\ MayHandOut(cand[h])
    BY <1>6 DEF ReservePut, CandInv, LocalInv
  <2>2. KeptInv'
    BY <1>6, <2>1 DEF ReservePut, KeptInv
  <2>3. CandInv'
    BY <1>6 DEF ReservePut, CandInv
  <2>4. QED
    BY <2>2, <2>3
<1>7. CASE ReserveLast(h)
  <2>1. MayHandOut(cand[h]) /\ alloc[h] \in 1 .. NumAllocs
    BY <1>7 DEF ReserveLast, CandInv, LocalInv
  <2>2. last' = last \/ last' = [last EXCEPT ![alloc[h]] = cand[h]]
    BY <1>7 DEF ReserveLast
  <2>3. KeptInv'
    BY <1>7, <2>1, <2>2 DEF ReserveLast, KeptInv
  <2>4. CandInv'
    BY <1>7 DEF ReserveLast, CandInv
  <2>5. QED
    BY <2>3, <2>4
<1>8. CASE AfterGet(h)
  <2>1. KeptInv'
    BY <1>8 DEF AfterGet, KeptInv
  <2>2. CandInv'
    BY <1>8 DEF AfterGet, CandInv
  <2>3. QED
    BY <2>1, <2>2
<1>9. CASE AddUnfulfilled(h) \/ ReleaseNext(h)
  <2>1. KeptInv'
    BY <1>9 DEF AddUnfulfilled, ReleaseNext, KeptInv
  <2>2. CandInv'
    BY <1>9 DEF AddUnfulfilled, ReleaseNext, CandInv
  <2>3. QED
    BY <2>1, <2>2
<1>10. CASE AddReply(h) \/ AddReplyEmpty(h) \/ ReleaseReply(h) \/ CheckReply(h)
  <2>1. Finish(h) /\ UNCHANGED <<owner, last>>
    BY <1>10 DEF AddReply, AddReplyEmpty, ReleaseReply, CheckReply
  <2>2. KeptInv'
    BY <2>1 DEF KeptInv
  <2>3. CandInv'
    BY <2>1 DEF Finish, CandInv
  <2>4. QED
    BY <2>2, <2>3
<1>11. CASE ReleaseList(h)
  <2>1. /\ UNCHANGED <<ask, owner, last>>
        /\ \E p \in {"del", "relok", "relerr"} : pc' = [pc EXCEPT ![h] = p]
        /\ \A g \in Handler \ {h} : cand'[g] = cand[g]
    BY <1>11 DEF ReleaseList
  <2>2. KeptInv'
    BY <2>1 DEF KeptInv
  <2>3. CandInv'
    BY <2>1 DEF CandInv
  <2>4. QED
    BY <2>2, <2>3
<1>12. CASE ReleaseDelete(h)
  <2>1. KeptInv'
    BY <1>12 DEF ReleaseDelete, KeptInv
  <2>2. CandInv'
    BY <1>12 DEF ReleaseDelete, CandInv
  <2>3. QED
    BY <2>1, <2>2
<1>13. CASE FindByID(h)
  <2>1. KeptInv'
    BY <1>13 DEF FindByID, KeptInv
  <2>2. CandInv'
    BY <1>13 DEF FindByID, CandInv
  <2>3. QED
    BY <2>1, <2>2
<1>14. QED
  BY <1>1, <1>2, <1>3, <1>4, <1>5, <1>6, <1>7, <1>8, <1>9, <1>10, <1>11, <1>12, <1>13
     DEF Serve

\* All steps.
LEMMA GateInvInductive ==
    /\ Init => GateInv
    /\ GateInv /\ [Next]_vars => GateInv'
<1> USE ServerAssumption
<1>1. ASSUME Init PROVE GateInv
  BY <1>1, TypeInvInductive DEF Init, GateInv, CandInv, KeptInv
<1>2. ASSUME GateInv, [Next]_vars PROVE GateInv'
  <2>1. TypeInv'
    BY <1>2, TypeInvInductive DEF GateInv
  <2>2. ASSUME NEW h \in Handler, Request(h) \/ GiveUp(h) PROVE GateInv'
    <3>1. UNCHANGED <<owner, last, ask, cand>>
      BY <2>2 DEF Request, AddRecv, DelRecv, CheckRecv, Begin, GiveUp, storeVars, reqVars
    <3>2. pc' = pc \/ (pc[h] = "idle"
                       /\ \E p \in {"pick", "rel", "chk"} : pc' = [pc EXCEPT ![h] = p])
      BY <2>2 DEF Request, AddRecv, DelRecv, CheckRecv, Begin, Goto, GiveUp
    <3>3. QED
      BY <1>2, <2>1, <3>1, <3>2 DEF GateInv, CandInv, KeptInv, TypeInv, ServerTypeOK
  <2>3. ASSUME NEW h \in Handler, Serve(h) PROVE GateInv'
    BY <1>2, <2>1, <2>3, ServeKeepsGateways
  <2>4. ASSUME UNCHANGED <<storeVars, pc, reqVars, envVars>> PROVE GateInv'
    BY <1>2, <2>1, <2>4 DEF storeVars, reqVars, GateInv, CandInv, KeptInv
  <2>5. ASSUME NEW n \in Node, Die(n) PROVE GateInv'
    BY <1>2, <2>1, <2>5 DEF Die, storeVars, GateInv, CandInv, KeptInv, TypeInv, ServerTypeOK
  <2>6. QED
    BY <1>2, <2>2, <2>3, <2>4, <2>5 DEF Next, LockCall, vars
<1>3. QED
  BY <1>1, <1>2

\* No gateway is ever reserved or remembered as the last reserved address
\* (allocator.go:61, 198, 223), whatever fails and however many requests run at once.
THEOREM GatewaysFree == Spec => []GatewayFree
<1>1. GateInv => GatewayFree
  <2> SUFFICES ASSUME GateInv, NEW a \in IP,
                      owner[a] # None \/ \E i \in 1 .. NumAllocs : last[i] = a
               PROVE  MayHandOut(a)
    BY DEF GatewayFree
  <2>1. a # Nil
    BY RangesetFacts, AddrAssumption
  <2>2. QED
    BY <2>1 DEF GateInv, KeptInv
<1>2. QED
  BY <1>1, GateInvInductive, PTL DEF Spec

--------------------------------------------------------------------------------
(***************************************************************************)
(* Requested addresses                                                     *)
(***************************************************************************)

\* h works for a runtime that waits for its ADD or DEL.
Active(h) == h \notin gone /\ pc[h] # "idle" /\ mode[h] # "check"

\* An ADD or a DEL is not a CHECK.
WorkInv == \A h \in Handler : pc[h] \in Allocating \cup Releasing => mode[h] # "check"

\* The runtime waits for one ADD or DEL of a container at a time.
SoleInv ==
    /\ \A h \in Handler : Active(h) => phase[cont[h]] = "busy"
    /\ \A g, h \in Handler : Active(g) /\ Active(h) /\ cont[g] = cont[h] => g = h

\* Every address that was asked for is still wanted, being looked at, or granted.
Covers(h) ==
    /\ pc[h] \in {"pick", "gotok"} => asked[cont[h]] \subseteq want[h] \cup got[h]
    /\ pc[h] \in {"get", "iter", "resv", "put", "putlast"} =>
        asked[cont[h]] \subseteq want[h] \cup got[h] \cup ({ask[h]} \ {Nil})
    /\ pc[h] = "iter" => ask[h] = Nil
    /\ pc[h] \in {"resv", "put", "putlast"} /\ ask[h] # Nil => cand[h] = ask[h]

CoverInv == \A h \in Handler \ gone : Covers(h)

GrantInv == TypeInv /\ HomeInv /\ WorkInv /\ SoleInv /\ CoverInv /\ RequestHonoured

\* Nobody begins to work for a runtime that waits.
LEMMA SoleStep ==
    ASSUME SoleInv,
           \A g \in Handler :
                Active(g)' => Active(g) /\ cont'[g] = cont[g] /\ phase'[cont[g]] = phase[cont[g]]
    PROVE  SoleInv'
<1>1. \A g \in Handler : Active(g)' => phase'[cont'[g]] = "busy"
  BY DEF SoleInv
<1>2. ASSUME NEW g \in Handler, NEW k \in Handler, Active(g)', Active(k)', cont'[g] = cont'[k]
      PROVE  g = k
  BY <1>2 DEF SoleInv
<1>3. QED
  BY <1>1, <1>2 DEF SoleInv

\* A step of h that leaves the other handlers where they are.
LEMMA OthersStay ==
    ASSUME HomeInv, WorkInv, NEW h \in Handler,
           pc'[h] # "idle" => Home[cont'[h]] = NodeOf[h],
           pc'[h] \in Allocating \cup Releasing => mode'[h] # "check",
           \A g \in Handler \ {h} : pc'[g] = pc[g] /\ mode'[g] = mode[g] /\ cont'[g] = cont[g]
    PROVE  HomeInv' /\ WorkInv'
<1>1. ASSUME NEW g \in Handler, pc'[g] # "idle" PROVE Home[cont'[g]] = NodeOf[g]
  BY <1>1 DEF HomeInv
<1>2. ASSUME NEW g \in Handler, pc'[g] \in Allocating \cup Releasing PROVE mode'[g] # "check"
  BY <1>2 DEF WorkInv
<1>3. QED
  BY <1>1, <1>2 DEF HomeInv, WorkInv

\* A handler that goes on with its request leaves all but CoverInv as it is.
LEMMA InnerStep ==
    ASSUME GrantInv, TypeInv', NEW h \in Handler, NEW p \in PC \ {"idle"}, NEW m,
           pc[h] # "idle", pc' = [pc EXCEPT ![h] = p], mode' = [mode EXCEPT ![h] = m],
           m = "check" <=> mode[h] = "check",
           p \in Allocating \cup Releasing => m # "check",
           UNCHANGED <<cont, gone, phase, asked, held>>
    PROVE  /\ HomeInv' /\ WorkInv' /\ SoleInv' /\ RequestHonoured'
           /\ \A g \in Handler \ {h} : pc'[g] = pc[g]
<1> USE DEF GrantInv, TypeInv, ServerTypeOK
<1>1. \A g \in Handler : Active(g)' <=> Active(g)
  BY DEF Active
<1>2. SoleInv'
  BY <1>1 DEF SoleInv
<1>3. HomeInv' /\ WorkInv'
  BY DEF HomeInv, WorkInv
<1>4. RequestHonoured'
  BY DEF RequestHonoured
<1>5. QED
  BY <1>2, <1>3, <1>4

\* The steps of Get and Reserve.
LEMMA AllocateKeepsGrants ==
    ASSUME GrantInv, TypeInv', NEW h \in Handler,
           PickRequested(h) \/ GetRequested(h) \/ GetDynamic(h) \/ GetNext(h)
             \/ ReserveGet(h) \/ ReservePut(h) \/ ReserveLast(h)
    PROVE  GrantInv'
<1> USE DEF GrantInv, TypeInv, ServerTypeOK, Goto, envVars, reqVars, storeVars
<1>1. /\ UNCHANGED <<mode, cont, gone, phase, asked, held>>
      /\ pc[h] \in {"pick", "get", "iter", "resv", "put", "putlast"}
  BY DEF PickRequested, GetRequested, GetDynamic, GetNext, ReserveGet, ReservePut,
         ReserveLast
<1>2. \E p \in Allocating \ {"pick"} : pc' = [pc EXCEPT ![h] = p]
  <2>1. CASE PickRequested(h)
    BY <2>1 DEF PickRequested, Allocating
  <2>2. CASE GetRequested(h)
    BY <2>2 DEF GetRequested, Allocating
  <2>3. CASE GetDynamic(h)
    BY <2>3 DEF GetDynamic, Allocating
  <2>4. CASE GetNext(h)
    BY <2>4 DEF GetNext, Allocating
  <2>5. CASE ReserveGet(h)
    BY <2>5 DEF ReserveGet, Allocating
  <2>6. CASE ReservePut(h)
    BY <2>6 DEF ReservePut, Allocating
  <2>7. CASE ReserveLast(h)
    BY <2>7 DEF ReserveLast, Allocating
  <2>8. QED
    BY <2>1, <2>2, <2>3, <2>4, <2>5, <2>6, <2>7
<1>3. HomeInv' /\ WorkInv' /\ SoleInv' /\ RequestHonoured' /\ \A g \in Handler \ {h} : pc'[g] = pc[g]
  <2>1. PICK p \in Allocating \ {"pick"} : pc' = [pc EXCEPT ![h] = p]
    BY <1>2
  <2>2. p \in PC \ {"idle"} /\ pc[h] # "idle" /\ mode[h] # "check"
    BY <1>1 DEF Allocating, PC, Locking, Unlocking, WorkInv
  <2>3. mode' = [mode EXCEPT ![h] = mode[h]]
    BY <1>1
  <2>4. QED
    BY <1>1, <2>1, <2>2, <2>3, InnerStep
<1>4. ASSUME h \notin gone =>
                /\ pc'[h] = "gotok" => asked[cont[h]] \subseteq want'[h] \cup got'[h]
                /\ pc'[h] \in {"get", "iter", "resv", "put", "putlast"} =>
                    asked[cont[h]] \subseteq want'[h] \cup got'[h] \cup ({ask'[h]} \ {Nil})
                /\ pc'[h] = "iter" => ask'[h] = Nil
                /\ pc'[h] \in {"resv", "put", "putlast"} /\ ask'[h] # Nil => cand'[h] = ask'[h],
             \A g \in Handler \ {h} : /\ want'[g] = want[g] /\ got'[g] = got[g]
                                      /\ ask'[g] = ask[g] /\ cand'[g] = cand[g]
      PROVE  GrantInv'
  <2>1. pc'[h] # "pick"
    BY <1>2 DEF Allocating
  <2>2. CoverInv'
    <3>1. ASSUME NEW g \in Handler \ gone, g # h PROVE Covers(g)'
      BY <1>1, <1>3, <1>4, <3>1 DEF CoverInv, Covers
    <3>2. h \notin gone => Covers(h)'
      BY <1>1, <1>4, <2>1 DEF Covers
    <3>3. QED
      BY <1>1, <3>1, <3>2 DEF CoverInv
  <2>3. QED
    BY <1>3, <2>2
<1>5. CASE PickRequested(h)
  <2>1. pc'[h] = "get" /\ pc[h] = "pick" /\ UNCHANGED <<got, cand>>
    BY <1>5 DEF PickRequested
  <2>2. \/ UNCHANGED <<ask, want>>
        \/ \E a : /\ a # Nil /\ ask' = [ask EXCEPT ![h] = a]
                  /\ want' = [want EXCEPT ![h] = want[h] \ {a}]
    <3>1. ASSUME NEW a, SetContains(Rangeset(alloc[h]), a) PROVE a # Nil
      BY <3>1 DEF SetContains, Contains
    <3>2. \/ UNCHANGED <<ask, want>>
          \/ \E a : /\ SetContains(Rangeset(alloc[h]), a)
                    /\ ask' = [ask EXCEPT ![h] = a]
                    /\ want' = [want EXCEPT ![h] = want[h] \ {a}]
      BY <1>5 DEF PickRequested
    <3>3. QED
      BY <3>1, <3>2
  <2>3. h \notin gone => asked[cont[h]] \subseteq want[h] \cup got[h]
    BY <2>1 DEF CoverInv, Covers
  <2>4. CASE UNCHANGED <<ask, want>>
    BY <1>4, <2>1, <2>3, <2>4
  <2>5. CASE \E a : /\ a # Nil /\ ask' = [ask EXCEPT ![h] = a]
                    /\ want' = [want EXCEPT ![h] = want[h] \ {a}]
    <3>1. PICK a : /\ a # Nil /\ ask' = [ask EXCEPT ![h] = a]
                   /\ want' = [want EXCEPT ![h] = want[h] \ {a}]
      BY <2>5
    <3>2. ask'[h] = a /\ want'[h] = want[h] \ {a}
      BY <3>1
    <3>3. h \notin gone => asked[cont[h]] \subseteq want'[h] \cup got'[h] \cup ({ask'[h]} \ {Nil})
      BY <2>1, <2>3, <3>1, <3>2
    <3>4. \A g \in Handler \ {h} : want'[g] = want[g] /\ ask'[g] = ask[g]
      BY <3>1
    <3>5. QED
      BY <1>4, <2>1, <3>3, <3>4
  <2>6. QED
    BY <2>2, <2>4, <2>5
<1>6. CASE GetRequested(h)
  <2>1. /\ pc[h] = "get" /\ UNCHANGED <<want, got, ask>>
        /\ \A g \in Handler \ {h} : cand'[g] = cand[g]
        /\ pc'[h] = "goterr" \/ (pc'[h] = "resv" /\ cand'[h] = ask[h])
    BY <1>6 DEF GetRequested
  <2>2. QED
    BY <1>4, <2>1 DEF CoverInv, Covers
<1>7. CASE GetDynamic(h)
  <2>1. /\ pc[h] = "get" /\ ask[h] = Nil /\ UNCHANGED <<want, got, ask, cand>>
        /\ pc'[h] \in {"goterr", "iter"}
    BY <1>7 DEF GetDynamic
  <2>2. QED
    BY <1>4, <2>1 DEF CoverInv, Covers
<1>8. CASE GetNext(h)
  <2>1. /\ pc[h] = "iter" /\ UNCHANGED <<want, got, ask>>
        /\ \A g \in Handler \ {h} : cand'[g] = cand[g]
        /\ pc'[h] \in {"goterr", "iter", "resv"}
    BY <1>8 DEF GetNext
  <2>2. QED
    BY <1>4, <2>1 DEF CoverInv, Covers
<1>9. CASE ReserveGet(h)
  <2>1. /\ pc[h] = "resv" /\ UNCHANGED <<want, got, ask, cand>>
        /\ pc'[h] \in {"put", "goterr"} \/ (pc'[h] = "iter" /\ ask[h] = Nil)
    BY <1>9 DEF ReserveGet
  <2>2. QED
    BY <1>4, <2>1 DEF CoverInv, Covers
<1>10. CASE ReservePut(h)
  <2>1. /\ pc[h] = "put" /\ UNCHANGED <<want, got, ask, cand>>
        /\ pc'[h] \in {"putlast", "goterr"}
    BY <1>10 DEF ReservePut
  <2>2. QED
    BY <1>4, <2>1 DEF CoverInv, Covers
<1>11. CASE ReserveLast(h)
  <2>1. /\ pc[h] = "putlast" /\ UNCHANGED <<want, ask, cand>>
        /\ \/ pc'[h] = "goterr" /\ UNCHANGED got
           \/ pc'[h] = "gotok" /\ got' = [got EXCEPT ![h] = got[h] \cup {cand[h]}]
    BY <1>11 DEF ReserveLast
  <2>2. \A g \in Handler \ {h} : got'[g] = got[g]
    BY <2>1
  <2>3. pc'[h] = "gotok" => got'[h] = got[h] \cup {cand[h]}
    BY <2>1
  <2>4. h \notin gone =>
            /\ asked[cont[h]] \subseteq want[h] \cup got[h] \cup ({ask[h]} \ {Nil})
            /\ ask[h] # Nil => cand[h] = ask[h]
    BY <2>1 DEF CoverInv, Covers
  <2>5. pc'[h] = "gotok" /\ h \notin gone => asked[cont[h]] \subseteq want'[h] \cup got'[h]
    BY <2>1, <2>3, <2>4
  <2>6. QED
    BY <1>4, <2>1, <2>2, <2>5
<1>12. QED
  BY <1>5, <1>6, <1>7, <1>8, <1>9, <1>10, <1>11

\* The steps that neither reserve nor answer.
LEMMA BetweenKeepsGrants ==
    ASSUME GrantInv, TypeInv', NEW h \in Handler,
           AfterGet(h) \/ AddUnfulfilled(h) \/ ReleaseList(h) \/ ReleaseDelete(h)
             \/ ReleaseNext(h) \/ FindByID(h)
    PROVE  GrantInv'
<1> USE DEF GrantInv, TypeInv, ServerTypeOK, Goto, envVars, reqVars, storeVars
<1>1. UNCHANGED <<cont, gone, phase, asked, held, want, got>>
  BY DEF AfterGet, AddUnfulfilled, ReleaseList, ReleaseDelete, ReleaseNext, FindByID
<1>2. ASSUME NEW p \in PC \ {"idle"}, NEW m, pc[h] # "idle",
             pc' = [pc EXCEPT ![h] = p], mode' = [mode EXCEPT ![h] = m],
             m = "check" <=> mode[h] = "check",
             p \in Allocating \cup Releasing => m # "check",
             p \notin {"gotok", "get", "iter", "resv", "put", "putlast"},
             p = "pick" => pc[h] = "gotok",
             \A g \in Handler \ {h} : ask'[g] = ask[g] /\ cand'[g] = cand[g]
      PROVE  GrantInv'
  <2>1. /\ HomeInv' /\ WorkInv' /\ SoleInv' /\ RequestHonoured'
        /\ \A g \in Handler \ {h} : pc'[g] = pc[g]
    BY <1>1, <1>2, InnerStep
  <2>2. pc'[h] = p
    BY <1>2
  <2>3. CoverInv'
    BY <1>1, <1>2, <2>1, <2>2 DEF CoverInv, Covers
  <2>4. QED
    BY <2>1, <2>3
<1> USE DEF PC, Locking, Unlocking, Allocating, Releasing
<1>3. CASE AfterGet(h)
  <2>1. /\ \A g \in Handler \ {h} : ask'[g] = ask[g] /\ cand'[g] = cand[g]
        /\ pc[h] # "idle" /\ mode[h] # "check"
    BY <1>3 DEF AfterGet, WorkInv
  <2>2. \/ /\ pc[h] = "gotok" /\ pc' = [pc EXCEPT ![h] = "pick"]
           /\ mode' = [mode EXCEPT ![h] = mode[h]]
        \/ pc' = [pc EXCEPT ![h] = "rel"] /\ mode' = [mode EXCEPT ![h] = "undo"]
    BY <1>3 DEF AfterGet
  <2>3. QED
    BY <1>2, <2>1, <2>2
<1>4. CASE AddUnfulfilled(h)
  <2>1. /\ UNCHANGED <<ask, cand>> /\ pc[h] # "idle" /\ mode[h] # "check"
        /\ pc' = [pc EXCEPT ![h] = "rel"] /\ mode' = [mode EXCEPT ![h] = "undo"]
    BY <1>4 DEF AddUnfulfilled, WorkInv
  <2>2. QED
    BY <1>2, <2>1
<1>5. CASE ReleaseList(h) \/ ReleaseDelete(h)
  <2>1. /\ \A g \in Handler \ {h} : ask'[g] = ask[g] /\ cand'[g] = cand[g]
        /\ pc[h] # "idle" /\ mode[h] # "check" /\ mode' = [mode EXCEPT ![h] = mode[h]]
    BY <1>5 DEF ReleaseList, ReleaseDelete, WorkInv
  <2>2. \E p \in {"del", "relok", "relerr"} : pc' = [pc EXCEPT ![h] = p]
    BY <1>5 DEF ReleaseList, ReleaseDelete
  <2>3. QED
    BY <1>2, <2>1, <2>2
<1>6. CASE ReleaseNext(h)
  <2>1. /\ \A g \in Handler \ {h} : ask'[g] = ask[g] /\ cand'[g] = cand[g]
        /\ pc[h] # "idle" /\ mode[h] # "check" /\ pc' = [pc EXCEPT ![h] = "rel"]
        /\ mode' = [mode EXCEPT ![h] = AfterError(h)] /\ AfterError(h) # "check"
    BY <1>6 DEF ReleaseNext, WorkInv, AfterError
  <2>2. QED
    BY <1>2, <2>1
<1>7. CASE FindByID(h)
  <2>1. /\ UNCHANGED <<ask, cand>> /\ pc[h] # "idle" /\ mode' = [mode EXCEPT ![h] = mode[h]]
        /\ \E p \in {"found", "missing"} : pc' = [pc EXCEPT ![h] = p]
    BY <1>7 DEF FindByID
  <2>2. QED
    BY <1>2, <2>1
<1>8. QED
  BY <1>3, <1>4, <1>5, <1>6, <1>7

\* A handler that answers ends its request; nobody else works for its container.
LEMMA ReplyKeepsGrants ==
    ASSUME GrantInv, TypeInv', NEW h \in Handler,
           AddReply(h) \/ AddReplyEmpty(h) \/ ReleaseReply(h) \/ CheckReply(h)
    PROVE  GrantInv'
<1> USE DEF GrantInv, TypeInv, ServerTypeOK, Goto
<1>1. /\ Finish(h) /\ pc[h] # "idle" /\ cont[h] \in Container /\ UNCHANGED asked
      /\ h \in gone \/ CheckReply(h) => UNCHANGED <<phase, held>>
  BY DEF AddReply, AddReplyEmpty, ReleaseReply, CheckReply, LocalInv
<1>2. /\ pc'[h] = "idle"
      /\ \A g \in Handler \ {h} :
            /\ pc'[g] = pc[g] /\ mode'[g] = mode[g] /\ cont'[g] = cont[g]
            /\ g \in gone' <=> g \in gone
            /\ want'[g] = want[g] /\ got'[g] = got[g] /\ ask'[g] = ask[g] /\ cand'[g] = cand[g]
  BY <1>1 DEF Finish
<1>3. HomeInv' /\ WorkInv'
  <2>1. pc'[h] \notin Allocating \cup Releasing
    BY <1>2 DEF Allocating, Releasing
  <2>2. QED
    BY <1>2, <2>1, OthersStay
<1>4. CoverInv'
  BY <1>1, <1>2 DEF CoverInv, Covers
<1>5. \A g \in Handler \ {h} : Active(g)' <=> Active(g)
  BY <1>2 DEF Active
<1>6. ~ Active(h)'
  BY <1>2 DEF Active
<1>7. CASE UNCHANGED <<phase, held>>
  <2>1. SoleInv'
    BY <1>2, <1>5, <1>6, <1>7, SoleStep
  <2>2. RequestHonoured'
    BY <1>1, <1>7 DEF RequestHonoured
  <2>3. QED
    BY <1>3, <1>4, <2>1, <2>2
<1>8. CASE h \notin gone /\ (AddReply(h) \/ AddReplyEmpty(h) \/ ReleaseReply(h))
  <2>1. Active(h)
    BY <1>1, <1>8 DEF Active, AddReply, AddReplyEmpty, ReleaseReply, WorkInv, Allocating, Releasing
  <2>2. \A c \in Container \ {cont[h]} : phase'[c] = phase[c] /\ held'[c] = held[c]
    BY <1>8 DEF AddReply, AddReplyEmpty, ReleaseReply
  <2>3. ASSUME NEW g \in Handler, Active(g)'
        PROVE  Active(g) /\ cont'[g] = cont[g] /\ phase'[cont[g]] = phase[cont[g]]
    <3>1. g # h /\ Active(g) /\ cont'[g] = cont[g] /\ cont[g] \in Container
      BY <1>2, <1>5, <1>6, <2>3 DEF Active, LocalInv
    <3>2. cont[g] # cont[h]
      BY <2>1, <3>1 DEF SoleInv
    <3>3. QED
      BY <2>2, <3>1, <3>2
  <2>4. SoleInv'
    BY <2>3, SoleStep
  <2>5. phase'[cont[h]] = "up" => asked[cont[h]] \subseteq held'[cont[h]]
    <3>1. CASE AddReply(h)
      <4>1. held'[cont[h]] = got[h] /\ pc[h] = "pick" /\ want[h] = {}
        BY <1>1, <1>8, <3>1 DEF AddReply
      <4>2. asked[cont[h]] \subseteq want[h] \cup got[h]
        BY <1>8, <4>1 DEF CoverInv, Covers
      <4>3. QED
        BY <4>1, <4>2
    <3>2. CASE AddReplyEmpty(h) \/ ReleaseReply(h)
      BY <1>1, <1>8, <3>2 DEF AddReplyEmpty, ReleaseReply
    <3>3. QED
      BY <1>8, <3>1, <3>2
  <2>6. RequestHonoured'
    BY <1>1, <2>2, <2>5 DEF RequestHonoured
  <2>7. QED
    BY <1>3, <1>4, <2>4, <2>6
<1>9. QED
  BY <1>1, <1>7, <1>8

\* The runtime asks and gives up.
LEMMA RequestKeepsGrants ==
    ASSUME GrantInv, TypeInv', NEW h \in Handler, Request(h) \/ GiveUp(h)
    PROVE  GrantInv'
<1> USE ServerAssumption
<1> USE DEF GrantInv, TypeInv, ServerTypeOK, Goto
<1>1. ASSUME NEW c \in Container, NEW ips \in SUBSET (Nat \cup {Nil}), NEW m, NEW p,
             Begin(h, c, m, p, ips),
             phase[c] # "busy", phase' = [phase EXCEPT ![c] = "busy"],
             asked' = [asked EXCEPT ![c] = ips],
             \A d \in Container \ {c} : held'[d] = held[d],
             (m = "add" /\ p = "pick") \/ (m = "del" /\ p = "rel")
      PROVE  GrantInv'
  <2>1. /\ pc[h] = "idle" /\ Home[c] = NodeOf[h] /\ UNCHANGED gone
        /\ pc'[h] = p /\ mode'[h] = m /\ cont'[h] = c /\ want'[h] = ips
        /\ \A g \in Handler \ {h} :
            /\ pc'[g] = pc[g] /\ mode'[g] = mode[g] /\ cont'[g] = cont[g]
            /\ want'[g] = want[g] /\ got'[g] = got[g] /\ ask'[g] = ask[g] /\ cand'[g] = cand[g]
    BY <1>1 DEF Begin
  <2>2. HomeInv' /\ WorkInv'
    <3>1. mode'[h] # "check" /\ Home[cont'[h]] = NodeOf[h]
      BY <1>1, <2>1
    <3>2. QED
      BY <2>1, <3>1, OthersStay
  <2>3. \A g \in Handler : Active(g) => cont[g] # c /\ cont[g] \in Container /\ g # h
    BY <1>1, <2>1 DEF SoleInv, Active, LocalInv
  <2>4. \A g \in Handler \ {h} : Active(g)' <=> Active(g)
    BY <2>1 DEF Active
  <2>5. SoleInv'
    <3>1. cont'[h] = c /\ phase'[c] = "busy"
      BY <1>1, <2>1
    <3>2. ASSUME NEW g \in Handler, g # h, Active(g)'
          PROVE  Active(g) /\ cont'[g] = cont[g] /\ cont[g] # c /\ phase'[cont[g]] = "busy"
      BY <1>1, <2>1, <2>3, <2>4, <3>2 DEF SoleInv
    <3>3. \A g \in Handler : Active(g)' => phase'[cont'[g]] = "busy"
      BY <3>1, <3>2
    <3>4. ASSUME NEW g \in Handler, NEW k \in Handler, Active(g)', Active(k)', cont'[g] = cont'[k]
          PROVE  g = k
      BY <3>1, <3>2, <3>4 DEF SoleInv
    <3>5. QED
      BY <3>3, <3>4 DEF SoleInv
  <2>6. CoverInv'
    <3>1. ASSUME NEW g \in Handler \ gone, g # h, pc[g] \in Allocating
          PROVE  asked'[cont[g]] = asked[cont[g]]
      BY <1>1, <2>3, <3>1 DEF Active, WorkInv, Allocating
    <3>2. asked'[c] = ips
      BY <1>1
    <3>3. ASSUME NEW g \in Handler \ gone, g # h PROVE Covers(g)'
      BY <2>1, <3>1, <3>3 DEF CoverInv, Covers, Allocating
    <3>4. pc'[h] \in {"pick", "rel"} /\ (pc'[h] = "pick" => asked'[cont'[h]] = want'[h])
      BY <1>1, <2>1, <3>2
    <3>5. Covers(h)'
      BY <3>4 DEF Covers
    <3>6. QED
      BY <2>1, <3>3, <3>5 DEF CoverInv
  <2>7. RequestHonoured'
    BY <1>1 DEF RequestHonoured
  <2>8. QED
    BY <2>2, <2>5, <2>6, <2>7
<1>2. ASSUME NEW c \in Container, NEW ips \in Requests, AddRecv(h, c, ips) PROVE GrantInv'
  BY <1>1, <1>2 DEF AddRecv
<1>3. ASSUME NEW c \in Container, DelRecv(h, c) PROVE GrantInv'
  BY <1>1, <1>3 DEF DelRecv
<1>4. ASSUME NEW c \in Container, CheckRecv(h, c) PROVE GrantInv'
  <2>1. /\ pc[h] = "idle" /\ Home[c] = NodeOf[h] /\ UNCHANGED <<gone, phase, asked, held>>
        /\ pc'[h] = "chk" /\ mode'[h] = "check" /\ cont'[h] = c
        /\ \A g \in Handler \ {h} :
            /\ pc'[g] = pc[g] /\ mode'[g] = mode[g] /\ cont'[g] = cont[g]
            /\ want'[g] = want[g] /\ got'[g] = got[g] /\ ask'[g] = ask[g] /\ cand'[g] = cand[g]
    BY <1>4 DEF CheckRecv, Begin
  <2>2. HomeInv' /\ WorkInv'
    <3>1. pc'[h] \notin Allocating \cup Releasing /\ Home[cont'[h]] = NodeOf[h]
      BY <2>1 DEF Allocating, Releasing
    <3>2. QED
      BY <2>1, <3>1, OthersStay
  <2>3. ~ Active(h)' /\ \A g \in Handler \ {h} : Active(g)' <=> Active(g)
    BY <2>1 DEF Active
  <2>4. SoleInv'
    BY <2>1, <2>3, SoleStep
  <2>5. CoverInv' /\ RequestHonoured'
    <3>1. ASSUME NEW g \in Handler \ gone, g # h PROVE Covers(g)'
      BY <2>1, <3>1 DEF CoverInv, Covers
    <3>2. Covers(h)'
      BY <2>1 DEF Covers
    <3>3. CoverInv'
      BY <2>1, <3>1, <3>2 DEF CoverInv
    <3>4. RequestHonoured'
      BY <2>1 DEF RequestHonoured
    <3>5. QED
      BY <3>3, <3>4
  <2>6. QED
    BY <2>2, <2>4, <2>5
<1>5. ASSUME GiveUp(h) PROVE GrantInv'
  <2>1. /\ Active(h) /\ UNCHANGED <<pc, mode, cont, want, got, ask, cand, asked, held>>
        /\ gone' = gone \cup {h} /\ phase' = [phase EXCEPT ![cont[h]] = "failed"]
    BY <1>5 DEF GiveUp, Active, reqVars
  <2>2. HomeInv' /\ WorkInv'
    BY <2>1 DEF HomeInv, WorkInv
  <2>3. \A g \in Handler : Active(g)' => Active(g) /\ g # h
    BY <2>1 DEF Active
  <2>4. \A g \in Handler : Active(g)' => cont[g] # cont[h]
    BY <2>1, <2>3 DEF SoleInv
  <2>5. SoleInv'
    BY <2>1, <2>3, <2>4 DEF SoleInv, Active, LocalInv
  <2>6. CoverInv'
    BY <2>1 DEF CoverInv, Covers
  <2>7. RequestHonoured'
    BY <2>1 DEF RequestHonoured
  <2>8. QED
    BY <2>2, <2>5, <2>6, <2>7
<1>6. QED
  BY <1>2, <1>3, <1>4, <1>5 DEF Request

\* A process that dies takes all that work for the containers of its node with it.
LEMMA DieKeepsGrants ==
    ASSUME GrantInv, TypeInv', NEW n \in Node, Die(n)
    PROVE  GrantInv'
<1> USE DEF GrantInv, TypeInv, ServerTypeOK
<1>1. /\ UNCHANGED <<asked, held>>
      /\ \A g \in Handler :
            IF NodeOf[g] = n THEN pc'[g] = "idle"
            ELSE /\ pc'[g] = pc[g] /\ mode'[g] = mode[g] /\ cont'[g] = cont[g]
                 /\ g \in gone' <=> g \in gone
                 /\ want'[g] = want[g] /\ got'[g] = got[g] /\ ask'[g] = ask[g] /\ cand'[g] = cand[g]
      /\ \A c \in Container :
            phase'[c] = IF Home[c] = n /\ phase[c] = "busy" THEN "failed" ELSE phase[c]
  BY DEF Die
<1>2. HomeInv' /\ WorkInv'
  BY <1>1 DEF HomeInv, WorkInv, Allocating, Releasing
<1>3. ASSUME NEW g \in Handler, Active(g)'
      PROVE  Active(g) /\ cont'[g] = cont[g] /\ phase'[cont[g]] = phase[cont[g]]
  <2>1. NodeOf[g] # n /\ Active(g) /\ cont'[g] = cont[g]
    BY <1>1, <1>3 DEF Active
  <2>2. cont[g] \in Container /\ Home[cont[g]] # n
    BY <2>1 DEF Active, LocalInv, HomeInv
  <2>3. QED
    BY <1>1, <2>1, <2>2
<1>4. SoleInv'
  BY <1>3, SoleStep
<1>5. CoverInv'
  <2>1. ASSUME NEW g \in Handler \ gone' PROVE Covers(g)'
    <3>1. CASE NodeOf[g] = n
      BY <1>1, <3>1 DEF Covers
    <3>2. CASE NodeOf[g] # n
      BY <1>1, <3>2 DEF CoverInv, Covers
    <3>3. QED
      BY <3>1, <3>2
  <2>2. QED
    BY <2>1 DEF CoverInv
<1>6. RequestHonoured'
  BY <1>1 DEF RequestHonoured
<1>7. QED
  BY <1>2, <1>4, <1>5, <1>6

\* All steps.
LEMMA GrantInvInductive ==
    /\ Init => GrantInv
    /\ GrantInv /\ [Next]_vars => GrantInv'
<1>1. ASSUME Init PROVE GrantInv
  <2>1. TypeInv
    BY <1>1, TypeInvInductive
  <2>2. HomeInv /\ WorkInv /\ SoleInv /\ CoverInv /\ RequestHonoured
    BY <1>1 DEF Init, HomeInv, WorkInv, SoleInv, Active, CoverInv, Covers, RequestHonoured,
        Allocating, Releasing
  <2>3. QED
    BY <2>1, <2>2 DEF GrantInv
<1>2. ASSUME GrantInv, [Next]_vars PROVE GrantInv'
  <2>1. TypeInv'
    BY <1>2, TypeInvInductive DEF GrantInv
  <2>2. ASSUME NEW h \in Handler, Serve(h) PROVE GrantInv'
    BY <1>2, <2>1, <2>2, AllocateKeepsGrants, BetweenKeepsGrants, ReplyKeepsGrants DEF Serve
  <2>3. ASSUME UNCHANGED <<storeVars, pc, reqVars, envVars>> PROVE GrantInv'
    BY <1>2, <2>1, <2>3 DEF storeVars, reqVars, envVars, GrantInv, HomeInv, WorkInv, SoleInv,
        Active, CoverInv, Covers, RequestHonoured
  <2>4. QED
    BY <1>2, <2>1, <2>2, <2>3, RequestKeepsGrants, DieKeepsGrants DEF Next, LockCall, vars
<1>3. QED
  BY <1>1, <1>2

\* "if an IP was requested that wasn't fullfilled, fail" (handler.go:131): a running
\* container has every address its ADD asked for, whatever fails and however many
\* requests run at once, although an ADD may be repeated while an earlier one, that the
\* runtime has given up, is still being served.
THEOREM RequestsHonoured == Spec => []RequestHonoured
<1>1. GrantInv => RequestHonoured
  BY DEF GrantInv
<1>2. QED
  BY <1>1, GrantInvInductive, PTL DEF Spec

--------------------------------------------------------------------------------
(***************************************************************************)
(* The books of the store: what a running container was told is what the   *)
(* store has for it, and a DEL that succeeded has left nothing.            *)
(***************************************************************************)


\* A handler that allocates has written a key for each address it has got, one for each
\* allocator it has passed, and perhaps one more that it gives up; a DEL has as many
\* Releases before it as there are keys left.
Book(h) ==
    /\ pc[h] = "idle" => alloc[h] = 1
    /\ pc[h] \in {"pick", "get", "iter", "resv", "put"} =>
        Owned(cont[h]) = got[h] /\ Cardinality(got[h]) = alloc[h] - 1
    /\ pc[h] \in {"pick", "get", "iter", "resv", "put"} /\ alloc[h] > 1 => got[h] # {}
    /\ pc[h] = "putlast" => Owned(cont[h]) = got[h] \cup {cand[h]}
    /\ pc[h] = "gotok" => Owned(cont[h]) = got[h] /\ got[h] # {}
    /\ pc[h] \in {"putlast", "gotok"} => Cardinality(Owned(cont[h])) = alloc[h]
    /\ pc[h] = "goterr" => Cardinality(Owned(cont[h])) <= alloc[h]
    /\ pc[h] \in {"rel", "del"} /\ mode[h] = "del" =>
        Cardinality(Owned(cont[h])) <= NumAllocs - alloc[h] + 1
    /\ pc[h] = "relok" /\ mode[h] = "del" => Cardinality(Owned(cont[h])) <= NumAllocs - alloc[h]
    /\ pc[h] = "missing" => KVErrors \/ phase[cont[h]] # "up"

\* The keys of a container are as many as its allocators at most; none is left when it
\* is absent, and when it runs there is one for each and they are what it was told.
Account(c) ==
    /\ IsFiniteSet(Owned(c)) /\ Cardinality(Owned(c)) <= NumAllocs
    /\ phase[c] = "absent" => Owned(c) = {}
    /\ phase[c] = "up" => /\ held[c] = Owned(c) /\ held[c] # {}
                          /\ Cardinality(held[c]) = NumAllocs

LedgerInv == (\A h \in Handler : Book(h)) /\ (\A c \in Container : Account(c))

\* A step of h that has to do with the container of h only.
LEMMA OtherBooks ==
    ASSUME Serial, OwnInv, LedgerInv, NEW h \in Handler, NEW c \in Container,
           (pc[h] # "idle" /\ c = cont[h]) \/ (pc[h] = "idle" /\ Home[c] = NodeOf[h]),
           \A g \in Handler \ {h} :
                /\ pc'[g] = pc[g] /\ mode'[g] = mode[g] /\ cont'[g] = cont[g]
                /\ alloc'[g] = alloc[g] /\ got'[g] = got[g] /\ cand'[g] = cand[g],
           \A d \in Container \ {c} :
                Owned(d)' = Owned(d) /\ phase'[d] = phase[d] /\ held'[d] = held[d],
           Book(h)', Account(c)'
    PROVE  LedgerInv'
<1>1. ASSUME NEW g \in Handler, g # h PROVE Book(g)'
  <2>1. CASE pc[g] = "idle"
    BY <1>1, <2>1 DEF LedgerInv, Book
  <2>2. CASE pc[g] # "idle"
    <3>1. cont[g] \in Container /\ Home[cont[g]] = NodeOf[g]
      BY <2>2 DEF OwnInv, TypeInv, LocalInv, HomeInv
    <3>2. cont[g] # c
      BY <1>1, <2>2, <3>1 DEF Serial, OwnInv, HomeInv
    <3>3. Owned(cont[g])' = Owned(cont[g]) /\ phase'[cont[g]] = phase[cont[g]]
      BY <1>1, <3>1, <3>2
    <3>4. QED
      BY <1>1, <3>3 DEF LedgerInv, Book
  <2>3. QED
    BY <2>1, <2>2
<1>2. ASSUME NEW d \in Container, d # c PROVE Account(d)'
  BY <1>2 DEF LedgerInv, Account
<1>3. QED
  BY <1>1, <1>2 DEF LedgerInv

\* A step of h that writes nothing and answers nothing.
LEMMA QuietStep ==
    ASSUME Serial, OwnInv, LedgerInv, NEW h \in Handler, pc[h] # "idle",
           UNCHANGED <<owner, phase, held>>,
           \A g \in Handler \ {h} :
                /\ pc'[g] = pc[g] /\ mode'[g] = mode[g] /\ cont'[g] = cont[g]
                /\ alloc'[g] = alloc[g] /\ got'[g] = got[g] /\ cand'[g] = cand[g],
           Book(h)'
    PROVE  LedgerInv'
<1>1. cont[h] \in Container
  BY DEF OwnInv, TypeInv, LocalInv
<1>2. \A d \in Container : Owned(d)' = Owned(d)
  BY DEF Owned
<1>3. ASSUME NEW d \in Container PROVE Account(d)'
  BY <1>2 DEF LedgerInv, Account
<1>4. QED
  BY <1>1, <1>2, <1>3, OtherBooks

\* Get and the first half of Reserve only read.
LEMMA ReadsKeepLedger ==
    ASSUME Serial, OwnInv, LedgerInv, NEW h \in Handler,
           PickRequested(h) \/ GetRequested(h) \/ GetDynamic(h) \/ GetNext(h) \/ ReserveGet(h)
    PROVE  LedgerInv'
<1> USE DEF OwnInv, TypeInv, ServerTypeOK, Goto, envVars, storeVars, reqVars
<1>1. /\ UNCHANGED <<owner, phase, held, mode, cont, alloc, got>>
      /\ pc[h] \in {"pick", "get", "iter", "resv"}
      /\ \A g \in Handler \ {h} : pc'[g] = pc[g] /\ cand'[g] = cand[g]
  BY DEF PickRequested, GetRequested, GetDynamic, GetNext, ReserveGet
<1>2. pc'[h] \in {"get", "iter", "resv", "put", "goterr"}
  <2>1. CASE PickRequested(h)
    BY <2>1 DEF PickRequested
  <2>2. CASE GetRequested(h)
    BY <2>2 DEF GetRequested
  <2>3. CASE GetDynamic(h)
    BY <2>3 DEF GetDynamic
  <2>4. CASE GetNext(h)
    BY <2>4 DEF GetNext
  <2>5. CASE ReserveGet(h)
    BY <2>5 DEF ReserveGet
  <2>6. QED
    BY <2>1, <2>2, <2>3, <2>4, <2>5
<1>3. Owned(cont[h])' = Owned(cont[h])
  BY <1>1 DEF Owned
<1>4. /\ Owned(cont[h]) = got[h] /\ Cardinality(got[h]) = alloc[h] - 1
      /\ alloc[h] > 1 => got[h] # {}
  BY <1>1 DEF LedgerInv, Book
<1>5. Cardinality(got[h]) <= alloc[h]
  <2>1. IsFiniteSet(got[h]) /\ alloc[h] \in Nat
    BY <1>1, <1>4, ServerAssumption DEF LedgerInv, Account, LocalInv, NumAllocs
  <2>2. Cardinality(got[h]) \in Nat
    BY <2>1, FS_CardinalityType
  <2>3. QED
    BY <1>4, <2>1, <2>2
<1>6. Book(h)'
  BY <1>1, <1>2, <1>3, <1>4, <1>5 DEF Book
<1>7. QED
  BY <1>1, <1>6, QuietStep

\* The second half of Reserve writes the key and the last reserved address.
LEMMA WritesKeepLedger ==
    ASSUME Serial, OwnInv, LedgerInv, NEW h \in Handler, ReservePut(h) \/ ReserveLast(h)
    PROVE  LedgerInv'
<1> USE DEF OwnInv, TypeInv, ServerTypeOK, Goto, envVars, storeVars, reqVars
<1>1. /\ cont[h] \in Container /\ cand[h] \in IP
      /\ alloc[h] \in Nat /\ NumAllocs \in Nat /\ alloc[h] <= NumAllocs
  BY ServerAssumption DEF ReservePut, ReserveLast, LocalInv, NumAllocs
<1>2. IsFiniteSet(Owned(cont[h])) /\ Cardinality(Owned(cont[h])) \in Nat
  BY <1>1, FS_CardinalityType DEF LedgerInv, Account
<1>3. CASE ReservePut(h)
  <2>1. /\ UNCHANGED <<phase, held, mode, cont, alloc, got, cand>> /\ pc[h] = "put"
        /\ \A g \in Handler \ {h} : pc'[g] = pc[g]
        /\ owner[cand[h]] = None /\ phase[cont[h]] \in {"busy", "failed"}
    BY <1>3 DEF ReservePut, StoreInv, BusyInv, Allocating
  <2>2. Owned(cont[h]) = got[h] /\ Cardinality(Owned(cont[h])) = alloc[h] - 1
    BY <1>1, <1>2, <2>1 DEF LedgerInv, Book
  <2>3. CASE UNCHANGED owner /\ pc'[h] = "goterr"
    <3>1. Owned(cont[h])' = Owned(cont[h])
      BY <2>1, <2>3 DEF Owned
    <3>2. Cardinality(Owned(cont[h])) <= alloc[h]
      BY <1>1, <1>2, <2>2
    <3>3. Book(h)'
      BY <2>1, <2>3, <3>1, <3>2 DEF Book
    <3>4. QED
      BY <2>1, <2>3, <3>3, QuietStep
  <2>4. CASE owner' = [owner EXCEPT ![cand[h]] = cont[h]] /\ pc'[h] \in {"putlast", "goterr"}
    <3>1. \A d \in Container \ {cont[h]} : Owned(d)' = Owned(d)
      BY <1>1, <2>1, <2>4, ServerAssumption DEF Owned
    <3>2. Owned(cont[h])' = Owned(cont[h]) \cup {cand[h]}
      BY <1>1, <2>1, <2>4 DEF Owned
    <3>3. cand[h] \notin Owned(cont[h])
      BY <1>1, <2>1, ServerAssumption DEF Owned
    <3>4. /\ IsFiniteSet(Owned(cont[h])')
          /\ Cardinality(Owned(cont[h])') = Cardinality(Owned(cont[h])) + 1
      BY <1>2, <3>2, <3>3, FS_AddElement
    <3>5. Cardinality(Owned(cont[h])') = alloc[h]
      BY <1>1, <1>2, <2>2, <3>4
    <3>6. Book(h)'
      BY <1>1, <2>1, <2>2, <2>4, <3>2, <3>5 DEF Book
    <3>7. Account(cont[h])'
      <4>1. Cardinality(Owned(cont[h])') <= NumAllocs
        <5>1. Cardinality(Owned(cont[h])') \in Nat
          BY <1>2, <3>4
        <5>2. QED
          BY <1>1, <3>5, <5>1
      <4>2. QED
        BY <2>1, <3>4, <4>1 DEF Account
    <3>8. QED
      BY <1>1, <2>1, <3>1, <3>6, <3>7, OtherBooks
  <2>5. QED
    BY <1>3, <2>3, <2>4 DEF ReservePut
<1>4. CASE ReserveLast(h)
  <2>1. /\ UNCHANGED <<owner, phase, held, mode, cont, alloc, cand>> /\ pc[h] = "putlast"
        /\ \A g \in Handler \ {h} : pc'[g] = pc[g] /\ got'[g] = got[g]
        /\ \/ pc'[h] = "gotok" /\ got'[h] = got[h] \cup {cand[h]}
           \/ pc'[h] = "goterr"
    BY <1>4 DEF ReserveLast
  <2>2. Owned(cont[h])' = Owned(cont[h])
    BY <2>1 DEF Owned
  <2>3. Owned(cont[h]) = got[h] \cup {cand[h]} /\ Cardinality(Owned(cont[h])) = alloc[h]
    BY <2>1 DEF LedgerInv, Book
  <2>4. Cardinality(Owned(cont[h])) <= alloc[h]
    BY <1>1, <2>3
  <2>5. Book(h)'
    BY <2>1, <2>2, <2>3, <2>4 DEF Book
  <2>6. QED
    BY <2>1, <2>5, QuietStep
<1>5. QED
  BY <1>3, <1>4

\* On to the next allocator, to a Release, or to an answer of Check.
LEMMA MovesKeepLedger ==
    ASSUME Serial, OwnInv, LedgerInv, NEW h \in Handler,
           AfterGet(h) \/ AddUnfulfilled(h) \/ ReleaseList(h) \/ ReleaseNext(h) \/ FindByID(h)
    PROVE  LedgerInv'
<1> USE DEF OwnInv, TypeInv, ServerTypeOK, Goto, envVars, storeVars, reqVars
<1>1. /\ UNCHANGED <<owner, phase, held, cont, got>> /\ pc[h] # "idle"
      /\ cont[h] \in Container
      /\ \A g \in Handler \ {h} :
            pc'[g] = pc[g] /\ mode'[g] = mode[g] /\ alloc'[g] = alloc[g] /\ cand'[g] = cand[g]
  BY DEF AfterGet, AddUnfulfilled, ReleaseList, ReleaseNext, FindByID, LocalInv
<1>2. Owned(cont[h])' = Owned(cont[h])
  BY <1>1 DEF Owned
<1>3. IsFiniteSet(Owned(cont[h])) /\ Cardinality(Owned(cont[h])) \in Nat
  BY <1>1, FS_CardinalityType DEF LedgerInv, Account
<1>4. Book(h)'
  <2>1. CASE AfterGet(h) /\ pc[h] = "gotok"
    <3>1. pc'[h] = "pick" /\ alloc'[h] = alloc[h] + 1 /\ alloc[h] \in Nat
      BY <2>1, ServerAssumption DEF AfterGet, NumAllocs
    <3>2. Owned(cont[h]) = got[h] /\ got[h] # {} /\ Cardinality(got[h]) = alloc[h]
      BY <2>1 DEF LedgerInv, Book
    <3>3. Cardinality(got[h]) = alloc'[h] - 1
      BY <1>3, <3>1, <3>2
    <3>4. QED
      BY <1>1, <1>2, <3>1, <3>2, <3>3 DEF Book
  <2>2. CASE (AfterGet(h) /\ pc[h] # "gotok") \/ AddUnfulfilled(h)
    <3>1. pc'[h] = "rel" /\ mode'[h] = "undo"
      BY <2>2 DEF AfterGet, AddUnfulfilled
    <3>2. QED
      BY <3>1 DEF Book
  <2>3. CASE ReleaseList(h)
    <3>1. /\ pc[h] = "rel" /\ UNCHANGED <<mode, alloc>>
          /\ \/ pc'[h] \in {"del", "relerr"}
             \/ pc'[h] = "relok" /\ Owned(cont[h]) = {}
          /\ alloc[h] \in Nat /\ NumAllocs \in Nat /\ alloc[h] <= NumAllocs
      BY <2>3, ServerAssumption DEF ReleaseList, LocalInv, NumAllocs
    <3>2. pc'[h] = "relok" => Cardinality(Owned(cont[h])) <= NumAllocs - alloc[h]
      <4>1. Cardinality({}) = 0
        BY FS_EmptySet
      <4>2. pc'[h] = "relok" => Owned(cont[h]) = {}
        BY <3>1
      <4>3. 0 <= NumAllocs - alloc[h]
        BY <3>1
      <4>4. QED
        BY <4>1, <4>2, <4>3, Zenon
    <3>3. mode[h] = "del" => Cardinality(Owned(cont[h])) <= NumAllocs - alloc[h] + 1
      BY <3>1 DEF LedgerInv, Book
    <3>4. QED
      BY <1>1, <1>2, <3>1, <3>2, <3>3 DEF Book
  <2>4. CASE ReleaseNext(h)
    <3>1. /\ pc'[h] = "rel" /\ alloc'[h] = alloc[h] + 1 /\ mode'[h] = AfterError(h)
          /\ alloc[h] \in Nat /\ NumAllocs \in Nat /\ pc[h] \in {"relok", "relerr"}
      BY <2>4, ServerAssumption DEF ReleaseNext, LocalInv, NumAllocs
    <3>2. mode'[h] = "del" => pc[h] = "relok" /\ mode[h] = "del"
      BY <3>1 DEF AfterError
    <3>3. mode'[h] = "del" => Cardinality(Owned(cont[h])) <= NumAllocs - alloc[h]
      BY <3>2 DEF LedgerInv, Book
    <3>4. mode'[h] = "del" => Cardinality(Owned(cont[h])) <= NumAllocs - alloc'[h] + 1
      BY <1>3, <3>1, <3>3
    <3>5. QED
      BY <1>1, <1>2, <3>1, <3>4 DEF Book
  <2>5. CASE FindByID(h)
    <3>1. /\ pc'[h] \in {"found", "missing"}
          /\ pc'[h] = "missing" => KVErrors \/ Owned(cont[h]) = {}
      BY <2>5 DEF FindByID
    <3>2. pc'[h] = "missing" => KVErrors \/ phase[cont[h]] # "up"
      BY <1>1, <3>1 DEF LedgerInv, Account
    <3>3. QED
      BY <1>1, <3>1, <3>2 DEF Book
  <2>6. QED
    BY <2>1, <2>2, <2>3, <2>4, <2>5
<1>5. QED
  BY <1>1, <1>4, QuietStep

\* A Release that succeeds takes one key away.
LEMMA DeleteKeepsLedger ==
    ASSUME Serial, OwnInv, LedgerInv, NEW h \in Handler, ReleaseDelete(h)
    PROVE  LedgerInv'
<1> USE DEF OwnInv, TypeInv, ServerTypeOK, Goto, envVars, storeVars, reqVars
<1>1. /\ cont[h] \in Container /\ cand[h] \in IP /\ owner[cand[h]] = cont[h]
      /\ pc[h] = "del" /\ UNCHANGED <<phase, held, mode, cont, alloc, got, cand>>
      /\ alloc[h] \in Nat /\ NumAllocs \in Nat
      /\ \A g \in Handler \ {h} : pc'[g] = pc[g]
      /\ phase[cont[h]] \in {"busy", "failed"}
  BY ServerAssumption DEF ReleaseDelete, LocalInv, StoreInv, BusyInv, Releasing, NumAllocs
<1>2. IsFiniteSet(Owned(cont[h])) /\ Cardinality(Owned(cont[h])) \in Nat
  BY <1>1, FS_CardinalityType DEF LedgerInv, Account
<1>3. CASE UNCHANGED owner /\ pc'[h] = "relerr"
  <2>1. Book(h)'
    BY <1>3 DEF Book
  <2>2. QED
    BY <1>1, <1>3, <2>1, QuietStep
<1>4. CASE owner' = [owner EXCEPT ![cand[h]] = None] /\ pc'[h] \in {"relok", "relerr"}
  <2>1. \A d \in Container \ {cont[h]} : Owned(d)' = Owned(d)
    BY <1>1, <1>4, ServerAssumption DEF Owned
  <2>2. Owned(cont[h])' = Owned(cont[h]) \ {cand[h]} /\ cand[h] \in Owned(cont[h])
    BY <1>1, <1>4, ServerAssumption DEF Owned
  <2>3. /\ IsFiniteSet(Owned(cont[h])')
        /\ Cardinality(Owned(cont[h])') = Cardinality(Owned(cont[h])) - 1
    <3>1. /\ IsFiniteSet(Owned(cont[h]) \ {cand[h]})
          /\ Cardinality(Owned(cont[h]) \ {cand[h]}) =
                IF cand[h] \in Owned(cont[h]) THEN Cardinality(Owned(cont[h])) - 1
                ELSE Cardinality(Owned(cont[h]))
      BY <1>2, FS_RemoveElement, Zenon
    <3>2. QED
      BY <2>2, <3>1
  <2>4. mode[h] = "del" => Cardinality(Owned(cont[h])) <= NumAllocs - alloc[h] + 1
    BY <1>1 DEF LedgerInv, Book
  <2>5. mode[h] = "del" => Cardinality(Owned(cont[h])') <= NumAllocs - alloc[h]
    BY <1>1, <1>2, <2>3, <2>4
  <2>6. Book(h)'
    BY <1>1, <1>4, <2>5 DEF Book
  <2>7. Cardinality(Owned(cont[h])') <= NumAllocs
    <3>1. Cardinality(Owned(cont[h])) <= NumAllocs
      BY <1>1 DEF LedgerInv, Account
    <3>2. QED
      BY <1>1, <1>2, <2>3, <3>1
  <2>8. Account(cont[h])'
    BY <1>1, <2>3, <2>7 DEF Account
  <2>9. QED
    BY <1>1, <2>1, <2>6, <2>8, OtherBooks
<1>5. QED
  BY <1>3, <1>4 DEF ReleaseDelete

\* The answer of an Add tells what the store has; that of a Del that succeeded is given
\* when no key is left.
LEMMA RepliesKeepLedger ==
    ASSUME Serial, OwnInv, LedgerInv, NEW h \in Handler,
           AddReply(h) \/ AddReplyEmpty(h) \/ ReleaseReply(h) \/ CheckReply(h)
    PROVE  LedgerInv'
<1> USE DEF OwnInv, TypeInv, ServerTypeOK, Goto, storeVars
<1>1. /\ Finish(h) /\ pc[h] # "idle" /\ cont[h] \in Container /\ UNCHANGED owner
      /\ \A d \in Container \ {cont[h]} : phase'[d] = phase[d] /\ held'[d] = held[d]
      /\ alloc[h] \in Nat /\ NumAllocs \in Nat \ {0}
  BY ServerAssumption DEF AddReply, AddReplyEmpty, ReleaseReply, CheckReply, LocalInv, NumAllocs
<1>2. /\ pc'[h] = "idle" /\ alloc'[h] = 1
      /\ \A g \in Handler \ {h} :
            /\ pc'[g] = pc[g] /\ mode'[g] = mode[g] /\ cont'[g] = cont[g]
            /\ alloc'[g] = alloc[g] /\ got'[g] = got[g] /\ cand'[g] = cand[g]
  BY <1>1 DEF Finish
<1>3. \A d \in Container : Owned(d)' = Owned(d)
  BY <1>1 DEF Owned
<1>4. Book(h)'
  BY <1>2 DEF Book
<1>5. ASSUME /\ phase'[cont[h]] = "absent" => phase[cont[h]] = "absent" \/ Owned(cont[h]) = {}
             /\ phase'[cont[h]] = "up" =>
                    \/ phase[cont[h]] = "up" /\ held'[cont[h]] = held[cont[h]]
                    \/ /\ held'[cont[h]] = Owned(cont[h]) /\ Owned(cont[h]) # {}
                       /\ Cardinality(Owned(cont[h])) = NumAllocs
      PROVE  LedgerInv'
  <2>1. PICK c \in Container : c = cont[h]
    BY <1>1
  <2>2. Account(c) /\ Owned(c)' = Owned(c)
    BY <1>3 DEF LedgerInv
  <2>3. phase'[c] = "absent" => Owned(c) = {}
    BY <1>5, <2>1, <2>2 DEF Account
  <2>4. phase'[c] = "up" => /\ held'[c] = Owned(c) /\ held'[c] # {}
                            /\ Cardinality(held'[c]) = NumAllocs
    BY <1>5, <2>1, <2>2 DEF Account
  <2>5. Account(c)'
    BY <2>2, <2>3, <2>4 DEF Account
  <2>6. QED
    BY <1>1, <1>2, <1>3, <1>4, <2>1, <2>5, OtherBooks
<1>6. CASE AddReply(h)
  <2>1. /\ pc[h] = "pick" /\ alloc[h] = NumAllocs + 1
        /\ \/ UNCHANGED <<phase, held>>
           \/ phase'[cont[h]] = "up" /\ held'[cont[h]] = got[h]
    BY <1>1, <1>6 DEF AddReply
  <2>2. Owned(cont[h]) = got[h] /\ got[h] # {} /\ Cardinality(got[h]) = NumAllocs
    <3>1. alloc[h] > 1 /\ alloc[h] - 1 = NumAllocs
      BY <1>1, <2>1
    <3>2. Book(h)
      BY DEF LedgerInv
    <3>3. QED
      BY <2>1, <3>1, <3>2 DEF Book
  <2>3. QED
    BY <1>5, <2>1, <2>2
<1>7. CASE AddReplyEmpty(h) \/ CheckReply(h)
  <2>1. UNCHANGED held /\ (UNCHANGED phase \/ phase'[cont[h]] = "failed")
    BY <1>1, <1>7 DEF AddReplyEmpty, CheckReply
  <2>2. QED
    BY <1>5, <2>1
<1>8. CASE ReleaseReply(h)
  <2>1. /\ pc[h] \in {"relok", "relerr"} /\ alloc[h] = NumAllocs /\ UNCHANGED held
        /\ \/ UNCHANGED phase
           \/ phase'[cont[h]] = "failed"
           \/ phase'[cont[h]] = "absent" /\ AfterError(h) = "del"
    BY <1>1, <1>8 DEF ReleaseReply, LastRelease
  <2>2. ASSUME AfterError(h) = "del" PROVE Owned(cont[h]) = {}
    <3>1. pc[h] = "relok" /\ mode[h] = "del"
      BY <2>1, <2>2 DEF AfterError
    <3>2. Cardinality(Owned(cont[h])) <= NumAllocs - alloc[h] /\ IsFiniteSet(Owned(cont[h]))
      BY <1>1, <3>1 DEF LedgerInv, Book, Account
    <3>3. Cardinality(Owned(cont[h])) \in Nat
      BY <3>2, FS_CardinalityType
    <3>4. Cardinality(Owned(cont[h])) = 0
      BY <1>1, <2>1, <3>2, <3>3
    <3>5. QED
      BY <3>2, <3>4, FS_EmptySet
  <2>3. QED
    BY <1>5, <2>1, <2>2
<1>9. QED
  BY <1>6, <1>7, <1>8

\* A request begins; a client goes away.
LEMMA RequestsKeepLedger ==
    ASSUME Serial, ~RetryAdd, OwnInv, LedgerInv, NEW h \in Handler, Request(h) \/ GiveUp(h)
    PROVE  LedgerInv'
<1> USE DEF OwnInv, TypeInv, ServerTypeOK, Goto, storeVars, reqVars
<1>0. NumAllocs \in Nat \ {0}
  BY ServerAssumption DEF NumAllocs
<1>1. ASSUME NEW c \in Container, NEW ips \in Requests, AddRecv(h, c, ips) PROVE LedgerInv'
  <2>1. /\ pc[h] = "idle" /\ Home[c] = NodeOf[h] /\ phase[c] = "absent"
        /\ UNCHANGED <<owner, held, alloc, got, cand>> /\ phase'[c] = "busy"
        /\ pc'[h] = "pick" /\ cont'[h] = c
        /\ \A g \in Handler \ {h} : pc'[g] = pc[g] /\ mode'[g] = mode[g] /\ cont'[g] = cont[g]
        /\ \A d \in Container \ {c} : phase'[d] = phase[d]
    BY <1>1 DEF AddRecv, Begin
  <2>2. \A d \in Container : Owned(d)' = Owned(d)
    BY <2>1 DEF Owned
  <2>3. Owned(c) = {} /\ got[h] = {} /\ alloc[h] = 1 /\ Cardinality({}) = 0
    BY <2>1, FS_EmptySet DEF LedgerInv, Account, Book, ModeInv
  <2>4. Owned(cont[h])' = {}
    BY <2>1, <2>3 DEF Owned
  <2>5. Book(h)'
    BY <2>1, <2>3, <2>4 DEF Book
  <2>6. Account(c)'
    BY <2>1, <2>2 DEF LedgerInv, Account
  <2>7. QED
    BY <2>1, <2>2, <2>5, <2>6, OtherBooks
<1>2. ASSUME NEW c \in Container, DelRecv(h, c) PROVE LedgerInv'
  <2>1. /\ pc[h] = "idle" /\ Home[c] = NodeOf[h]
        /\ UNCHANGED <<owner, alloc, got, cand>> /\ phase'[c] = "busy"
        /\ pc'[h] = "rel" /\ cont'[h] = c
        /\ \A g \in Handler \ {h} : pc'[g] = pc[g] /\ mode'[g] = mode[g] /\ cont'[g] = cont[g]
        /\ \A d \in Container \ {c} : phase'[d] = phase[d] /\ held'[d] = held[d]
    BY <1>2 DEF DelRecv, Begin
  <2>2. \A d \in Container : Owned(d)' = Owned(d)
    BY <2>1 DEF Owned
  <2>3. alloc'[h] = 1 /\ IsFiniteSet(Owned(c)) /\ Cardinality(Owned(c)) <= NumAllocs
    BY <2>1 DEF LedgerInv, Account, Book
  <2>4. Owned(cont[h])' = Owned(c)
    BY <2>1 DEF Owned
  <2>5. Cardinality(Owned(c)) <= NumAllocs - alloc'[h] + 1
    <3>1. Cardinality(Owned(c)) \in Nat
      BY <2>3, FS_CardinalityType
    <3>2. QED
      BY <1>0, <2>3, <3>1
  <2>6. Book(h)'
    BY <2>1, <2>4, <2>5 DEF Book
  <2>7. Account(c)'
    BY <2>1, <2>2 DEF LedgerInv, Account
  <2>8. QED
    BY <2>1, <2>2, <2>6, <2>7, OtherBooks
<1>3. ASSUME NEW c \in Container, CheckRecv(h, c) PROVE LedgerInv'
  <2>1. /\ pc[h] = "idle" /\ Home[c] = NodeOf[h]
        /\ UNCHANGED <<owner, phase, held, alloc, got, cand>> /\ pc'[h] = "chk"
        /\ \A g \in Handler \ {h} : pc'[g] = pc[g] /\ mode'[g] = mode[g] /\ cont'[g] = cont[g]
    BY <1>3 DEF CheckRecv, Begin
  <2>2. \A d \in Container : Owned(d)' = Owned(d)
    BY <2>1 DEF Owned
  <2>3. Book(h)'
    BY <2>1 DEF Book
  <2>4. Account(c)'
    BY <2>1, <2>2 DEF LedgerInv, Account
  <2>5. QED
    BY <2>1, <2>2, <2>3, <2>4, OtherBooks
<1>4. ASSUME GiveUp(h) PROVE LedgerInv'
  <2>1. /\ pc[h] # "idle" /\ UNCHANGED <<owner, pc, mode, cont, alloc, got, cand, held>>
        /\ cont[h] \in Container /\ mode[h] # "check"
        /\ phase' = [phase EXCEPT ![cont[h]] = "failed"]
    BY <1>4 DEF GiveUp, LocalInv
  <2>2. \A d \in Container : Owned(d)' = Owned(d)
    BY <2>1 DEF Owned
  <2>3. phase'[cont[h]] = "failed" /\ \A d \in Container \ {cont[h]} : phase'[d] = phase[d]
    BY <2>1
  <2>4. PICK c \in Container : c = cont[h]
    BY <2>1
  <2>5. Account(c)'
    BY <2>2, <2>3, <2>4 DEF LedgerInv, Account
  <2>6. Book(h) /\ Owned(cont[h])' = Owned(cont[h])
    BY <2>1 DEF LedgerInv, Owned
  <2>7. Book(h)'
    BY <2>1, <2>3, <2>6 DEF Book
  <2>8. QED
    BY <2>1, <2>2, <2>3, <2>4, <2>5, <2>7, OtherBooks
<1>5. QED
  BY <1>1, <1>2, <1>3, <1>4 DEF Request

\* A process that dies leaves the store as it is.
LEMMA DieKeepsLedger ==
    ASSUME Serial, OwnInv, LedgerInv, NEW n \in Node, Die(n)
    PROVE  LedgerInv'
<1> USE DEF OwnInv, TypeInv, ServerTypeOK, storeVars
<1>1. /\ UNCHANGED <<owner, held>>
      /\ \A g \in Handler :
            IF NodeOf[g] = n THEN pc'[g] = "idle" /\ alloc'[g] = 1
            ELSE /\ pc'[g] = pc[g] /\ mode'[g] = mode[g] /\ cont'[g] = cont[g]
                 /\ alloc'[g] = alloc[g] /\ got'[g] = got[g] /\ cand'[g] = cand[g]
      /\ \A c \in Container : phase'[c] = phase[c] \/ phase'[c] = "failed"
  BY DEF Die
<1>2. \A d : Owned(d)' = Owned(d)
  BY <1>1 DEF Owned
<1>3. ASSUME NEW g \in Handler PROVE Book(g)'
  <2>1. CASE NodeOf[g] = n
    BY <1>1, <2>1 DEF Book
  <2>2. CASE NodeOf[g] # n
    <3>1. Book(g) /\ Owned(cont[g])' = Owned(cont[g])
      BY <1>1, <2>2 DEF LedgerInv, Owned
    <3>2. pc[g] # "idle" => phase'[cont[g]] = phase[cont[g]] \/ phase'[cont[g]] = "failed"
      BY <1>1 DEF LocalInv
    <3>3. QED
      BY <1>1, <2>2, <3>1, <3>2 DEF Book
  <2>3. QED
    BY <2>1, <2>2
<1>4. ASSUME NEW c \in Container PROVE Account(c)'
  BY <1>1, <1>2 DEF LedgerInv, Account
<1>5. QED
  BY <1>3, <1>4 DEF LedgerInv

\* The books are in order initially and after every step.
LEMMA LedgerInvInductive ==
    ASSUME Serial, ~RetryAdd
    PROVE  /\ Init => LedgerInv
           /\ OwnInv /\ LedgerInv /\ [Next]_vars => LedgerInv'
<1>1. ASSUME Init PROVE LedgerInv
  <2>1. ASSUME NEW c \in Container PROVE Account(c)
    <3>1. Owned(c) = {}
      BY <1>1, ServerAssumption DEF Init, Owned
    <3>2. IsFiniteSet({}) /\ Cardinality({}) = 0
      BY FS_EmptySet
    <3>3. QED
      BY <1>1, <3>1, <3>2, ServerAssumption DEF Init, Account, NumAllocs
  <2>2. ASSUME NEW h \in Handler PROVE Book(h)
    BY <1>1 DEF Init, Book
  <2>3. QED
    BY <2>1, <2>2 DEF LedgerInv
<1>2. ASSUME OwnInv, LedgerInv, [Next]_vars PROVE LedgerInv'
  <2>1. ASSUME NEW h \in Handler, Serve(h) PROVE LedgerInv'
    BY <1>2, <2>1, ReadsKeepLedger, WritesKeepLedger, MovesKeepLedger, DeleteKeepsLedger,
       RepliesKeepLedger DEF Serve
  <2>2. ASSUME UNCHANGED <<storeVars, pc, reqVars, envVars>> PROVE LedgerInv'
    <3>1. \A c : Owned(c)' = Owned(c)
      BY <2>2 DEF Owned, storeVars
    <3>2. UNCHANGED <<pc, mode, cont, alloc, got, cand, phase, held>>
      BY <2>2 DEF reqVars, envVars
    <3>3. ASSUME NEW h \in Handler PROVE Book(h)'
      BY <1>2, <3>1, <3>2 DEF LedgerInv, Book
    <3>4. ASSUME NEW c \in Container PROVE Account(c)'
      BY <1>2, <3>1, <3>2 DEF LedgerInv, Account
    <3>5. QED
      BY <3>3, <3>4 DEF LedgerInv
  <2>3. QED
    BY <1>2, <2>1, <2>2, RequestsKeepLedger, DieKeepsLedger DEF Next, LockCall, vars
<1>3. QED
  BY <1>1, <1>2

\* What the runtime was told is what the store says (allocator.go:33, backend.go:123), for
\* any number of nodes, containers, addresses and range sets, though the store and Unlock
\* fail, processes crash, clients give up and resolv.conf cannot be read.  Conditions are
\* those of NoAddressTwice, and that an ADD that failed is followed by a DEL.
THEOREM GrantsExact ==
    ASSUME Reliable, ~RetryAdd
    PROVE  Spec => []GrantExact
<1>1. ASSUME OwnInv, LedgerInv PROVE GrantExact
  <2>1. ASSUME NEW c \in Container
        PROVE  held[c] = IF phase[c] = "up" THEN Owned(c) ELSE {}
    BY <1>1 DEF OwnInv, HeldInv, LedgerInv, Account
  <2>2. QED
    BY <2>1 DEF GrantExact
<1>2. Init => LockInit
  BY DEF Init
<1>3. Serial
  BY DEF Reliable
<1>4. QED
  BY <1>1, <1>2, <1>3, LockRefined, LockTypeCorrect, Exclusion, OwnInvInductive,
     LedgerInvInductive, PTL DEF Spec, LockSpec

\* No key is left after a DEL that succeeded (allocator.go:123), under the same
\* conditions: it has as many Releases as the container can have keys.
THEOREM NothingLeaks ==
    ASSUME Reliable, ~RetryAdd
    PROVE  Spec => []NoLeak
<1>1. ASSUME LedgerInv PROVE NoLeak
  BY <1>1 DEF NoLeak, LedgerInv, Account
<1>2. Init => LockInit
  BY DEF Init
<1>3. Serial
  BY DEF Reliable
<1>4. QED
  BY <1>1, <1>2, <1>3, LockRefined, LockTypeCorrect, Exclusion, OwnInvInductive,
     LedgerInvInductive, PTL DEF Spec, LockSpec

\* Check finds the address of a container that runs (handler.go:190), under the same
\* conditions and as long as the store answers.
THEOREM CheckFinds ==
    ASSUME Reliable, ~RetryAdd, ~KVErrors
    PROVE  Spec => []CheckSees
<1>1. ASSUME LedgerInv PROVE CheckSees
  BY <1>1 DEF CheckSees, LedgerInv, Book
<1>2. Init => LockInit
  BY DEF Init
<1>3. Serial
  BY DEF Reliable
<1>4. QED
  BY <1>1, <1>2, <1>3, LockRefined, LockTypeCorrect, Exclusion, OwnInvInductive,
     LedgerInvInductive, PTL DEF Spec, LockSpec

\* A running container has one address of every allocator (handler.go:110-127), under the
\* conditions of GrantsExact: allocators that search one range set never count an address
\* twice, and an ADD that fails half-way is never taken for one that succeeded.
THEOREM OneEach ==
    ASSUME Reliable, ~RetryAdd
    PROVE  Spec => []OnePerAllocator
<1>1. ASSUME LedgerInv PROVE OnePerAllocator
  BY <1>1 DEF OnePerAllocator, LedgerInv, Account
<1>2. Init => LockInit
  BY DEF Init
<1>3. Serial
  BY DEF Reliable
<1>4. QED
  BY <1>1, <1>2, <1>3, LockRefined, LockTypeCorrect, Exclusion, OwnInvInductive,
     LedgerInvInductive, PTL DEF Spec, LockSpec

================================================================================
