----------------------- MODULE RemoteControl_proofs -----------------------
(***************************************************************************)
(* What rc-api and rc-relay together keep, for any number of requests,     *)
(* devices, operators and connections.                                     *)
(***************************************************************************)
EXTENDS RemoteControl, TLAPS

-----------------------------------------------------------------------------
(* Type correctness, one service at a time.                                *)

LEMMA StartTypes ==
  ASSUME TypeOK, NEW s \in Sids, StartStep(s) \/ Abort(s), UNCHANGED relayVars
  PROVE  TypeOK'
<1> USE SidsAssumption DEF TypeOK, SessionsTypeOK, RelayTypeOK, StoreTypeOK, relayVars,
        Step, InFlight, Holding, Answered, RowStates, storeVars
<1>1. CASE Acquire(s) BY <1>1 DEF Acquire
<1>2. CASE Occupied(s) BY <1>2 DEF Occupied
<1>3. CASE Check(s) BY <1>3 DEF Check
<1>4. CASE Insert(s) BY <1>4 DEF Insert
<1>5. CASE Probe(s) BY <1>5 DEF Probe
<1>6. CASE Place(s) BY <1>6 DEF Place, UpdateRow, AnyRow
<1>7. CASE HSet(s) BY <1>7 DEF HSet
<1>8. CASE Expire(s) BY <1>8 DEF Expire
<1>9. CASE Publish(s) BY <1>9 DEF Publish
<1>10. CASE Catch(s) BY <1>10 DEF Catch, DelLock
<1>11. CASE FailRow(s) BY <1>11 DEF FailRow, UpdateRow, AnyRow
<1>12. CASE FailDel(s) BY <1>12 DEF FailDel, DelLock
<1>13. CASE Lookup(s) BY <1>13 DEF Lookup
<1>14. CASE Verify(s) BY <1>14 DEF Verify, Mine
<1>15. CASE Abort(s) BY <1>15 DEF Abort
<1>16. QED
  BY <1>1, <1>2, <1>3, <1>4, <1>5, <1>6, <1>7, <1>8, <1>9, <1>10, <1>11, <1>12,
     <1>13, <1>14, <1>15 DEF StartStep

LEMMA CloseTypes ==
  ASSUME TypeOK, NEW s \in Sids, CloseStep(s), UNCHANGED relayVars
  PROVE  TypeOK'
<1> USE SidsAssumption DEF TypeOK, SessionsTypeOK, RelayTypeOK, StoreTypeOK, relayVars,
        InFlight, Holding, Answered, RowStates, storeVars
<1>1. CASE CloseSelect(s) BY <1>1 DEF CloseSelect
<1>2. CASE CloseUpdate(s) BY <1>2 DEF CloseUpdate, UpdateRow, AnyRow
<1>3. CASE CloseDel(s) BY <1>3 DEF CloseDel, DelLock
<1>4. CASE CloseAbort(s) BY <1>4 DEF CloseAbort
<1>5. QED BY <1>1, <1>2, <1>3, <1>4 DEF CloseStep

LEMMA RemoveTypes ==
  ASSUME TypeOK, NEW d \in Devices, RemoveStep(d), UNCHANGED relayVars
  PROVE  TypeOK'
<1> USE SidsAssumption DEF TypeOK, SessionsTypeOK, RelayTypeOK, StoreTypeOK, relayVars,
        InFlight, Holding, Answered, RowStates, storeVars
<1>1. CASE RemoveRead(d) BY <1>1 DEF RemoveRead
<1>2. CASE RemoveDel(d) BY <1>2 DEF RemoveDel, DelLock
<1>3. CASE RemoveRows(d) BY <1>3 DEF RemoveRows
<1>4. CASE RemoveDevice(d) BY <1>4 DEF RemoveDevice
<1>5. CASE RemoveAbort(d) BY <1>5 DEF RemoveAbort
<1>6. CASE EnsureDevice(d) BY <1>6 DEF EnsureDevice, apiVars
<1>7. QED BY <1>1, <1>2, <1>3, <1>4, <1>5, <1>6 DEF RemoveStep

LEMMA ExpiryTypes ==
  ASSUME TypeOK, Expiry, UNCHANGED relayVars
  PROVE  TypeOK'
<1> USE SidsAssumption DEF TypeOK, SessionsTypeOK, RelayTypeOK, StoreTypeOK, relayVars,
        apiVars, InFlight, Holding, Answered, RowStates
<1>1. CASE \E d \in Devices : LockExpires(d) BY <1>1 DEF LockExpires, DelLock
<1>2. CASE \E s \in Sids : HashExpires(s) BY <1>2 DEF HashExpires
<1>3. CASE \E s \in Sids : AgentTokenExpires(s) BY <1>3 DEF AgentTokenExpires
<1>4. CASE \E s \in Sids : ViewerTokenExpires(s) BY <1>4 DEF ViewerTokenExpires
<1>5. QED BY <1>1, <1>2, <1>3, <1>4 DEF Expiry

LEMMA CloseSessionTypes ==
  ASSUME TypeOK, NEW o \in Conns, NEW D, CloseSession(o, D), UNCHANGED apiVars
  PROVE  TypeOK'
<1> DEFINE s == SidOf[o]
<1>1. s \in Sids
  BY ConnsAssumption
<1>2. SessionsTypeOK'
  BY DEF CloseSession, storeVars, apiVars, TypeOK, SessionsTypeOK, StoreTypeOK
<1>3. RelayTypeOK'
  <2>1. sessions' \in [Sids -> Conns \union {None}]
        /\ \A r \in Sids : sessions'[r] # None => SidOf[sessions'[r]] = r
    BY <1>1 DEF CloseSession, TypeOK, RelayTypeOK
  <2>2. writes' \in [Sids -> SUBSET {"active", "closed", "del"}]
    BY <1>1 DEF CloseSession, TypeOK, RelayTypeOK
  <2>3. sock' \in [Conns -> {"unused", "pending", "gone", "open", "closing", "closed"}]
        /\ \A k \in Conns : sock'[k] \in {"open", "closing"} =>
             sock[k] \in {"open", "closing"}
    BY DEF CloseSession, TypeOK, RelayTypeOK
  <2>4. QED
    BY <2>1, <2>2, <2>3 DEF CloseSession, TypeOK, RelayTypeOK
<1>4. QED BY <1>2, <1>3 DEF TypeOK

LEMMA RelayTypes ==
  ASSUME TypeOK, RelayNext, UNCHANGED apiVars
  PROVE  TypeOK'
<1> USE SidsAssumption, ConnsAssumption
        DEF TypeOK, SessionsTypeOK, RelayTypeOK, StoreTypeOK, apiVars, storeVars
<1>1. ASSUME NEW k \in Conns, AgentConnect(k) PROVE TypeOK'
  BY <1>1 DEF AgentConnect
<1>2. ASSUME NEW k \in Conns, AgentRefused(k) PROVE TypeOK'
  BY <1>2 DEF AgentRefused
<1>3. ASSUME NEW k \in Conns, PendingDrops(k) PROVE TypeOK'
  BY <1>3 DEF PendingDrops
<1>4. ASSUME NEW k \in Conns, AgentJoin(k) PROVE TypeOK'
  BY <1>4 DEF AgentJoin, GetOrCreate, MarkActive
<1>5. ASSUME NEW k \in Conns, ViewerConnect(k) PROVE TypeOK'
  <2> DEFINE o == GetOrCreate(k)
  <2>1. SidOf[k] \in Sids /\ o \in Conns /\ SidOf[o] = SidOf[k] /\ o # None
    BY DEF GetOrCreate
  <2>2. writes' \in [Sids -> SUBSET {"active", "closed", "del"}]
    BY <1>5, <2>1 DEF ViewerConnect, MarkActive
  <2> HIDE DEF o
  <2>3. /\ sock' = [sock EXCEPT ![k] = "open"] /\ joined' = [joined EXCEPT ![k] = o]
        /\ sessions' = [sessions EXCEPT ![SidOf[k]] = o] /\ timer' = timer \ {o}
        /\ viewer' = [viewer EXCEPT ![o] = k]
    BY <1>5 DEF ViewerConnect, o
  <2>4. /\ \A l \in Conns : sock'[l] = IF l = k THEN "open" ELSE sock[l]
        /\ \A l \in Conns : joined'[l] = IF l = k THEN o ELSE joined[l]
        /\ \A r \in Sids : sessions'[r] = IF r = SidOf[k] THEN o ELSE sessions[r]
    BY <2>3
  <2>5. /\ \A r \in Sids : sessions'[r] # None => SidOf[sessions'[r]] = r
        /\ \A l \in Conns : sock'[l] \in {"open", "closing"} =>
             joined'[l] # None /\ SidOf[joined'[l]] = SidOf[l]
    BY <2>1, <2>4
  <2>6. /\ sock' \in [Conns -> {"unused", "pending", "gone", "open", "closing", "closed"}]
        /\ joined' \in [Conns -> Conns \union {None}] /\ timer' \subseteq Conns
        /\ sessions' \in [Sids -> Conns \union {None}]
        /\ viewer' \in [Conns -> Conns \union {None}]
    BY <2>1, <2>3
  <2>7. QED BY <1>5, <2>2, <2>5, <2>6 DEF ViewerConnect
<1>6. ASSUME NEW k \in Conns, AgentClosed(k) PROVE TypeOK'
  <2>1. CASE agent[joined[k]] = k
    <3>1. joined[k] \in Conns /\ CloseSession(joined[k], {k}) BY <1>6, <2>1 DEF AgentClosed
    <3>2. QED BY <3>1, CloseSessionTypes
  <2>2. CASE agent[joined[k]] # k BY <1>6, <2>2 DEF AgentClosed
  <2>3. QED BY <2>1, <2>2
<1>7. ASSUME NEW k \in Conns, ViewerClosed(k) PROVE TypeOK'
  BY <1>7 DEF ViewerClosed
<1>8. ASSUME NEW o \in Conns, ViewerGone(o) \/ Idle(o) PROVE TypeOK'
  <2>1. CloseSession(o, {}) BY <1>8 DEF ViewerGone, Idle
  <2>2. QED BY <2>1, CloseSessionTypes
<1>9. ASSUME NEW s \in Sids, RelayWrite(s) PROVE TypeOK'
  <2>1. CASE RelayUpdate(s) BY <2>1 DEF RelayUpdate, UpdateRow, RowStates
  <2>2. CASE RelayDel(s)
    <3>1. DeviceOf[s] \in Devices
      OBVIOUS
    <3>2. QED BY <2>2, <3>1 DEF RelayDel, DelLock
  <2>3. QED BY <1>9, <2>1, <2>2 DEF RelayWrite
<1>10. ASSUME Crash PROVE TypeOK'
  BY <1>10 DEF Crash
<1>11. QED
  BY <1>1, <1>2, <1>3, <1>4, <1>5, <1>6, <1>7, <1>8, <1>9, <1>10 DEF RelayNext

\* Every variable of the two services and of the store they share stays
\* within its type: what each handler has read is there when it is used.
THEOREM TypeCorrect == Spec => []TypeOK
<1>1. Init => TypeOK
  BY SidsAssumption, ConnsAssumption
  DEF Init, SessionsInit, StoreInit, RelayInit, TypeOK, SessionsTypeOK, RelayTypeOK,
      StoreTypeOK, RowStates, InFlight, Holding, Answered
<1>2. TypeOK /\ [Next]_vars => TypeOK'
  <2> SUFFICES ASSUME TypeOK, [Next]_vars PROVE TypeOK'
    OBVIOUS
  <2>1. CASE SessionsNext /\ UNCHANGED relayVars
    BY <2>1, BoundsAssumption, StartTypes, CloseTypes, RemoveTypes, ExpiryTypes
    DEF SessionsNext
  <2>2. CASE RelayNext /\ UNCHANGED apiVars
    BY <2>2, RelayTypes
  <2>3. CASE UNCHANGED vars
    BY <2>3 DEF vars, storeVars, apiVars, relayVars, TypeOK, SessionsTypeOK, RelayTypeOK,
       StoreTypeOK
  <2>4. QED BY <2>1, <2>2, <2>3 DEF Next
<1>3. QED BY <1>1, <1>2, PTL DEF Spec

-----------------------------------------------------------------------------
(* The lock.  Of a step only three things matter: what it does to `lock'   *)
(* and `lost', and which requests it moves into or out of Holding.         *)

LockInv == HeldUnlessLost /\ LostWasHeld

LEMMA LockTypes ==
  ASSUME TypeOK
  PROVE  /\ lock \in [Devices -> Sids \union {None}]
         /\ lost \subseteq Sids
         /\ DOMAIN pc = Sids
BY DEF TypeOK, SessionsTypeOK, StoreTypeOK

\* A step that leaves the lock alone and moves requests only within Holding
\* or outside of it.
LEMMA LockUntouched ==
  ASSUME TypeOK, LockInv, UNCHANGED <<lock, lost>>,
         \A s \in Sids : pc'[s] = pc[s] \/ {pc[s], pc'[s]} \subseteq Holding
                        \/ {pc[s], pc'[s]} \intersect (Holding \union {"rejected"}) = {}
  PROVE  LockInv'
<1>1. \A s \in Sids : pc'[s] \in Holding <=> pc[s] \in Holding
  OBVIOUS
<1>2. HeldUnlessLost'
  BY <1>1, LockTypes DEF LockInv, HeldUnlessLost
<1>3. LostWasHeld'
  BY LockTypes DEF LockInv, LostWasHeld
<1>4. QED BY <1>2, <1>3 DEF LockInv

\* A DEL on behalf of a session that gives up its own lock.
LEMMA OwnDelete ==
  ASSUME TypeOK, LockInv, NEW s \in Sids, DelLock(DeviceOf[s], s),
         pc[s] \in Holding, pc' = [pc EXCEPT ![s] = "rejected"]
  PROVE  LockInv'
<1> DEFINE d == DeviceOf[s]
<1>1. d \in Devices /\ s # None
  BY SidsAssumption
<1>2. \A e \in Devices : lock'[e] = IF e = d THEN None ELSE lock[e]
  BY LockTypes DEF DelLock
<1>3. \A r \in Sids : pc'[r] = IF r = s THEN "rejected" ELSE pc[r]
  BY LockTypes
<1>4. "rejected" \notin Holding
  BY DEF Holding, InFlight
<1>5. \A r \in Sids : r \in lost' <=> r \in lost \/ (lock[d] = r /\ r # s)
  BY <1>1, SidsAssumption DEF DelLock
<1>6. HeldUnlessLost'
  <2>1. ASSUME NEW r \in Sids, pc'[r] \in Holding, r \notin lost'
        PROVE  lock'[DeviceOf[r]] = r
    <3>1. r # s /\ pc[r] \in Holding /\ r \notin lost /\ lock[d] # r
      BY <2>1, <1>3, <1>4, <1>5
    <3>2. lock[DeviceOf[r]] = r /\ DeviceOf[r] \in Devices
      BY <3>1, SidsAssumption DEF LockInv, HeldUnlessLost
    <3>3. QED BY <3>1, <3>2, <1>2
  <2>2. ASSUME NEW e \in Devices, lock'[e] # None
        PROVE  /\ DeviceOf[lock'[e]] = e
               /\ pc'[lock'[e]] \in Holding
               /\ lock'[e] \notin lost'
    <3>1. e # d /\ lock'[e] = lock[e] /\ lock[e] \in Sids
      BY <2>2, <1>2, LockTypes
    <3>2. DeviceOf[lock[e]] = e /\ pc[lock[e]] \in Holding /\ lock[e] \notin lost
      BY <3>1, <2>2 DEF LockInv, HeldUnlessLost
    <3>3. lock[e] # s /\ lock[e] # lock[d]
      <4>1. lock[d] # None => DeviceOf[lock[d]] = d
        BY <1>1 DEF LockInv, HeldUnlessLost
      <4>2. QED BY <4>1, <3>1, <3>2, <2>2
    <3>4. QED BY <3>1, <3>2, <3>3, <1>3, <1>5
  <2>3. QED BY <2>1, <2>2 DEF HeldUnlessLost
<1>7. LostWasHeld'
  <2> SUFFICES ASSUME NEW r \in lost' PROVE pc'[r] \in Holding \union {"rejected"}
    BY DEF LostWasHeld
  <2>1. r \in Sids
    BY LockTypes, <1>1 DEF DelLock
  <2>2. CASE r \in lost
    BY <2>1, <2>2, <1>3 DEF LockInv, LostWasHeld
  <2>3. CASE r \notin lost
    <3>1. lock[d] = r /\ r # s /\ r # None
      BY <2>1, <2>3, <1>5, SidsAssumption
    <3>2. pc[r] \in Holding
      BY <3>1, <1>1 DEF LockInv, HeldUnlessLost
    <3>3. QED BY <3>1, <3>2, <2>1, <1>3
  <2>4. QED BY <2>2, <2>3
<1>8. QED BY <1>6, <1>7 DEF LockInv

\* A DEL by anybody else: close, remove, expiry, or rc-relay.
LEMMA ForeignDelete ==
  ASSUME TypeOK, LockInv, NEW d \in Devices, DelLock(d, None), UNCHANGED pc
  PROVE  LockInv'
<1>1. \A e \in Devices : lock'[e] = IF e = d THEN None ELSE lock[e]
  BY LockTypes DEF DelLock
<1>2. \A r \in Sids : r \in lost' <=> r \in lost \/ lock[d] = r
  BY SidsAssumption DEF DelLock
<1>3. lost' \subseteq Sids
  BY LockTypes DEF DelLock
<1>4. \A r \in Sids : lock[d] = r => pc[r] \in Holding /\ DeviceOf[r] = d
  BY SidsAssumption DEF LockInv, HeldUnlessLost
<1>5. HeldUnlessLost'
  <2>1. ASSUME NEW r \in Sids, pc[r] \in Holding, r \notin lost'
        PROVE  lock'[DeviceOf[r]] = r
    BY <2>1, <1>1, <1>2, SidsAssumption DEF LockInv, HeldUnlessLost
  <2>2. ASSUME NEW e \in Devices, lock'[e] # None
        PROVE  /\ DeviceOf[lock'[e]] = e
               /\ pc[lock'[e]] \in Holding
               /\ lock'[e] \notin lost'
    <3>1. e # d /\ lock'[e] = lock[e] /\ lock[e] \in Sids
      BY <2>2, <1>1, LockTypes
    <3>2. QED BY <2>2, <3>1, <1>2, <1>4 DEF LockInv, HeldUnlessLost
  <2>3. QED BY <2>1, <2>2 DEF HeldUnlessLost
<1>6. LostWasHeld'
  BY <1>2, <1>3, <1>4 DEF LockInv, LostWasHeld
<1>7. QED BY <1>5, <1>6 DEF LockInv

\* The lock of a free device goes to a request that never had it.
LEMMA AcquireTakes ==
  ASSUME TypeOK, LockInv, NEW s \in Sids, Acquire(s)
  PROVE  LockInv'
<1> DEFINE d == DeviceOf[s]
<1>1. /\ d \in Devices /\ s # None /\ lock[d] = None
      /\ pc[s] = "new" /\ lost' = lost
      /\ \A r \in Sids : pc'[r] = IF r = s THEN "check" ELSE pc[r]
      /\ \A e \in Devices : lock'[e] = IF e = d THEN s ELSE lock[e]
  BY SidsAssumption, LockTypes DEF Acquire, Step
<1>2. s \notin lost
  BY <1>1 DEF LockInv, LostWasHeld, Holding, InFlight
<1>3. "check" \in Holding /\ "new" \notin Holding
  BY DEF Holding, InFlight
<1>4. HeldUnlessLost'
  <2>1. ASSUME NEW r \in Sids, pc'[r] \in Holding, r \notin lost'
        PROVE  lock'[DeviceOf[r]] = r
    <3>1. CASE r = s
      BY <3>1, <1>1
    <3>2. CASE r # s
      <4>1. lock[DeviceOf[r]] = r
        BY <2>1, <3>2, <1>1 DEF LockInv, HeldUnlessLost
      <4>2. DeviceOf[r] # d /\ DeviceOf[r] \in Devices
        BY <4>1, <1>1, SidsAssumption
      <4>3. QED BY <4>1, <4>2, <1>1
    <3>3. QED BY <3>1, <3>2
  <2>2. ASSUME NEW e \in Devices, lock'[e] # None
        PROVE  /\ DeviceOf[lock'[e]] = e
               /\ pc'[lock'[e]] \in Holding
               /\ lock'[e] \notin lost'
    <3>1. CASE e = d
      BY <3>1, <1>1, <1>2, <1>3
    <3>2. CASE e # d
      BY <2>2, <3>2, <1>1, <1>3, LockTypes DEF LockInv, HeldUnlessLost
    <3>3. QED BY <3>1, <3>2
  <2>3. QED BY <2>1, <2>2 DEF HeldUnlessLost
<1>5. LostWasHeld'
  BY <1>1, <1>3, LockTypes DEF LockInv, LostWasHeld
<1>6. QED BY <1>4, <1>5 DEF LockInv

LEMMA SessionsKeepLockInv ==
  ASSUME TypeOK, LockInv, SessionsNext
  PROVE  LockInv'
<1> USE LockTypes DEF Step, storeVars, apiVars
<1>1. ASSUME NEW s \in Sids, Acquire(s) PROVE LockInv'
  BY <1>1, AcquireTakes
<1>2. ASSUME NEW s \in Sids,
             Check(s) \/ Insert(s) \/ Probe(s) \/ Place(s) \/ HSet(s) \/ Expire(s)
             \/ Publish(s) \/ FailRow(s) \/ Abort(s)
      PROVE  LockInv'
  <2>1. UNCHANGED <<lock, lost>>
    BY <1>2 DEF Check, Insert, Probe, Place, HSet, Expire, Publish, FailRow, Abort
  <2>2. pc[s] \in Holding /\ \E to \in Holding : pc' = [pc EXCEPT ![s] = to]
    BY <1>2 DEF Check, Insert, Probe, Place, HSet, Expire, Publish, FailRow, Abort,
       Holding, InFlight
  <2>3. QED BY <2>1, <2>2, LockUntouched
<1>3. ASSUME NEW s \in Sids, Occupied(s) \/ Lookup(s) \/ Verify(s) PROVE LockInv'
  <2>1. UNCHANGED <<lock, lost>>
    BY <1>3 DEF Occupied, Lookup, Verify
  <2>2. /\ pc[s] \notin Holding \union {"rejected"}
        /\ \E to : to \notin Holding \union {"rejected"} /\ pc' = [pc EXCEPT ![s] = to]
    BY <1>3 DEF Occupied, Lookup, Verify, Holding, InFlight
  <2>3. QED BY <2>1, <2>2, LockUntouched
<1>4. ASSUME NEW s \in Sids, Catch(s) \/ FailDel(s) PROVE LockInv'
  BY <1>4, OwnDelete DEF Catch, FailDel, Holding, InFlight
<1>5. ASSUME NEW s \in Sids, CloseDel(s) PROVE LockInv'
  BY <1>5, ForeignDelete, SidsAssumption DEF CloseDel
<1>6. ASSUME NEW s \in Sids, CloseSelect(s) \/ CloseUpdate(s) \/ CloseAbort(s)
      PROVE  LockInv'
  BY <1>6, LockUntouched DEF CloseSelect, CloseUpdate, CloseAbort
<1>7. ASSUME NEW d \in Devices, RemoveDel(d) \/ LockExpires(d) PROVE LockInv'
  BY <1>7, ForeignDelete DEF RemoveDel, LockExpires
<1>8. ASSUME NEW d \in Devices,
             RemoveRead(d) \/ RemoveRows(d) \/ RemoveDevice(d) \/ RemoveAbort(d)
             \/ EnsureDevice(d)
      PROVE  LockInv'
  BY <1>8, LockUntouched
  DEF RemoveRead, RemoveRows, RemoveDevice, RemoveAbort, EnsureDevice
<1>9. ASSUME NEW s \in Sids,
             HashExpires(s) \/ AgentTokenExpires(s) \/ ViewerTokenExpires(s)
      PROVE  LockInv'
  BY <1>9, LockUntouched DEF HashExpires, AgentTokenExpires, ViewerTokenExpires
<1>10. QED
  BY <1>1, <1>2, <1>3, <1>4, <1>5, <1>6, <1>7, <1>8, <1>9, BoundsAssumption
  DEF SessionsNext, StartStep, CloseStep, RemoveStep, Expiry

LEMMA RelayKeepsLockInv ==
  ASSUME TypeOK, LockInv, RelayNext, UNCHANGED apiVars
  PROVE  LockInv'
<1>1. UNCHANGED pc
  BY DEF apiVars
<1>2. ASSUME NEW o \in Conns, NEW D, CloseSession(o, D) PROVE LockInv'
  BY <1>1, <1>2, LockUntouched DEF CloseSession, storeVars
<1>3. CASE UNCHANGED <<lock, lost>>
  BY <1>1, <1>3, LockUntouched
<1>4. ASSUME NEW k \in Conns, AgentClosed(k) PROVE LockInv'
  <2>1. joined[k] \in Conns
    BY <1>4 DEF AgentClosed, TypeOK, RelayTypeOK
  <2>2. QED BY <1>2, <1>3, <1>4, <2>1 DEF AgentClosed, storeVars
<1>5. ASSUME NEW o \in Conns, ViewerGone(o) \/ Idle(o) PROVE LockInv'
  BY <1>2, <1>5 DEF ViewerGone, Idle
<1>6. ASSUME NEW k \in Conns,
             AgentConnect(k) \/ AgentRefused(k) \/ PendingDrops(k) \/ AgentJoin(k)
             \/ ViewerConnect(k) \/ ViewerClosed(k)
      PROVE  UNCHANGED <<lock, lost>>
  BY <1>6 DEF AgentConnect, AgentRefused, PendingDrops, AgentJoin, ViewerConnect,
     ViewerClosed, storeVars
<1>7. ASSUME Crash \/ \E s \in Sids : RelayUpdate(s) PROVE UNCHANGED <<lock, lost>>
  BY <1>7 DEF Crash, RelayUpdate, storeVars
<1>8. ASSUME NEW s \in Sids, RelayDel(s) PROVE LockInv'
  BY <1>1, <1>8, ForeignDelete, SidsAssumption DEF RelayDel
<1>9. QED BY <1>3, <1>4, <1>5, <1>6, <1>7, <1>8 DEF RelayNext, RelayWrite

\* A request that has taken its device's lock holds it until it gives it back
\* or somebody else deletes it, whatever the two services do meanwhile.
THEOREM LockIsAccountedFor == Spec => []HeldUnlessLost
<1>1. Init => LockInv
  BY DEF Init, SessionsInit, StoreInit, LockInv, HeldUnlessLost, LostWasHeld,
     Holding, InFlight
<1>2. TypeOK /\ LockInv /\ [Next]_vars => LockInv'
  <2> SUFFICES ASSUME TypeOK, LockInv, [Next]_vars PROVE LockInv'
    OBVIOUS
  <2>1. CASE SessionsNext BY <2>1, SessionsKeepLockInv
  <2>2. CASE RelayNext /\ UNCHANGED apiVars BY <2>2, RelayKeepsLockInv
  <2>3. CASE UNCHANGED vars
    BY <2>3, LockUntouched DEF vars, storeVars, apiVars
  <2>4. QED BY <2>1, <2>2, <2>3 DEF Next
<1>3. LockInv => HeldUnlessLost
  BY DEF LockInv
<1>4. QED BY <1>1, <1>2, <1>3, TypeCorrect, PTL DEF Spec

-----------------------------------------------------------------------------
(* What follows from it.                                                   *)

\* Two sessions of one device are never both under way with locks intact.
THEOREM LockExcludes == Spec => []Exclusive
<1>1. HeldUnlessLost => Exclusive
  BY DEF HeldUnlessLost, Exclusive
<1>2. QED BY <1>1, LockIsAccountedFor, PTL

\* A start that has reported its failure is not in the way of the next one.
THEOREM RejectionReleases == Spec => []RejectedFreesDevice
<1>1. HeldUnlessLost => RejectedFreesDevice
  BY SidsAssumption DEF HeldUnlessLost, RejectedFreesDevice, Holding, InFlight
<1>2. QED BY <1>1, LockIsAccountedFor, PTL

\* A step moves at most one request, and to "rejected" only by the two DELs.
LEMMA RejectedBy ==
  ASSUME TypeOK, Next, NEW s \in Sids, pc[s] # "rejected", pc'[s] = "rejected"
  PROVE  Catch(s) \/ FailDel(s)
<1> USE LockTypes DEF Step, apiVars
<1>1. CASE RelayNext /\ UNCHANGED apiVars
  BY <1>1
<1>2. CASE SessionsNext
  <2>1. ASSUME NEW r \in Sids, StartStep(r) \/ Abort(r) PROVE Catch(s) \/ FailDel(s)
    <3>1. CASE Catch(r) \/ FailDel(r)
      BY <3>1 DEF Catch, FailDel
    <3>2. CASE ~(Catch(r) \/ FailDel(r))
      <4>1. \E to : to # "rejected" /\ pc' = [pc EXCEPT ![r] = to]
        BY <2>1, <3>2 DEF StartStep, Abort, Acquire, Occupied, Check, Insert, Probe,
           Place, HSet, Expire, Publish, FailRow, Lookup, Verify
      <4>2. QED BY <4>1
    <3>3. QED BY <3>1, <3>2
  <2>2. ASSUME NEW r \in Sids, CloseStep(r) PROVE UNCHANGED pc
    BY <2>2 DEF CloseStep, CloseSelect, CloseUpdate, CloseDel, CloseAbort
  <2>3. ASSUME NEW d \in Devices, RemoveStep(d) PROVE UNCHANGED pc
    BY <2>3 DEF RemoveStep, RemoveRead, RemoveDel, RemoveRows, RemoveDevice,
       RemoveAbort, EnsureDevice
  <2>4. ASSUME Expiry PROVE UNCHANGED pc
    BY <2>4 DEF Expiry, LockExpires, HashExpires, AgentTokenExpires, ViewerTokenExpires
  <2>5. QED BY <1>2, <2>1, <2>2, <2>3, <2>4, BoundsAssumption DEF SessionsNext
<1>3. QED BY <1>1, <1>2 DEF Next

\* A failing start deletes another session's lock only if its own was deleted
\* before: start and fail alone do no harm.
THEOREM OnlyTheRobbedRob == Spec => StealsAreChained
<1> DEFINE Chained ==
      \A s \in Sids :
        pc[s] \in {"catch", "failDel"} /\ pc'[s] = "rejected" /\ lost' # lost
          => s \in lost
<1>1. TypeOK /\ HeldUnlessLost /\ [Next]_vars => [Chained]_sessionsVars
  <2> SUFFICES ASSUME TypeOK, HeldUnlessLost, Next, NEW s \in Sids,
                      pc[s] \in {"catch", "failDel"}, pc'[s] = "rejected", lost' # lost
               PROVE  s \in lost
    BY DEF vars, sessionsVars, storeVars, apiVars
  <2>1. DelLock(DeviceOf[s], s)
    BY RejectedBy DEF Catch, FailDel
  <2>2. lock[DeviceOf[s]] # s
    BY <2>1, LockTypes DEF DelLock
  <2>3. QED BY <2>2 DEF HeldUnlessLost, Holding, InFlight
<1>2. QED
  BY <1>1, TypeCorrect, LockIsAccountedFor, PTL DEF Spec, StealsAreChained

-----------------------------------------------------------------------------
(* Refinement: the lock is a lease (SessionLease).                         *)

Taken == {s \in Sids : pc[s] \in Holding \union {"rejected"}}

Released(d) == lock' = [lock EXCEPT ![d] = None] /\ UNCHANGED Taken

\* A step grants the lock to a request, deletes it, or leaves it alone.
LEMMA SessionsLockSteps ==
  ASSUME TypeOK, SessionsNext
  PROVE  \/ \E s \in Sids : Acquire(s)
         \/ \E d \in Devices : Released(d)
         \/ UNCHANGED <<lock, Taken>>
<1> USE LockTypes DEF Step, storeVars, apiVars, Taken
<1>1. ASSUME NEW s \in Sids,
             Check(s) \/ Insert(s) \/ Probe(s) \/ Place(s) \/ HSet(s) \/ Expire(s)
             \/ Publish(s) \/ FailRow(s) \/ Abort(s)
      PROVE  UNCHANGED <<lock, Taken>>
  <2>1. UNCHANGED lock
    BY <1>1 DEF Check, Insert, Probe, Place, HSet, Expire, Publish, FailRow, Abort
  <2>2. pc[s] \in Holding /\ \E to \in Holding : pc' = [pc EXCEPT ![s] = to]
    BY <1>1 DEF Check, Insert, Probe, Place, HSet, Expire, Publish, FailRow, Abort,
       Holding, InFlight
  <2>3. QED BY <2>1, <2>2
<1>2. ASSUME NEW s \in Sids, Occupied(s) \/ Lookup(s) \/ Verify(s)
      PROVE  UNCHANGED <<lock, Taken>>
  <2>1. UNCHANGED lock
    BY <1>2 DEF Occupied, Lookup, Verify
  <2>2. /\ pc[s] \notin Holding \union {"rejected"}
        /\ \E to : to \notin Holding \union {"rejected"} /\ pc' = [pc EXCEPT ![s] = to]
    BY <1>2 DEF Occupied, Lookup, Verify, Holding, InFlight
  <2>3. QED BY <2>1, <2>2
<1>3. ASSUME NEW s \in Sids, Catch(s) \/ FailDel(s) PROVE Released(DeviceOf[s])
  BY <1>3 DEF Catch, FailDel, DelLock, Released, Holding, InFlight
<1>4. ASSUME NEW s \in Sids, CloseDel(s) PROVE Released(DeviceOf[s])
  BY <1>4 DEF CloseDel, DelLock, Released
<1>5. ASSUME NEW s \in Sids, CloseSelect(s) \/ CloseUpdate(s) \/ CloseAbort(s)
      PROVE  UNCHANGED <<lock, Taken>>
  BY <1>5 DEF CloseSelect, CloseUpdate, CloseAbort
<1>6. ASSUME NEW d \in Devices, RemoveDel(d) \/ LockExpires(d) PROVE Released(d)
  BY <1>6 DEF RemoveDel, LockExpires, DelLock, Released
<1>7. ASSUME NEW d \in Devices,
             RemoveRead(d) \/ RemoveRows(d) \/ RemoveDevice(d) \/ RemoveAbort(d)
             \/ EnsureDevice(d)
      PROVE  UNCHANGED <<lock, Taken>>
  BY <1>7 DEF RemoveRead, RemoveRows, RemoveDevice, RemoveAbort, EnsureDevice
<1>8. ASSUME NEW s \in Sids,
             HashExpires(s) \/ AgentTokenExpires(s) \/ ViewerTokenExpires(s)
      PROVE  UNCHANGED <<lock, Taken>>
  BY <1>8 DEF HashExpires, AgentTokenExpires, ViewerTokenExpires
<1>9. \A s \in Sids : DeviceOf[s] \in Devices
  BY SidsAssumption
<1>10. QED
  BY <1>1, <1>2, <1>3, <1>4, <1>5, <1>6, <1>7, <1>8, <1>9, BoundsAssumption
  DEF SessionsNext, StartStep, CloseStep, RemoveStep, Expiry

LEMMA RelayLockSteps ==
  ASSUME TypeOK, RelayNext, UNCHANGED apiVars
  PROVE  (\E d \in Devices : Released(d)) \/ UNCHANGED <<lock, Taken>>
<1>1. UNCHANGED Taken
  BY DEF apiVars, Taken
<1>2. ASSUME NEW k \in Conns,
             AgentConnect(k) \/ AgentRefused(k) \/ PendingDrops(k) \/ AgentJoin(k)
             \/ ViewerConnect(k) \/ ViewerClosed(k)
      PROVE  UNCHANGED lock
  BY <1>2 DEF AgentConnect, AgentRefused, PendingDrops, AgentJoin, ViewerConnect,
     ViewerClosed, storeVars
<1>3. ASSUME NEW k \in Conns, AgentClosed(k) \/ ViewerGone(k) \/ Idle(k)
      PROVE  UNCHANGED lock
  BY <1>3 DEF AgentClosed, ViewerGone, Idle, CloseSession, storeVars
<1>4. ASSUME Crash \/ \E s \in Sids : RelayUpdate(s) PROVE UNCHANGED lock
  BY <1>4 DEF Crash, RelayUpdate, storeVars
<1>5. ASSUME NEW s \in Sids, RelayDel(s) PROVE \E d \in Devices : Released(d)
  <2>1. DeviceOf[s] \in Devices
    BY SidsAssumption
  <2>2. Released(DeviceOf[s])
    BY <1>1, <1>5 DEF RelayDel, DelLock, Released
  <2>3. QED BY <2>1, <2>2
<1>6. QED BY <1>1, <1>2, <1>3, <1>4, <1>5 DEF RelayNext, RelayWrite

\* The lock, as the two services use it, implements the lease: granted only
\* when free, to a session that never had it, and never handed on directly.
THEOREM LockIsLease == Spec => LeaseSpec
<1> USE DEF Lease!leaseVars
<1>1. Init => Lease!Init
  BY DEF Init, SessionsInit, StoreInit, Lease!Init, Holding, InFlight
<1>2. TypeOK /\ [Next]_vars => [Lease!Next]_(Lease!leaseVars)
  <2> SUFFICES ASSUME TypeOK, [Next]_vars PROVE [Lease!Next]_(Lease!leaseVars)
    OBVIOUS
  <2>1. ASSUME NEW s \in Sids, Acquire(s) PROVE Lease!Grant(s)
    <3>1. s \notin Taken /\ Taken' = Taken \union {s}
      BY <2>1, LockTypes DEF Acquire, Step, Taken, Holding, InFlight
    <3>2. QED BY <2>1, <3>1 DEF Acquire, Taken, Lease!Grant
  <2>2. ASSUME NEW d \in Devices, Released(d) PROVE Lease!End(d) \/ UNCHANGED <<lock, Taken>>
    BY <2>2, LockTypes DEF Released, Taken, Lease!End
  <2>3. CASE SessionsNext
    BY <2>1, <2>2, <2>3, SessionsLockSteps DEF Lease!Next, Taken
  <2>4. CASE RelayNext /\ UNCHANGED apiVars
    BY <2>2, <2>4, RelayLockSteps DEF Lease!Next, Taken
  <2>5. CASE UNCHANGED vars
    BY <2>5 DEF vars, storeVars, apiVars
  <2>6. QED BY <2>3, <2>4, <2>5 DEF Next
<1>3. QED
  BY <1>1, <1>2, TypeCorrect, PTL DEF Spec, LeaseSpec, Lease!Spec

-----------------------------------------------------------------------------
(* Sockets: the agent's token and the viewer's grace period.               *)

Unpublished == {"new", "check", "insert", "probe", "place", "hset", "expire", "publish"}

TokenInv ==
  /\ SingleAgent
  /\ \A k \in Conns : Admitted(k) => agentTok[SidOf[k]] = "used"
  /\ \A s \in Sids : pc[s] \in Unpublished => agentTok[s] = "none"

\* Nobody new is admitted, no used token changes, none is issued early.
LEMMA NobodyAdmitted ==
  ASSUME TokenInv,
         \A k \in Conns : Admitted(k)' => Admitted(k),
         \A s \in Sids : agentTok[s] = "used" => agentTok'[s] = "used",
         \A s \in Sids : pc'[s] \in Unpublished =>
           pc[s] \in Unpublished /\ agentTok'[s] = agentTok[s]
  PROVE  TokenInv'
BY ConnsAssumption DEF TokenInv, SingleAgent

LEMMA SessionsKeepTokenInv ==
  ASSUME TypeOK, TokenInv, SessionsNext, UNCHANGED relayVars
  PROVE  TokenInv'
<1> DEFINE Early == \A s \in Sids : pc'[s] \in Unpublished =>
                      pc[s] \in Unpublished /\ agentTok'[s] = agentTok[s]
           Stays == \A s \in Sids : agentTok[s] = "used" => agentTok'[s] = "used"
<1>1. \A k \in Conns : Admitted(k)' => Admitted(k)
  BY DEF relayVars, Admitted
<1>2. DOMAIN pc = Sids /\ DOMAIN agentTok = Sids
  BY DEF TypeOK, SessionsTypeOK, StoreTypeOK
<1>3. ASSUME NEW s \in Sids, StartStep(s) \/ Abort(s) PROVE Early /\ Stays
  <2>1. CASE Publish(s)
    BY <1>2, <2>1 DEF Publish, Step, TokenInv, Unpublished
  <2>2. CASE ~Publish(s)
    <3>1. UNCHANGED agentTok
      BY <1>3, <2>2 DEF StartStep, Abort, Acquire, Occupied, Check, Insert, Probe,
         Place, HSet, Expire, Catch, FailRow, FailDel, Lookup, Verify, storeVars
    <3>2. \E to : /\ to \in Unpublished => pc[s] \in Unpublished
                  /\ pc' = [pc EXCEPT ![s] = to]
      BY <1>3, <2>2 DEF StartStep, Abort, Acquire, Occupied, Check, Insert, Probe,
         Place, HSet, Expire, Catch, FailRow, FailDel, Lookup, Verify, Step, Unpublished
    <3>3. QED BY <1>2, <3>1, <3>2
  <2>3. QED BY <2>1, <2>2
<1>4. ASSUME NEW s \in Sids, CloseStep(s) PROVE UNCHANGED <<pc, agentTok>>
  BY <1>4 DEF CloseStep, CloseSelect, CloseUpdate, CloseDel, CloseAbort, storeVars
<1>5. ASSUME NEW d \in Devices, RemoveStep(d) PROVE UNCHANGED <<pc, agentTok>>
  BY <1>5 DEF RemoveStep, RemoveRead, RemoveDel, RemoveRows, RemoveDevice,
     RemoveAbort, EnsureDevice, storeVars, apiVars
<1>6. ASSUME NEW s \in Sids, AgentTokenExpires(s) PROVE Early /\ Stays
  BY <1>2, <1>6 DEF AgentTokenExpires, apiVars, Unpublished, InFlight
<1>7. ASSUME (\E d \in Devices : LockExpires(d))
             \/ (\E s \in Sids : HashExpires(s) \/ ViewerTokenExpires(s))
      PROVE  UNCHANGED <<pc, agentTok>>
  BY <1>7 DEF LockExpires, HashExpires, ViewerTokenExpires, apiVars
<1>8. Early /\ Stays
  BY <1>3, <1>4, <1>5, <1>6, <1>7, BoundsAssumption DEF SessionsNext, Expiry
<1>9. QED BY <1>1, <1>8, NobodyAdmitted

LEMMA RelayKeepsTokenInv ==
  ASSUME TypeOK, TokenInv, RelayNext, UNCHANGED apiVars
  PROVE  TokenInv'
<1>1. UNCHANGED pc
  BY DEF apiVars
<1>2. /\ DOMAIN agentTok = Sids
      /\ sock \in [Conns -> {"unused", "pending", "gone", "open", "closing", "closed"}]
      /\ joined \in [Conns -> Conns \union {None}]
  BY DEF TypeOK, SessionsTypeOK, StoreTypeOK, RelayTypeOK
<1>3. ASSUME \A k \in Conns : Admitted(k)' => Admitted(k), UNCHANGED agentTok
      PROVE  TokenInv'
  BY <1>1, <1>3, NobodyAdmitted
<1>4. ASSUME NEW k \in Conns, AgentConnect(k) PROVE TokenInv'
  <2>1. /\ agentTok[SidOf[k]] = "issued" /\ SidOf[k] \in Sids
        /\ \A s \in Sids : agentTok'[s] = IF s = SidOf[k] THEN "used" ELSE agentTok[s]
        /\ \A l \in Conns : Admitted(l)' => Admitted(l) \/ l = k
    BY <1>2, <1>4, ConnsAssumption DEF AgentConnect, Admitted
  <2>2. \A l \in Conns : Admitted(l) => SidOf[l] # SidOf[k]
    BY <2>1 DEF TokenInv
  <2>3. SingleAgent'
    BY <2>1, <2>2 DEF TokenInv, SingleAgent
  <2>4. QED BY <1>1, <2>1, <2>3, ConnsAssumption DEF TokenInv
<1>5. ASSUME NEW k \in Conns, AgentRefused(k) \/ PendingDrops(k) \/ AgentJoin(k)
      PROVE  TokenInv'
  <2>1. UNCHANGED agentTok
    BY <1>5 DEF AgentRefused, PendingDrops, AgentJoin, storeVars
  <2>2. \A l \in Conns : Admitted(l)' => Admitted(l)
    BY <1>2, <1>5 DEF AgentRefused, PendingDrops, AgentJoin, Admitted
  <2>3. QED BY <1>3, <2>1, <2>2
<1>6. ASSUME NEW k \in Conns, ViewerConnect(k) \/ ViewerClosed(k) PROVE TokenInv'
  <2>1. UNCHANGED agentTok
    BY <1>6 DEF ViewerConnect, ViewerClosed, storeVars
  <2>2. \A l \in Conns : Admitted(l)' => Admitted(l)
    BY <1>2, <1>6 DEF ViewerConnect, ViewerClosed, Admitted
  <2>3. QED BY <1>3, <2>1, <2>2
<1>7. ASSUME NEW o, NEW D, CloseSession(o, D) PROVE TokenInv'
  <2>1. \A l \in Conns : Admitted(l)' => Admitted(l)
    BY <1>2, <1>7 DEF CloseSession, Admitted
  <2>2. QED BY <1>3, <1>7, <2>1 DEF CloseSession, storeVars
<1>8. ASSUME NEW k \in Conns, AgentClosed(k) PROVE TokenInv'
  <2>1. CASE agent[joined[k]] = k
    BY <1>7, <1>8, <2>1 DEF AgentClosed
  <2>2. CASE agent[joined[k]] # k
    <3>1. UNCHANGED agentTok /\ \A l \in Conns : Admitted(l)' => Admitted(l)
      BY <1>2, <1>8, <2>2 DEF AgentClosed, Admitted, storeVars
    <3>2. QED BY <1>3, <3>1
  <2>3. QED BY <2>1, <2>2
<1>9. ASSUME NEW o \in Conns, ViewerGone(o) \/ Idle(o) PROVE TokenInv'
  BY <1>7, <1>9 DEF ViewerGone, Idle
<1>10. ASSUME Crash \/ \E s \in Sids : RelayWrite(s) PROVE TokenInv'
  <2>1. UNCHANGED agentTok /\ \A l \in Conns : Admitted(l)' => Admitted(l)
    BY <1>2, <1>10 DEF Crash, RelayWrite, RelayUpdate, RelayDel, Admitted, storeVars
  <2>2. QED BY <1>3, <2>1
<1>11. QED
  BY <1>4, <1>5, <1>6, <1>8, <1>9, <1>10 DEF RelayNext

\* Who is admitted has used the token, and no token is out before publish.
THEOREM TokenIsAccountedFor == Spec => []TokenInv
<1>1. Init => TokenInv
  BY ConnsAssumption
  DEF Init, SessionsInit, StoreInit, RelayInit, TokenInv, SingleAgent, Admitted, Unpublished
<1>2. TypeOK /\ TokenInv /\ [Next]_vars => TokenInv'
  <2> SUFFICES ASSUME TypeOK, TokenInv, [Next]_vars PROVE TokenInv'
    OBVIOUS
  <2>1. CASE SessionsNext /\ UNCHANGED relayVars BY <2>1, SessionsKeepTokenInv
  <2>2. CASE RelayNext /\ UNCHANGED apiVars BY <2>2, RelayKeepsTokenInv
  <2>3. CASE UNCHANGED vars
    BY <2>3, NobodyAdmitted DEF vars, storeVars, apiVars, relayVars, Admitted
  <2>4. QED BY <2>1, <2>2, <2>3 DEF Next
<1>3. QED BY <1>1, <1>2, TypeCorrect, PTL DEF Spec

\* One socket at most is ever admitted with the token of a session's agent.
THEOREM TokenIsSingleUse == Spec => []SingleAgent
<1>1. TokenInv => SingleAgent
  BY DEF TokenInv
<1>2. QED BY <1>1, TokenIsAccountedFor, PTL

\* While a viewer is attached to a RelaySession its viewerGoneTimer is not armed.
TimerOfNobody == \A o \in timer : viewer[o] = None

LEMMA TimerIsOfNobody == Spec => []TimerOfNobody
<1>1. Init => TimerOfNobody
  BY DEF Init, RelayInit, TimerOfNobody
<1>2. TypeOK /\ TimerOfNobody /\ [Next]_vars => TimerOfNobody'
  <2> SUFFICES ASSUME TypeOK, TimerOfNobody, [Next]_vars PROVE TimerOfNobody'
    OBVIOUS
  <2> USE DEF TimerOfNobody
  <2>1. timer \subseteq Conns /\ DOMAIN viewer = Conns
    BY DEF TypeOK, RelayTypeOK
  <2>2. CASE UNCHANGED <<timer, viewer>>
    BY <2>2
  <2>3. ASSUME NEW o, NEW D, CloseSession(o, D) PROVE TimerOfNobody'
    BY <2>3 DEF CloseSession
  <2>4. ASSUME NEW k \in Conns, ViewerConnect(k) PROVE TimerOfNobody'
    BY <2>1, <2>4 DEF ViewerConnect
  <2>5. ASSUME NEW k \in Conns, ViewerClosed(k) PROVE TimerOfNobody'
    <3>1. joined[k] \in Conns
      BY <2>5 DEF ViewerClosed, TypeOK, RelayTypeOK
    <3>2. QED BY <2>1, <2>5, <3>1 DEF ViewerClosed
  <2>6. ASSUME NEW k \in Conns,
               AgentConnect(k) \/ AgentRefused(k) \/ PendingDrops(k) \/ AgentJoin(k)
        PROVE  TimerOfNobody'
    BY <2>2, <2>6 DEF AgentConnect, AgentRefused, PendingDrops, AgentJoin
  <2>7. ASSUME NEW k \in Conns, AgentClosed(k) \/ ViewerGone(k) \/ Idle(k)
        PROVE  TimerOfNobody'
    BY <2>2, <2>3, <2>7 DEF AgentClosed, ViewerGone, Idle
  <2>8. ASSUME NEW s \in Sids, RelayWrite(s) PROVE TimerOfNobody'
    BY <2>2, <2>8 DEF RelayWrite, RelayUpdate, RelayDel
  <2>9. CASE Crash
    BY <2>9 DEF Crash
  <2>10. CASE RelayNext
    BY <2>4, <2>5, <2>6, <2>7, <2>8, <2>9, <2>10 DEF RelayNext
  <2>11. QED BY <2>2, <2>10 DEF Next, vars, relayVars
<1>3. QED BY <1>1, <1>2, TypeCorrect, PTL DEF Spec
=============================================================================
