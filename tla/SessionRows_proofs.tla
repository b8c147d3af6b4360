--------------------------- MODULE SessionRows_proofs ---------------------------
(***************************************************************************)
(* What a session's row, its tokens and the map of rc-relay keep of each   *)
(* other, on top of what RemoteControl_proofs says of locks and tokens.    *)
(***************************************************************************)
EXTENDS RemoteControl_proofs

\* A start that has not placed its session, or never will set its hash.
Early   == {"new", "check", "insert", "probe", "place"}
PreHash == Early \union {"hset", "failRow", "failDel"}

\* What a row and a hash say of their start, and what a reissue found.
RowInv ==
  /\ \A s \in Sids : pc[s] \in {"new", "check", "insert"} => row[s] = "none"
  /\ \A s \in Sids : row[s] = "failed" =>
       hash[s] = "none" /\ pc[s] \in {"failDel", "rejected", "aborted"}
  /\ \A s \in Sids : hash[s] # "none" => pc[s] \notin PreHash
  /\ \A s \in Sids : pc[s] \in {"verify", "reissued"} => DeviceOf[seen[s]] = DeviceOf[s]
  /\ \A s \in Sids : pc[s] = "reissued" =>
       /\ OperatorOf[seen[s]] = OperatorOf[s]
       /\ row[seen[s]] # "failed" /\ pc[seen[s]] \notin PreHash

LEMMA StoreTypes ==
  ASSUME TypeOK
  PROVE  /\ lock \in [Devices -> Sids \union {None}] /\ hash \in [Sids -> {"none", "bare", "ttl"}]
         /\ row \in [Sids -> RowStates] /\ DOMAIN pc = Sids
         /\ seen \in [Sids -> Sids \union {None}] /\ tokens \subseteq Sids
         /\ \A s \in Sids : pc[s] \in {"verify", "reissued"} => seen[s] \in Sids
         /\ \A s \in Sids : DeviceOf[s] \in Devices
BY SidsAssumption DEF TypeOK, SessionsTypeOK, StoreTypeOK

-----------------------------------------------------------------------------
(* Rows.                                                                   *)

\* A step that moves no start keeps this if it only takes hashes away and fails
\* no row.
LEMMA RowsOnly ==
  ASSUME TypeOK, RowInv, UNCHANGED <<pc, seen>>,
         \A s \in Sids : hash'[s] \in {hash[s], "none"},
         \A s \in Sids : row'[s] = row[s] \/ (row[s] # "none" /\ row'[s] # "failed")
                         \/ row'[s] = "none"
  PROVE  RowInv'
BY StoreTypes DEF RowInv

\* A start that goes on without touching its row or its hash.
LEMMA MoveOnly ==
  ASSUME TypeOK, RowInv, NEW s \in Sids, NEW to, pc' = [pc EXCEPT ![s] = to],
         UNCHANGED <<row, hash, seen>>,
         to \in PreHash => pc[s] \in PreHash /\ hash[s] = "none",
         to \in {"new", "check", "insert"} => pc[s] \in {"new", "check", "insert"},
         row[s] = "failed" => to \in {"failDel", "rejected", "aborted"},
         to \notin {"verify", "reissued"}
  PROVE  RowInv'
BY StoreTypes DEF RowInv

LEMMA StartRows ==
  ASSUME TypeOK, HeldUnlessLost, RowInv, NEW s \in Sids, StartStep(s) \/ Abort(s)
  PROVE  RowInv'
<1> USE DEF Step, Early, PreHash
<1>1. ASSUME NEW to, pc' = [pc EXCEPT ![s] = to], UNCHANGED <<row, hash, seen>>,
             \/ Acquire(s) /\ to = "check"
             \/ Occupied(s) /\ to = "lookup"
             \/ Check(s) /\ to \in {"insert", "catch"}
             \/ Probe(s) /\ to \in {"place", "failRow", "catch"}
             \/ Publish(s) /\ to \in {"done", "catch"}
             \/ (Catch(s) \/ FailDel(s)) /\ to = "rejected"
             \/ Abort(s) /\ to = "aborted"
      PROVE  RowInv'
  <2>1. to \in PreHash => pc[s] \in PreHash /\ hash[s] = "none"
    BY <1>1 DEF RowInv, Acquire, Check, Probe
  <2>2. to \in {"new", "check", "insert"} => pc[s] \in {"new", "check", "insert"}
    BY <1>1 DEF Acquire, Check
  <2>3. row[s] = "failed" => to \in {"failDel", "rejected", "aborted"}
    BY <1>1 DEF RowInv, Acquire, Occupied, Check, Probe, Publish
  <2>4. QED BY <1>1, <2>1, <2>2, <2>3, MoveOnly
<1>2. CASE Acquire(s) BY <1>1, <1>2 DEF Acquire
<1>3. CASE Occupied(s) BY <1>1, <1>3 DEF Occupied, storeVars
<1>4. CASE Check(s) BY <1>1, <1>4 DEF Check, storeVars
<1>5. CASE Probe(s) BY <1>1, <1>5 DEF Probe, storeVars
<1>6. CASE Publish(s) BY <1>1, <1>6 DEF Publish
<1>7. CASE Catch(s) \/ FailDel(s) BY <1>1, <1>7 DEF Catch, FailDel
<1>8. CASE Abort(s) BY <1>1, <1>8 DEF Abort, storeVars
<1>9. CASE Insert(s) BY <1>9, StoreTypes DEF Insert, RowInv
<1>10. CASE Place(s) BY <1>10, StoreTypes DEF Place, UpdateRow, RowInv
<1>11. CASE HSet(s) BY <1>11, StoreTypes DEF HSet, RowInv
<1>12. CASE Expire(s) BY <1>12, StoreTypes DEF Expire, RowInv
<1>13. CASE FailRow(s) BY <1>13, StoreTypes DEF FailRow, UpdateRow, RowInv
<1>14. CASE Lookup(s)
  <2>1. lock[DeviceOf[s]] # None => DeviceOf[lock[DeviceOf[s]]] = DeviceOf[s]
    BY StoreTypes DEF HeldUnlessLost
  <2>2. QED BY <1>14, <2>1, StoreTypes DEF Lookup, RowInv, storeVars
<1>15. CASE Verify(s) BY <1>15, StoreTypes DEF Verify, Mine, RowInv
<1>16. QED
  BY <1>2, <1>3, <1>4, <1>5, <1>6, <1>7, <1>8, <1>9, <1>10, <1>11, <1>12, <1>13, <1>14, <1>15
  DEF StartStep

LEMMA RowsKept ==
  ASSUME TypeOK, HeldUnlessLost, RowInv, [Next]_vars
  PROVE  RowInv'
<1> USE StoreTypes DEF storeVars, apiVars
<1>1. ASSUME NEW s \in Sids, StartStep(s) \/ Abort(s) PROVE RowInv'
  BY <1>1, StartRows
<1>2. ASSUME NEW s \in Sids, CloseStep(s) PROVE RowInv'
  BY <1>2, RowsOnly
  DEF CloseStep, CloseSelect, CloseUpdate, CloseDel, CloseAbort, UpdateRow, AnyRow
<1>3. ASSUME NEW d \in Devices, RemoveStep(d) PROVE RowInv'
  BY <1>3, RowsOnly
  DEF RemoveStep, RemoveRead, RemoveDel, RemoveRows, RemoveDevice, RemoveAbort, EnsureDevice
<1>4. ASSUME Expiry PROVE RowInv'
  BY <1>4, RowsOnly
  DEF Expiry, LockExpires, HashExpires, AgentTokenExpires, ViewerTokenExpires
<1>5. ASSUME NEW o \in Conns, NEW D, CloseSession(o, D), UNCHANGED apiVars PROVE RowInv'
  BY <1>5, RowsOnly DEF CloseSession
<1>6. ASSUME NEW s \in Sids, RelayWrite(s), UNCHANGED apiVars PROVE RowInv'
  BY <1>6, RowsOnly DEF RelayWrite, RelayUpdate, RelayDel, UpdateRow, NotYetActive, LiveRow
<1>7. CASE UNCHANGED <<row, hash, pc, seen>> BY <1>7, RowsOnly
<1>8. ASSUME RelayNext, UNCHANGED apiVars PROVE RowInv'
  <2>1. ASSUME NEW k \in Conns, AgentClosed(k) PROVE RowInv'
    <3>1. joined[k] \in Conns BY <2>1 DEF AgentClosed, TypeOK, RelayTypeOK
    <3>2. QED BY <1>5, <1>7, <1>8, <2>1, <3>1 DEF AgentClosed
  <2>2. ASSUME NEW k \in Conns, ViewerGone(k) \/ Idle(k) PROVE RowInv'
    BY <1>5, <1>8, <2>2 DEF ViewerGone, Idle
  <2>3. ASSUME NEW k \in Conns,
               \/ AgentConnect(k) \/ AgentRefused(k) \/ PendingDrops(k) \/ AgentJoin(k)
               \/ ViewerConnect(k) \/ ViewerClosed(k)
        PROVE  RowInv'
    BY <1>7, <1>8, <2>3
    DEF AgentConnect, AgentRefused, PendingDrops, AgentJoin, ViewerConnect, ViewerClosed
  <2>4. CASE Crash BY <1>7, <1>8, <2>4 DEF Crash
  <2>5. QED BY <1>6, <1>8, <2>1, <2>2, <2>3, <2>4 DEF RelayNext
<1>9. CASE UNCHANGED vars BY <1>7, <1>9 DEF vars
<1>10. QED
  BY <1>1, <1>2, <1>3, <1>4, <1>8, <1>9, BoundsAssumption DEF Next, SessionsNext

\* What rows and hashes say of the starts they are of.
THEOREM RowsAreAccountedFor == Spec => []RowInv
<1>1. Init => RowInv
  BY DEF Init, SessionsInit, StoreInit, RowInv
<1>2. TypeOK /\ HeldUnlessLost /\ RowInv /\ [Next]_vars => RowInv'
  BY RowsKept
<1>3. QED BY <1>1, <1>2, TypeCorrect, LockIsAccountedFor, PTL DEF Spec

\* A reissued token is for a session of the same operator and device that did
\* not end in device_unreachable, however the two reads are interleaved.
THEOREM ReissuesAreSound == Spec => []ReissueIsSound
<1>1. RowInv => ReissueIsSound
  BY DEF RowInv, ReissueIsSound
<1>2. QED BY <1>1, RowsAreAccountedFor, PTL

\* Which row a step writes: its own start's, that of a close, a removal or an
\* UPDATE of rc-relay.
RowStep(s) ==
  \/ row'[s] = row[s]
  \/ pc[s] = "insert" /\ row'[s] = "probing"
  \/ pc[s] = "place" /\ row[s] # "none" /\ row'[s] = "starting"
  \/ pc[s] = "failRow" /\ row[s] # "none" /\ row'[s] = "failed"
  \/ row[s] # "none" /\ row'[s] = "closed"
  \/ row'[s] = "none"
  \/ "active" \in writes[s] /\ row[s] \in NotYetActive /\ row'[s] = "active"

LEMMA RowSteps ==
  ASSUME TypeOK, [Next]_vars
  PROVE  \A s \in Sids : RowStep(s)
<1> USE StoreTypes DEF RowStep, storeVars
<1>1. ASSUME NEW r \in Sids, StartStep(r) \/ Abort(r) PROVE \A s \in Sids : RowStep(s)
  <2>1. CASE Insert(r) BY <2>1 DEF Insert, Step
  <2>2. CASE Place(r) BY <2>2 DEF Place, Step, UpdateRow, AnyRow
  <2>3. CASE FailRow(r) BY <2>3 DEF FailRow, Step, UpdateRow, AnyRow
  <2>4. CASE ~(Insert(r) \/ Place(r) \/ FailRow(r))
    BY <1>1, <2>4
    DEF StartStep, Abort, Acquire, Occupied, Check, Probe, HSet, Expire, Publish, Catch,
        FailDel, Lookup, Verify
  <2>5. QED BY <2>1, <2>2, <2>3, <2>4
<1>2. ASSUME NEW r \in Sids, CloseStep(r) PROVE \A s \in Sids : RowStep(s)
  BY <1>2 DEF CloseStep, CloseSelect, CloseUpdate, CloseDel, CloseAbort, UpdateRow, AnyRow
<1>3. ASSUME NEW d \in Devices, RemoveStep(d) PROVE \A s \in Sids : RowStep(s)
  BY <1>3
  DEF RemoveStep, RemoveRead, RemoveDel, RemoveRows, RemoveDevice, RemoveAbort, EnsureDevice
<1>4. ASSUME Expiry PROVE \A s \in Sids : RowStep(s)
  BY <1>4 DEF Expiry, LockExpires, HashExpires, AgentTokenExpires, ViewerTokenExpires
<1>5. ASSUME RelayNext PROVE \A s \in Sids : RowStep(s)
  <2>1. ASSUME NEW r \in Sids, RelayWrite(r) PROVE \A s \in Sids : RowStep(s)
    BY <2>1 DEF RelayWrite, RelayUpdate, RelayDel, UpdateRow, LiveRow
  <2>2. CASE ~ \E r \in Sids : RelayWrite(r)
    BY <1>5, <2>2
    DEF RelayNext, AgentConnect, AgentRefused, PendingDrops, AgentJoin, ViewerConnect,
        AgentClosed, ViewerClosed, ViewerGone, Idle, CloseSession, Crash
  <2>3. QED BY <2>1, <2>2
<1>6. CASE UNCHANGED vars BY <1>6 DEF vars
<1>7. QED
  BY <1>1, <1>2, <1>3, <1>4, <1>5, <1>6, BoundsAssumption DEF Next, SessionsNext

\* No UPDATE of rc-relay, however late, reopens a row that says the session is
\* over; only a start that has not placed it yet can.
THEOREM EndsAreFinal == Spec => EndedStaysEnded
<1> DEFINE Final == \A s \in Sids :
      row[s] \in {"closed", "failed"} /\ row'[s] \notin {"closed", "failed", "none"}
        => pc[s] = "place"
<1>1. TypeOK /\ RowInv /\ [Next]_vars => [Final]_vars
  BY RowSteps DEF RowStep, RowInv, NotYetActive
<1>2. QED BY <1>1, TypeCorrect, RowsAreAccountedFor, PTL DEF Spec, EndedStaysEnded

-----------------------------------------------------------------------------
(* Active rows.                                                            *)

Backed(s) == sessions[s] # None \/ "closed" \in writes[s] \/ s \in stranded

\* Nothing of a session reaches rc-relay before it is placed; a row that is
\* active, or may become it, is backed.
BackInv ==
  /\ \A s \in Sids :
       sessions[s] # None \/ writes[s] # {} \/ s \in tokens \/ hash[s] # "none"
         => pc[s] \notin Early
  /\ \A k \in Conns :
       sock[k] \in {"open", "closing"} \/ k \in timer => pc[SidOf[k]] \notin Early
  /\ \A s \in Sids :
       row[s] = "active" \/ ("active" \in writes[s] /\ row[s] \in NotYetActive) => Backed(s)

LEMMA RelayTypesOf ==
  ASSUME TypeOK
  PROVE  /\ sessions \in [Sids -> Conns \union {None}]
         /\ writes \in [Sids -> SUBSET {"active", "closed", "del"}]
         /\ \A s \in Sids : sessions[s] # None => SidOf[sessions[s]] = s
         /\ \A k \in Conns : SidOf[k] \in Sids
BY ConnsAssumption DEF TypeOK, RelayTypeOK

\* No start goes back to where nothing is placed, and tokens and hashes are of
\* what is.
Forward ==
  \A s \in Sids :
    /\ pc'[s] \in Early => pc[s] \in Early
    /\ s \in tokens' => s \in tokens \/ pc'[s] \notin Early
    /\ hash'[s] # "none" => hash[s] # "none" \/ pc'[s] \notin Early

\* What rc-api does: no start goes back, and only what is placed is told.
LEMMA ApiBacks ==
  ASSUME TypeOK, BackInv, SessionsNext, UNCHANGED relayVars
  PROVE  BackInv'
<1> USE StoreTypes DEF storeVars, apiVars
<1>1. Forward
  <2> USE DEF Forward
  <2>1. ASSUME NEW r \in Sids, StartStep(r) \/ Abort(r) PROVE Forward
    <3>1. CASE HSet(r) BY <3>1 DEF HSet, Step, Early
    <3>2. CASE Publish(r) BY <3>2 DEF Publish, Step, Early
    <3>3. CASE Verify(r)
      BY <3>3 DEF Verify, Step, Early, Mine, BackInv
    <3>4. CASE ~(HSet(r) \/ Publish(r) \/ Verify(r))
      BY <2>1, <3>4
      DEF StartStep, Abort, Acquire, Occupied, Check, Insert, Probe, Place, Expire, Catch,
          FailRow, FailDel, Lookup, Step, Early
    <3>5. QED BY <3>1, <3>2, <3>3, <3>4
  <2>2. ASSUME NEW r \in Sids, CloseStep(r) PROVE Forward
    BY <2>2 DEF CloseStep, CloseSelect, CloseUpdate, CloseDel, CloseAbort
  <2>3. ASSUME NEW d \in Devices, RemoveStep(d) PROVE Forward
    BY <2>3
    DEF RemoveStep, RemoveRead, RemoveDel, RemoveRows, RemoveDevice, RemoveAbort, EnsureDevice
  <2>4. ASSUME Expiry PROVE Forward
    BY <2>4 DEF Expiry, LockExpires, HashExpires, AgentTokenExpires, ViewerTokenExpires
  <2>5. QED BY <2>1, <2>2, <2>3, <2>4, BoundsAssumption DEF SessionsNext
<1>2. \A s \in Sids : RowStep(s) BY RowSteps DEF Next
<1>3. UNCHANGED <<sessions, writes, stranded, sock, timer>> BY DEF relayVars
<1>4. ASSUME NEW s \in Sids,
             row'[s] = "active" \/ ("active" \in writes'[s] /\ row'[s] \in NotYetActive)
      PROVE  Backed(s)'
  <2>1. CASE "active" \in writes[s]
    <3>1. pc[s] \notin Early BY <2>1 DEF BackInv
    <3>2. row[s] = "active" \/ row[s] \in NotYetActive
      BY <1>2, <1>4, <3>1 DEF RowStep, Early, NotYetActive
    <3>3. QED BY <1>3, <2>1, <3>2 DEF BackInv, Backed
  <2>2. CASE "active" \notin writes[s]
    <3>1. row[s] = "active" BY <1>2, <1>3, <1>4, <2>2 DEF RowStep
    <3>2. QED BY <1>3, <3>1 DEF BackInv, Backed
  <2>3. QED BY <2>1, <2>2
<1>5. QED BY <1>1, <1>3, <1>4, RelayTypesOf DEF BackInv, Forward

-----------------------------------------------------------------------------
(* The map of rc-relay.                                                    *)

\* A RelaySession that no close event and no timer will close.
Dead(o) == agent[o] = None /\ viewer[o] = None /\ o \notin timer

\* As long as the agent may come or is there, no RelaySession but that of the
\* map can still be closed; and the agent is that one's.
MapInv ==
  /\ \A k \in Conns : sock[k] \in {"unused", "pending", "gone"} => joined[k] = None
  /\ \A k \in Conns : sock[k] \in {"pending", "gone"} => RoleOf[k] = "agent"
  /\ \A o \in Conns : agent[o] # None =>
       RoleOf[agent[o]] = "agent" /\ joined[agent[o]] = o /\ SidOf[agent[o]] = SidOf[o]
  /\ \A k \in Conns : RoleOf[k] = "agent" /\ sock[k] = "open" =>
       agent[joined[k]] = k /\ sessions[SidOf[k]] = joined[k]
  /\ \A o \in Conns : Awaited(SidOf[o]) /\ sessions[SidOf[o]] # o => Dead(o)

LEMMA SockTypes ==
  ASSUME TypeOK
  PROVE  /\ sock \in [Conns -> {"unused", "pending", "gone", "open", "closing", "closed"}]
         /\ joined \in [Conns -> Conns \union {None}]
         /\ agent \in [Conns -> Conns \union {None}]
         /\ viewer \in [Conns -> Conns \union {None}] /\ timer \subseteq Conns
         /\ sessions \in [Sids -> Conns \union {None}]
         /\ \A s \in Sids : sessions[s] # None => SidOf[sessions[s]] = s
         /\ \A k \in Conns : sock[k] \in {"open", "closing"} =>
              joined[k] # None /\ SidOf[joined[k]] = SidOf[k]
         /\ \A k \in Conns : SidOf[k] \in Sids /\ k # None
         /\ DOMAIN agentTok = Sids
BY ConnsAssumption DEF TypeOK, RelayTypeOK, SessionsTypeOK, StoreTypeOK

\* One agent at most was admitted.
LEMMA OneAgent ==
  ASSUME TypeOK, TokenInv, NEW k \in Conns, NEW l \in Conns, SidOf[k] = SidOf[l],
         RoleOf[k] = "agent", RoleOf[l] = "agent",
         joined[k] # None \/ sock[k] \in {"pending", "gone", "open", "closing"},
         joined[l] # None \/ sock[l] \in {"pending", "gone", "open", "closing"}
  PROVE  k = l
BY DEF TokenInv, SingleAgent, Admitted

\* A token is used or expired once and for all.
NoneIssuedAnew ==
  \A s \in Sids : agentTok'[s] \in {"none", "issued"} => agentTok[s] \in {"none", "issued"}

\* A step of the tokens alone.
LEMMA ApiKeepsMap ==
  ASSUME TypeOK, TokenInv, MapInv, SessionsNext, UNCHANGED relayVars
  PROVE  MapInv'
<1>1. NoneIssuedAnew
  <2> USE SockTypes DEF storeVars, apiVars, NoneIssuedAnew
  <2>1. ASSUME NEW r \in Sids, StartStep(r) \/ Abort(r) PROVE NoneIssuedAnew
    <3>1. CASE Publish(r) BY <3>1 DEF Publish, Step, TokenInv, Unpublished
    <3>2. CASE ~Publish(r)
      BY <2>1, <3>2
      DEF StartStep, Abort, Acquire, Occupied, Check, Insert, Probe, Place, HSet, Expire,
          Catch, FailRow, FailDel, Lookup, Verify
    <3>3. QED BY <3>1, <3>2
  <2>2. ASSUME NEW r \in Sids, CloseStep(r) PROVE UNCHANGED agentTok
    BY <2>2 DEF CloseStep, CloseSelect, CloseUpdate, CloseDel, CloseAbort
  <2>3. ASSUME NEW d \in Devices, RemoveStep(d) PROVE UNCHANGED agentTok
    BY <2>3
    DEF RemoveStep, RemoveRead, RemoveDel, RemoveRows, RemoveDevice, RemoveAbort, EnsureDevice
  <2>4. ASSUME Expiry PROVE NoneIssuedAnew
    BY <2>4 DEF Expiry, LockExpires, HashExpires, AgentTokenExpires, ViewerTokenExpires
  <2>5. QED BY <2>1, <2>2, <2>3, <2>4, BoundsAssumption DEF SessionsNext
<1>2. \A k \in Conns : Awaited(SidOf[k])' => Awaited(SidOf[k])
  BY <1>1, SockTypes DEF relayVars, Awaited, NoneIssuedAnew
<1>3. QED BY <1>2 DEF relayVars, MapInv, Dead

\* closeSession of a RelaySession that is not dead: that of the map, if the
\* agent is there.
LEMMA CloseKeepsMap ==
  ASSUME TypeOK, TokenInv, MapInv, NEW o \in Conns, NEW D, CloseSession(o, D),
         ~Dead(o) \/ sessions[SidOf[o]] = o,
         \/ agent[o] # None /\ D = {agent[o]}
         \/ D = {} /\ viewer[o] = None
         \/ D = {} /\ Quiet(o)
  PROVE  MapInv'
<1> DEFINE s == SidOf[o]
<1>1. /\ UNCHANGED <<agentTok, joined, agent, viewer>> /\ timer' = timer \ {o}
      /\ sessions' = [sessions EXCEPT ![s] = None]
      /\ sock' = [k \in Conns |->
           IF k \in D THEN "closed"
           ELSE IF k \in {agent[o], viewer[o]} /\ sock[k] = "open" THEN "closing"
           ELSE sock[k]]
  BY DEF CloseSession, storeVars
<1>2. \A r \in Sids : sessions'[r] = IF r = s THEN None ELSE sessions[r]
  BY <1>1, SockTypes
<1>3. D \subseteq Conns /\ \A k \in D : joined[k] # None /\ sock[k] \notin {"unused"}
  BY <1>1, SockTypes DEF MapInv
<1>4. \A k \in Conns : sock'[k] \in {"unused", "pending", "gone", "open"} => sock'[k] = sock[k]
  BY <1>1
<1>5. \A r \in Sids : Awaited(r)' => Awaited(r) BY <1>1, <1>4 DEF Awaited
<1>6. \A k \in Conns : SidOf[k] = s /\ RoleOf[k] = "agent" => sock'[k] # "open"
  <2> SUFFICES ASSUME NEW k \in Conns, SidOf[k] = s, RoleOf[k] = "agent", sock'[k] = "open"
               PROVE  FALSE
    OBVIOUS
  <2>1. sock[k] = "open" BY <1>4
  <2>2. agent[joined[k]] = k /\ sessions[s] = joined[k] BY <2>1 DEF MapInv
  <2>3. Awaited(s) BY <2>1 DEF Awaited
  <2>4. sessions[s] = o BY <2>3 DEF MapInv
  <2>5. agent[o] = k BY <2>2, <2>4
  <2>6. QED BY <1>1, <2>1, <2>5
<1>7. ASSUME Awaited(s)', NEW p \in Conns, SidOf[p] = s PROVE Dead(p)'
  <2>1. Awaited(s) BY <1>5, <1>7, SockTypes
  <2>2. CASE p # o
    <3>1. sessions[s] = o BY <2>1 DEF MapInv
    <3>2. Dead(p) BY <1>7, <2>1, <2>2, <3>1 DEF MapInv
    <3>3. QED BY <1>1, <3>2 DEF Dead
  <2>3. CASE p = o
    <3>1. agent[o] = None
      <4> SUFFICES ASSUME agent[o] # None PROVE FALSE
        OBVIOUS
      <4> DEFINE k == agent[o]
      <4>1. k \in Conns /\ RoleOf[k] = "agent" /\ joined[k] = o /\ SidOf[k] = s
        BY SockTypes DEF MapInv
      <4>2. agentTok[s] = "used" BY <4>1, SockTypes DEF TokenInv, Admitted
      <4>3. PICK l \in Conns : /\ SidOf[l] = s /\ RoleOf[l] = "agent"
                               /\ sock'[l] \in {"pending", "gone", "open"}
        BY <1>1, <1>7, <4>2 DEF Awaited
      <4>4. sock[l] \in {"pending", "gone"} BY <1>4, <1>6, <4>3
      <4>5. joined[l] = None BY <4>4 DEF MapInv
      <4>6. l = k BY <4>1, <4>3, <4>4, OneAgent, SockTypes
      <4>7. QED BY <4>1, <4>5, <4>6, SockTypes
    <3>2. viewer[o] = None
      <4>1. CASE Quiet(o)
        <5>1. agentTok[s] \in {"used", "expired"} BY <4>1 DEF Quiet
        <5>2. PICK l \in Conns : /\ SidOf[l] = s /\ RoleOf[l] = "agent"
                                 /\ sock'[l] \in {"pending", "gone", "open"}
          BY <1>1, <1>7, <5>1 DEF Awaited
        <5>3. QED BY <1>4, <1>6, <4>1, <5>2 DEF Quiet
      <4>2. QED BY <3>1, <4>1
    <3>3. QED BY <1>1, <2>3, <3>1, <3>2 DEF Dead
  <2>4. QED BY <2>2, <2>3
<1>8. \A p \in Conns : Awaited(SidOf[p])' /\ sessions'[SidOf[p]] # p => Dead(p)'
  <2> SUFFICES ASSUME NEW p \in Conns, Awaited(SidOf[p])', sessions'[SidOf[p]] # p
               PROVE  Dead(p)'
    OBVIOUS
  <2>1. CASE SidOf[p] = s BY <1>7, <2>1
  <2>2. CASE SidOf[p] # s
    <3>1. Dead(p) BY <1>2, <1>5, <2>2, SockTypes DEF MapInv
    <3>2. QED BY <1>1, <3>1 DEF Dead
  <2>3. QED BY <2>1, <2>2
<1>9. \A k \in Conns : RoleOf[k] = "agent" /\ sock'[k] = "open" =>
        agent'[joined'[k]] = k /\ sessions'[SidOf[k]] = joined'[k]
  BY <1>1, <1>2, <1>4, <1>6, SockTypes DEF MapInv
<1>10. QED BY <1>1, <1>4, <1>8, <1>9 DEF MapInv

\* Joining: the RelaySession joined is that of the map from now on.
LEMMA JoinKeepsMap ==
  ASSUME TypeOK, TokenInv, MapInv, NEW k \in Conns, AgentJoin(k) \/ ViewerConnect(k)
  PROVE  MapInv'
<1> DEFINE o == GetOrCreate(k)  s == SidOf[k]
<1>1. /\ o \in Conns /\ SidOf[o] = s /\ s \in Sids /\ o # None
      /\ sessions[s] # None => o = sessions[s]
  BY SockTypes DEF GetOrCreate
<1>2. \A r \in Sids : sessions'[r] = IF r = s THEN o ELSE sessions[r]
  BY <1>1, SockTypes DEF AgentJoin, ViewerConnect
<1>3. \A l \in Conns : joined'[l] = IF l = k THEN o ELSE joined[l]
  BY SockTypes DEF AgentJoin, ViewerConnect
<1>4. joined[k] = None /\ (AgentJoin(k) => RoleOf[k] = "agent")
  BY DEF AgentJoin, ViewerConnect, MapInv
<1>5. UNCHANGED agentTok BY DEF AgentJoin, ViewerConnect, storeVars
<1>6. \A l \in Conns : l # k => sock'[l] = sock[l]
  BY SockTypes DEF AgentJoin, ViewerConnect
<1>7. \A r \in Sids : Awaited(r)' => Awaited(r)
  <2> SUFFICES ASSUME NEW r \in Sids, NEW l \in Conns, SidOf[l] = r, RoleOf[l] = "agent",
                      sock'[l] \in {"pending", "gone", "open"}
               PROVE  Awaited(r)
    BY <1>5 DEF Awaited
  <2>1. CASE l # k BY <1>6, <2>1 DEF Awaited
  <2>2. CASE l = k /\ AgentJoin(k) BY <2>2 DEF AgentJoin, Awaited
  <2>3. CASE l = k /\ ViewerConnect(k) BY <2>3 DEF ViewerConnect
  <2>4. QED BY <2>1, <2>2, <2>3
<1>8. /\ \A p \in Conns : p # o => agent'[p] = agent[p] /\ viewer'[p] = viewer[p]
                                   /\ (p \in timer' => p \in timer)
  BY <1>1, SockTypes DEF AgentJoin, ViewerConnect
<1>9. \A p \in Conns : Awaited(SidOf[p])' /\ sessions'[SidOf[p]] # p => Dead(p)'
  <2> SUFFICES ASSUME NEW p \in Conns, Awaited(SidOf[p])', sessions'[SidOf[p]] # p
               PROVE  Dead(p)'
    OBVIOUS
  <2>1. p # o /\ sessions[SidOf[p]] # p /\ Awaited(SidOf[p])
    BY <1>1, <1>2, <1>7, SockTypes
  <2>2. Dead(p) BY <2>1 DEF MapInv
  <2>3. QED BY <1>8, <2>1, <2>2 DEF Dead
<1>10. CASE AgentJoin(k)
  <2>1. \A p \in Conns : agent'[p] = IF p = o THEN k ELSE agent[p]
    BY <1>1, <1>10, SockTypes DEF AgentJoin
  <2>2. \A l \in Conns : l # k /\ RoleOf[l] = "agent" /\ sock[l] = "open" => SidOf[l] # s
    BY <1>4, <1>10, OneAgent DEF AgentJoin
  <2>3. sock'[k] \in {"open", "closed"} BY <1>10, SockTypes DEF AgentJoin
  <2>4. \A p \in Conns : agent'[p] # None =>
          RoleOf[agent'[p]] = "agent" /\ joined'[agent'[p]] = p /\ SidOf[agent'[p]] = SidOf[p]
    BY <1>1, <1>3, <1>4, <1>10, <2>1, SockTypes DEF MapInv
  <2>5. ASSUME NEW l \in Conns, RoleOf[l] = "agent", sock'[l] = "open"
        PROVE  agent'[joined'[l]] = l /\ sessions'[SidOf[l]] = joined'[l]
    <3>1. CASE l = k BY <1>1, <1>2, <1>3, <2>1, <3>1
    <3>2. CASE l # k
      <4>1. /\ sock[l] = "open" /\ SidOf[l] # s /\ joined'[l] = joined[l]
            /\ SidOf[joined[l]] = SidOf[l] /\ joined[l] \in Conns
        BY <1>3, <1>6, <2>2, <2>5, <3>2, SockTypes
      <4>2. joined[l] # o BY <1>1, <4>1
      <4>3. QED BY <1>2, <2>1, <2>5, <4>1, <4>2, SockTypes DEF MapInv
    <3>3. QED BY <3>1, <3>2
  <2>6. QED BY <1>3, <1>6, <1>9, <2>3, <2>4, <2>5 DEF MapInv
<1>11. CASE ViewerConnect(k)
  <2>1. UNCHANGED agent /\ sock'[k] = "open" /\ RoleOf[k] = "viewer"
    BY <1>11, SockTypes DEF ViewerConnect
  <2>2. \A p \in Conns : agent'[p] # None =>
          RoleOf[agent'[p]] = "agent" /\ joined'[agent'[p]] = p /\ SidOf[agent'[p]] = SidOf[p]
    BY <1>3, <2>1, SockTypes DEF MapInv
  <2>3. ASSUME NEW l \in Conns, RoleOf[l] = "agent", sock'[l] = "open"
        PROVE  agent'[joined'[l]] = l /\ sessions'[SidOf[l]] = joined'[l]
    <3>1. l # k /\ sock[l] = "open" /\ joined'[l] = joined[l] BY <1>3, <1>6, <2>1, <2>3
    <3>2. agent[joined[l]] = l /\ sessions[SidOf[l]] = joined[l] /\ joined[l] # None
      BY <2>3, <3>1, SockTypes DEF MapInv
    <3>3. QED BY <1>1, <1>2, <2>1, <3>1, <3>2, SockTypes
  <2>4. QED BY <1>3, <1>6, <1>9, <2>1, <2>2, <2>3 DEF MapInv
<1>12. QED BY <1>10, <1>11

LEMMA RelayKeepsMap ==
  ASSUME TypeOK, TokenInv, MapInv, RelayNext, UNCHANGED apiVars
  PROVE  MapInv'
<1>1. ASSUME NEW k \in Conns, AgentConnect(k) PROVE MapInv'
  <2>1. /\ \A l \in Conns : sock'[l] = IF l = k THEN "pending" ELSE sock[l]
        /\ \A r \in Sids : agentTok'[r] = IF r = SidOf[k] THEN "used" ELSE agentTok[r]
        /\ sock[k] = "unused" /\ agentTok[SidOf[k]] = "issued" /\ RoleOf[k] = "agent"
        /\ UNCHANGED <<joined, sessions, agent, viewer, timer>>
    BY <1>1, SockTypes DEF AgentConnect
  <2>2. \A p \in Conns : Awaited(SidOf[p])' => Awaited(SidOf[p])
    BY <2>1, SockTypes DEF Awaited
  <2>3. QED BY <2>1, <2>2 DEF MapInv, Dead
<1>2. ASSUME NEW k \in Conns,
             \/ AgentRefused(k) \/ PendingDrops(k)
             \/ AgentClosed(k) /\ agent[joined[k]] # k
      PROVE  MapInv'
  <2>1. /\ \A l \in Conns : l # k => sock'[l] = sock[l]
        /\ \/ sock[k] = "pending" /\ sock'[k] = "gone"
           \/ sock'[k] = "closed"
        /\ UNCHANGED <<agentTok, joined, sessions, agent, viewer, timer>>
    BY <1>2, SockTypes DEF AgentRefused, PendingDrops, AgentClosed, storeVars
  <2>2. \A p \in Conns : Awaited(SidOf[p])' => Awaited(SidOf[p])
    BY <2>1, SockTypes DEF Awaited
  <2>3. QED BY <2>1, <2>2 DEF MapInv, Dead
<1>3. ASSUME NEW k \in Conns, AgentClosed(k), agent[joined[k]] = k PROVE MapInv'
  <2>1. joined[k] \in Conns /\ k # None BY <1>3, SockTypes DEF AgentClosed
  <2>2. CloseSession(joined[k], {k}) BY <1>3 DEF AgentClosed
  <2>3. ~Dead(joined[k]) BY <1>3, <2>1 DEF Dead
  <2>4. QED BY <1>3, <2>1, <2>2, <2>3, CloseKeepsMap
<1>4. ASSUME NEW k \in Conns, ViewerClosed(k) PROVE MapInv'
  <2> DEFINE o == joined[k]
  <2>1. /\ \A l \in Conns : sock'[l] = IF l = k THEN "closed" ELSE sock[l]
        /\ UNCHANGED <<agentTok, joined, sessions, agent>> /\ o \in Conns
        /\ \/ UNCHANGED <<viewer, timer>>
           \/ /\ viewer[o] = k
              /\ \A p \in Conns : p # o => viewer'[p] = viewer[p] /\ (p \in timer' <=> p \in timer)
    BY <1>4, SockTypes DEF ViewerClosed, storeVars
  <2>2. \A p \in Conns : Awaited(SidOf[p])' => Awaited(SidOf[p])
    BY <2>1, SockTypes DEF Awaited
  <2>3. viewer[o] = k => ~Dead(o) BY SockTypes DEF Dead
  <2>4. ASSUME NEW p \in Conns, Awaited(SidOf[p])', sessions'[SidOf[p]] # p PROVE Dead(p)'
    <3>1. Dead(p) BY <2>1, <2>2, <2>4 DEF MapInv
    <3>2. QED BY <2>1, <2>3, <3>1 DEF Dead
  <2>5. QED BY <2>1, <2>4 DEF MapInv
<1>5. ASSUME NEW o \in Conns, ViewerGone(o) PROVE MapInv'
  BY <1>5, CloseKeepsMap DEF ViewerGone, Dead
<1>6. ASSUME NEW o \in Conns, Idle(o) PROVE MapInv'
  BY <1>6, CloseKeepsMap DEF Idle
<1>7. ASSUME NEW s \in Sids, RelayWrite(s) PROVE MapInv'
  BY <1>7 DEF RelayWrite, RelayUpdate, RelayDel, MapInv, Dead, Awaited
<1>8. CASE Crash
  BY <1>8, SockTypes DEF Crash, MapInv, Dead, Awaited, storeVars
<1>9. QED
  BY <1>1, <1>2, <1>3, <1>4, <1>5, <1>6, <1>7, <1>8, JoinKeepsMap DEF RelayNext

\* While the agent of a session may come or is there, the map has the only
\* RelaySession of it that anything can still close.
THEOREM MapIsAccountedFor == Spec => []MapInv
<1>1. Init => MapInv
  BY ConnsAssumption DEF Init, RelayInit, MapInv, Dead
<1>2. TypeOK /\ TokenInv /\ MapInv /\ [Next]_vars => MapInv'
  <2> SUFFICES ASSUME TypeOK, TokenInv, MapInv, [Next]_vars PROVE MapInv'
    OBVIOUS
  <2>1. CASE SessionsNext /\ UNCHANGED relayVars BY <2>1, ApiKeepsMap
  <2>2. CASE RelayNext /\ UNCHANGED apiVars BY <2>2, RelayKeepsMap
  <2>3. CASE UNCHANGED vars
    BY <2>3 DEF vars, storeVars, relayVars, MapInv, Dead, Awaited
  <2>4. QED BY <2>1, <2>2, <2>3 DEF Next
<1>3. QED BY <1>1, <1>2, TypeCorrect, TokenIsAccountedFor, PTL DEF Spec

\* An agent that streams does so in the RelaySession of the map: no late close
\* of another one takes the entry away.
THEOREM StreamsAreMapped == Spec => []StreamingIsMapped
<1>1. TypeOK /\ MapInv => StreamingIsMapped
  BY SockTypes DEF MapInv, StreamingIsMapped
<1>2. QED BY <1>1, TypeCorrect, MapIsAccountedFor, PTL

\* The timer of a viewer that left finds nobody attached to its session, to
\* whichever RelaySession, as long as the session's agent may come or is there.
THEOREM GraceIsHonoured == Spec => []GraceHonoured
<1>1. TypeOK /\ MapInv /\ TimerOfNobody => GraceHonoured
  <2> SUFFICES ASSUME TypeOK, MapInv, TimerOfNobody, NEW o \in timer, NEW m \in Conns,
                      SidOf[m] = SidOf[o], m = o \/ Awaited(SidOf[o]), viewer[m] # None
               PROVE  FALSE
    BY DEF GraceHonoured
  <2>1. viewer[o] = None /\ o \in Conns
    BY SockTypes DEF TimerOfNobody
  <2>2. Awaited(SidOf[o]) /\ Awaited(SidOf[m])
    BY <2>1
  <2>3. ~Dead(o) /\ ~Dead(m)
    BY DEF Dead
  <2>4. sessions[SidOf[o]] = o /\ sessions[SidOf[m]] = m
    BY <2>1, <2>2, <2>3 DEF MapInv
  <2>5. QED BY <2>1, <2>4
<1>2. QED BY <1>1, TypeCorrect, MapIsAccountedFor, TimerIsOfNobody, PTL

-----------------------------------------------------------------------------
(* What rc-relay does to what backs a row.                                 *)

\* A step that adds nothing to the map, to the sockets or to what is written.
LEMMA BackedAsBefore ==
  ASSUME TypeOK, BackInv, UNCHANGED <<pc, row, sessions, writes, stranded>>,
         UNCHANGED <<tokens, hash>>,
         \A k \in Conns : sock'[k] \in {"open", "closing"} \/ k \in timer' =>
           pc[SidOf[k]] \notin Early
  PROVE  BackInv'
BY RelayTypesOf DEF BackInv, Backed

\* closeSession of a RelaySession whose start is past its placing.
LEMMA CloseBacks ==
  ASSUME TypeOK, BackInv, NEW o \in Conns, NEW D, CloseSession(o, D), UNCHANGED apiVars,
         pc[SidOf[o]] \notin Early
  PROVE  BackInv'
<1> DEFINE s == SidOf[o]
<1>1. /\ UNCHANGED <<pc, row, tokens, hash, stranded>> /\ timer' \subseteq timer
      /\ \A k \in Conns : sock'[k] \in {"open", "closing"} => sock[k] \in {"open", "closing"}
      /\ \A r \in Sids : r # s => sessions'[r] = sessions[r] /\ writes'[r] = writes[r]
      /\ "closed" \in writes'[s]
  BY RelayTypesOf, StoreTypes, SockTypes DEF CloseSession, storeVars, apiVars
<1>2. \A k \in Conns : sock'[k] \in {"open", "closing"} \/ k \in timer' =>
        pc'[SidOf[k]] \notin Early
  BY <1>1 DEF BackInv
<1>3. \A r \in Sids :
        sessions'[r] # None \/ writes'[r] # {} \/ r \in tokens' \/ hash'[r] # "none"
          => pc'[r] \notin Early
  BY <1>1 DEF BackInv
<1>4. \A r \in Sids :
        row'[r] = "active" \/ ("active" \in writes'[r] /\ row'[r] \in NotYetActive)
          => Backed(r)'
  BY <1>1 DEF BackInv, Backed
<1>5. QED BY <1>2, <1>3, <1>4 DEF BackInv

\* Whoever joins does so in a session that is placed, and puts it in the map.
LEMMA JoinBacks ==
  ASSUME TypeOK, TokenInv, MapInv, BackInv, NEW k \in Conns, UNCHANGED apiVars,
         AgentJoin(k) \/ ViewerConnect(k)
  PROVE  BackInv'
<1> DEFINE o == GetOrCreate(k)  s == SidOf[k]
<1>1. o \in Conns /\ SidOf[o] = s /\ s \in Sids /\ o # None
  BY SockTypes DEF GetOrCreate
<1>2. pc[s] \notin Early
  <2>1. CASE AgentJoin(k)
    <3>1. Admitted(k) BY <2>1 DEF AgentJoin, MapInv, Admitted
    <3>2. pc[s] \notin Unpublished BY <1>1, <3>1 DEF TokenInv
    <3>3. QED BY <3>2 DEF Unpublished, Early
  <2>2. CASE ViewerConnect(k) BY <1>1, <2>2 DEF ViewerConnect, BackInv
  <2>3. QED BY <2>1, <2>2
<1>3. /\ UNCHANGED <<pc, row, tokens, hash, stranded>> /\ timer' \subseteq timer
      /\ \A l \in Conns : l # k => sock'[l] = sock[l]
      /\ \A r \in Sids : sessions'[r] = IF r = s THEN o ELSE sessions[r]
      /\ \A r \in Sids : r # s => writes'[r] = writes[r]
  BY <1>1, RelayTypesOf, SockTypes
  DEF AgentJoin, ViewerConnect, MarkActive, storeVars, apiVars
<1>4. \A l \in Conns : sock'[l] \in {"open", "closing"} \/ l \in timer' =>
        pc'[SidOf[l]] \notin Early
  BY <1>2, <1>3 DEF BackInv
<1>5. \A r \in Sids :
        sessions'[r] # None \/ writes'[r] # {} \/ r \in tokens' \/ hash'[r] # "none"
          => pc'[r] \notin Early
  BY <1>2, <1>3 DEF BackInv
<1>6. \A r \in Sids :
        row'[r] = "active" \/ ("active" \in writes'[r] /\ row'[r] \in NotYetActive)
          => Backed(r)'
  BY <1>1, <1>3 DEF BackInv, Backed
<1>7. QED BY <1>4, <1>5, <1>6 DEF BackInv

LEMMA RelayBacks ==
  ASSUME TypeOK, TokenInv, MapInv, BackInv, RelayNext, UNCHANGED apiVars
  PROVE  BackInv'
<1> USE DEF storeVars, apiVars
<1>1. \A k \in Conns : Admitted(k) => pc[SidOf[k]] \notin Early
  BY SockTypes DEF TokenInv, Unpublished, Early
<1>2. ASSUME NEW k \in Conns,
             \/ AgentConnect(k) \/ AgentRefused(k) \/ PendingDrops(k)
             \/ AgentClosed(k) /\ agent[joined[k]] # k
      PROVE  BackInv'
  <2>1. /\ UNCHANGED <<row, sessions, writes, stranded, tokens, hash, timer>>
        /\ \A l \in Conns : sock'[l] \in {"open", "closing"} => sock[l] = sock'[l]
    BY <1>2, SockTypes DEF AgentConnect, AgentRefused, PendingDrops, AgentClosed
  <2>2. QED BY <2>1, BackedAsBefore DEF BackInv
<1>3. ASSUME NEW k \in Conns, ViewerClosed(k) PROVE BackInv'
  <2>1. /\ UNCHANGED <<row, sessions, writes, stranded, tokens, hash>>
        /\ \A l \in Conns : sock'[l] \in {"open", "closing"} => sock[l] = sock'[l]
        /\ timer' \subseteq timer \union {joined[k]}
        /\ sock[k] \in {"open", "closing"} /\ SidOf[joined[k]] = SidOf[k]
    BY <1>3, SockTypes DEF ViewerClosed
  <2>2. QED BY <2>1, BackedAsBefore DEF BackInv
<1>4. ASSUME NEW k \in Conns, AgentClosed(k), agent[joined[k]] = k PROVE BackInv'
  <2>1. /\ joined[k] \in Conns /\ SidOf[joined[k]] = SidOf[k]
        /\ CloseSession(joined[k], {k}) /\ Admitted(k)
    BY <1>4, SockTypes DEF AgentClosed, Admitted
  <2>2. QED BY <1>1, <2>1, CloseBacks
<1>5. ASSUME NEW o \in Conns, ViewerGone(o) \/ Idle(o) PROVE BackInv'
  <2>1. pc[SidOf[o]] \notin Early
    BY <1>5, SockTypes DEF ViewerGone, Idle, BackInv
  <2>2. QED BY <1>5, <2>1, CloseBacks DEF ViewerGone, Idle
<1>6. ASSUME NEW s \in Sids, RelayWrite(s) PROVE BackInv'
  <2>1. /\ UNCHANGED <<tokens, sock, timer, sessions, stranded>>
        /\ \A r \in Sids : writes'[r] \subseteq writes[r]
        /\ \A r \in Sids : hash'[r] # "none" => hash[r] # "none"
        /\ \A r \in Sids : r # s => writes'[r] = writes[r] /\ row'[r] = row[r]
    <3>1. CASE RelayUpdate(s)
      BY <3>1, RelayTypesOf, StoreTypes DEF RelayUpdate, UpdateRow
    <3>2. CASE RelayDel(s)
      BY <3>2, RelayTypesOf, StoreTypes DEF RelayDel
    <3>3. QED BY <1>6, <3>1, <3>2 DEF RelayWrite
  <2>2. ASSUME row'[s] = "active" \/ ("active" \in writes'[s] /\ row'[s] \in NotYetActive)
        PROVE  Backed(s)'
    <3>1. CASE "closed" \in writes'[s] BY <3>1 DEF Backed
    <3>2. CASE "closed" \in writes[s] /\ "closed" \notin writes'[s]
      <4>1. UpdateRow(s, LiveRow, "closed")
        BY <1>6, <3>2, RelayTypesOf DEF RelayWrite, RelayUpdate, RelayDel
      <4>2. QED BY <2>2, <4>1, StoreTypes DEF UpdateRow, LiveRow, NotYetActive
    <3>3. CASE "closed" \notin writes[s]
      <4>1. row'[s] = row[s] \/ ("active" \in writes[s] /\ row[s] \in NotYetActive)
        BY <1>6, <3>3, StoreTypes DEF RelayWrite, RelayUpdate, RelayDel, UpdateRow
      <4>2. row[s] = "active" \/ ("active" \in writes[s] /\ row[s] \in NotYetActive)
        BY <2>1, <2>2, <4>1
      <4>3. Backed(s) BY <4>2 DEF BackInv
      <4>4. QED BY <2>1, <3>3, <4>3 DEF Backed
    <3>4. QED BY <3>1, <3>2, <3>3
  <2>3. QED BY <2>1, <2>2 DEF BackInv, Backed
<1>7. CASE Crash
  <2>1. /\ UNCHANGED <<row, tokens, hash>> /\ timer' = {} /\ stranded = {}
        /\ \A r \in Sids : sessions'[r] = None /\ writes'[r] = {}
        /\ \A k \in Conns : sock'[k] \notin {"open", "closing"}
        /\ \A r \in Sids : writes[r] # {} \/ (\E k \in Conns :
             SidOf[k] = r /\ sessions[r] = k) => r \in stranded'
    BY <1>7 DEF Crash
  <2>2. \A r \in Sids : Backed(r) => r \in stranded'
    BY <2>1, RelayTypesOf DEF Backed
  <2>3. QED BY <2>1, <2>2 DEF BackInv, Backed
<1>8. QED
  BY <1>2, <1>3, <1>4, <1>5, <1>6, <1>7, JoinBacks DEF RelayNext

\* A row that is active, or may become it, has its session in rc-relay, an
\* end on its way, or a crash to blame.
THEOREM RowsAreBacked == Spec => []BackInv
<1>1. Init => BackInv
  BY ConnsAssumption
  DEF Init, SessionsInit, StoreInit, RelayInit, BackInv, Backed, NotYetActive
<1>2. TypeOK /\ TokenInv /\ MapInv /\ BackInv /\ [Next]_vars => BackInv'
  <2> SUFFICES ASSUME TypeOK, TokenInv, MapInv, BackInv, [Next]_vars PROVE BackInv'
    OBVIOUS
  <2>1. CASE SessionsNext /\ UNCHANGED relayVars BY <2>1, ApiBacks
  <2>2. CASE RelayNext /\ UNCHANGED apiVars BY <2>2, RelayBacks
  <2>3. CASE UNCHANGED vars
    BY <2>3 DEF vars, storeVars, apiVars, relayVars, BackInv, Backed
  <2>4. QED BY <2>1, <2>2, <2>3 DEF Next
<1>3. QED BY <1>1, <1>2, TypeCorrect, TokenIsAccountedFor, MapIsAccountedFor, PTL DEF Spec

\* No row stays active for a session that rc-relay has let go of.
THEOREM ActiveRowsAreBacked == Spec => []ActiveIsBacked
<1>1. BackInv => ActiveIsBacked
  BY DEF BackInv, Backed, ActiveIsBacked
<1>2. QED BY <1>1, RowsAreBacked, PTL

-----------------------------------------------------------------------------
(* Refinement: a row lives as SessionLife says.                            *)

\* Nothing of a session has reached the agent, a viewer or rc-relay.
Untouched(s) ==
  /\ hash[s] = "none" /\ s \notin tokens /\ agentTok[s] \notin {"issued", "used"}
  /\ sessions[s] = None /\ writes[s] = {}
  /\ \A k \in Conns : SidOf[k] = s => sock[k] \in {"unused", "closed"} /\ k \notin timer

Unplaced == {"probe", "place", "failRow", "catch", "rejected", "aborted"}

\* A row is in 'probing' only before its session is placed, so that no UPDATE
\* to 'active' finds it there.
FreshInv == \A s \in Sids : row[s] = "probing" => pc[s] \in Unplaced /\ Untouched(s)

LEMMA InsertsUntouched ==
  ASSUME TypeOK, TokenInv, MapInv, BackInv, NEW s \in Sids, pc[s] = "insert"
  PROVE  Untouched(s)
<1>1. hash[s] = "none" /\ s \notin tokens /\ sessions[s] = None /\ writes[s] = {}
  BY DEF BackInv, Early
<1>2. agentTok[s] = "none" BY DEF TokenInv, Unpublished
<1>3. ASSUME NEW k \in Conns, SidOf[k] = s
      PROVE  sock[k] \in {"unused", "closed"} /\ k \notin timer
  <2>1. sock[k] \notin {"open", "closing"} /\ k \notin timer
    BY <1>3 DEF BackInv, Early
  <2>2. sock[k] \notin {"pending", "gone"}
    BY <1>2, <1>3 DEF MapInv, TokenInv, Admitted
  <2>3. QED BY <2>1, <2>2, SockTypes
<1>4. QED BY <1>1, <1>2, <1>3 DEF Untouched

\* What rc-api hands out is of sessions that have got further.
LEMMA ApiLeavesUntouched ==
  ASSUME TypeOK, SessionsNext, UNCHANGED relayVars, NEW s \in Sids, Untouched(s),
         pc[s] \in {"insert"} \union Unplaced
  PROVE  Untouched(s)'
<1> USE StoreTypes DEF storeVars, apiVars
<1> DEFINE Kept == /\ hash'[s] = "none" /\ s \notin tokens'
                   /\ agentTok'[s] \notin {"issued", "used"}
<1>1. DOMAIN agentTok = Sids BY SockTypes
<1>2. ASSUME NEW r \in Sids, StartStep(r) \/ Abort(r) PROVE Kept
  <2>1. CASE HSet(r) BY <2>1 DEF HSet, Step, Untouched, Unplaced
  <2>2. CASE Expire(r) BY <2>2 DEF Expire, Step, Untouched
  <2>3. CASE Publish(r) BY <1>1, <2>3 DEF Publish, Step, Untouched, Unplaced
  <2>4. CASE Verify(r) BY <2>4 DEF Verify, Step, Mine, Untouched
  <2>5. CASE ~(HSet(r) \/ Expire(r) \/ Publish(r) \/ Verify(r))
    BY <1>2, <2>5
    DEF StartStep, Abort, Acquire, Occupied, Check, Insert, Probe, Place, Catch, FailRow,
        FailDel, Lookup, Untouched
  <2>6. QED BY <2>1, <2>2, <2>3, <2>4, <2>5
<1>3. ASSUME NEW r \in Sids, CloseStep(r) PROVE Kept
  BY <1>3 DEF CloseStep, CloseSelect, CloseUpdate, CloseDel, CloseAbort, Untouched
<1>4. ASSUME NEW d \in Devices, RemoveStep(d) PROVE Kept
  BY <1>4
  DEF RemoveStep, RemoveRead, RemoveDel, RemoveRows, RemoveDevice, RemoveAbort, EnsureDevice,
      Untouched
<1>5. ASSUME Expiry PROVE Kept
  BY <1>1, <1>5
  DEF Expiry, LockExpires, HashExpires, AgentTokenExpires, ViewerTokenExpires, Untouched
<1>6. Kept BY <1>2, <1>3, <1>4, <1>5, BoundsAssumption DEF SessionsNext
<1>7. QED BY <1>6 DEF Untouched, relayVars

\* Whom rc-relay lets in has a token, and what it closes was joined.
LEMMA RelayLeavesUntouched ==
  ASSUME TypeOK, RelayNext, UNCHANGED apiVars, NEW s \in Sids, Untouched(s)
  PROVE  Untouched(s)'
<1> USE DEF storeVars
<1>1. ASSUME NEW o \in Conns, NEW D, CloseSession(o, D), SidOf[o] # s PROVE Untouched(s)'
  BY <1>1, RelayTypesOf, StoreTypes, SockTypes DEF CloseSession, Untouched
<1>2. ASSUME NEW k \in Conns, AgentConnect(k) PROVE Untouched(s)'
  BY <1>2, SockTypes DEF AgentConnect, Untouched
<1>3. ASSUME NEW k \in Conns,
             \/ AgentRefused(k) \/ PendingDrops(k)
             \/ AgentClosed(k) /\ agent[joined[k]] # k
      PROVE  Untouched(s)'
  BY <1>3, SockTypes DEF AgentRefused, PendingDrops, AgentClosed, Untouched
<1>4. ASSUME NEW k \in Conns, AgentJoin(k) \/ ViewerConnect(k) PROVE Untouched(s)'
  <2>1. SidOf[k] # s BY <1>4 DEF AgentJoin, ViewerConnect, Untouched
  <2>2. GetOrCreate(k) \in Conns /\ SidOf[GetOrCreate(k)] = SidOf[k]
    BY SockTypes DEF GetOrCreate
  <2>3. /\ UNCHANGED <<hash, tokens, agentTok>> /\ timer' \subseteq timer
        /\ \A l \in Conns : l # k => sock'[l] = sock[l]
        /\ sessions'[s] = sessions[s] /\ writes'[s] = writes[s]
    BY <1>4, <2>1, <2>2, RelayTypesOf, SockTypes DEF AgentJoin, ViewerConnect, MarkActive
  <2>4. QED BY <2>1, <2>3 DEF Untouched
<1>5. ASSUME NEW k \in Conns, AgentClosed(k), agent[joined[k]] = k PROVE Untouched(s)'
  <2>1. joined[k] \in Conns /\ SidOf[joined[k]] = SidOf[k] /\ SidOf[k] # s
    BY <1>5, SockTypes DEF AgentClosed, Untouched
  <2>2. QED BY <1>1, <1>5, <2>1 DEF AgentClosed
<1>6. ASSUME NEW k \in Conns, ViewerClosed(k) PROVE Untouched(s)'
  <2>1. SidOf[joined[k]] = SidOf[k] /\ SidOf[k] # s
    BY <1>6, SockTypes DEF ViewerClosed, Untouched
  <2>2. QED BY <1>6, <2>1, SockTypes DEF ViewerClosed, Untouched
<1>7. ASSUME NEW o \in Conns, ViewerGone(o) \/ Idle(o) PROVE Untouched(s)'
  <2>1. SidOf[o] # s BY <1>7, SockTypes DEF ViewerGone, Idle, Untouched
  <2>2. QED BY <1>1, <1>7, <2>1 DEF ViewerGone, Idle
<1>8. ASSUME NEW r \in Sids, RelayWrite(r) PROVE Untouched(s)'
  <2>1. CASE RelayUpdate(r) BY <2>1, RelayTypesOf DEF RelayUpdate, Untouched
  <2>2. CASE RelayDel(r) BY <2>2, RelayTypesOf, StoreTypes DEF RelayDel, Untouched
  <2>3. QED BY <1>8, <2>1, <2>2 DEF RelayWrite
<1>9. CASE Crash BY <1>9 DEF Crash, Untouched
<1>10. QED
  BY <1>2, <1>3, <1>4, <1>5, <1>6, <1>7, <1>8, <1>9 DEF RelayNext

\* Where a start goes while its row is in 'probing'.
LEMMA StaysUnplaced ==
  ASSUME TypeOK, RowInv, [Next]_vars, NEW s \in Sids, row'[s] = "probing",
         pc[s] \in {"insert"} \union Unplaced, pc[s] = "insert" \/ row[s] = "probing"
  PROVE  pc'[s] \in Unplaced
<1> USE StoreTypes DEF storeVars, apiVars, Unplaced, Step
<1>1. ASSUME NEW r \in Sids, StartStep(r) \/ Abort(r) PROVE pc'[s] \in Unplaced
  <2>1. CASE r = s
    <3>1. CASE Insert(s) BY <3>1 DEF Insert, RowInv
    <3>2. CASE Place(s) BY <3>2 DEF Place, UpdateRow, AnyRow, RowStates
    <3>3. CASE FailRow(s) BY <3>3 DEF FailRow, UpdateRow, AnyRow, RowStates
    <3>4. CASE ~(Insert(s) \/ Place(s) \/ FailRow(s))
      BY <1>1, <2>1, <3>4
      DEF StartStep, Abort, Acquire, Occupied, Check, Probe, HSet, Expire, Publish, Catch,
          FailDel, Lookup, Verify, RowInv
    <3>5. QED BY <3>1, <3>2, <3>3, <3>4
  <2>2. CASE r # s
    <3>1. pc'[s] = pc[s] /\ row'[s] = row[s]
      BY <1>1, <2>2
      DEF StartStep, Abort, Acquire, Occupied, Check, Insert, Probe, Place, HSet, Expire,
          Publish, Catch, FailRow, FailDel, Lookup, Verify, UpdateRow
    <3>2. QED BY <3>1 DEF RowInv
  <2>3. QED BY <2>1, <2>2
<1>2. ASSUME UNCHANGED pc, row[s] = "none" => row'[s] = "none" PROVE pc'[s] \in Unplaced
  BY <1>2 DEF RowInv
<1>3. ASSUME NEW r \in Sids, CloseStep(r) PROVE pc'[s] \in Unplaced
  BY <1>2, <1>3
  DEF CloseStep, CloseSelect, CloseUpdate, CloseDel, CloseAbort, UpdateRow, AnyRow
<1>4. ASSUME NEW d \in Devices, RemoveStep(d) PROVE pc'[s] \in Unplaced
  BY <1>2, <1>4
  DEF RemoveStep, RemoveRead, RemoveDel, RemoveRows, RemoveDevice, RemoveAbort, EnsureDevice
<1>5. ASSUME Expiry PROVE pc'[s] \in Unplaced
  BY <1>2, <1>5 DEF Expiry, LockExpires, HashExpires, AgentTokenExpires, ViewerTokenExpires
<1>6. ASSUME RelayNext, UNCHANGED apiVars PROVE pc'[s] \in Unplaced
  <2>1. row[s] = "none" => row'[s] = "none"
    <3>1. ASSUME NEW r \in Sids, RelayWrite(r) PROVE row[s] = "none" => row'[s] = "none"
      BY <3>1 DEF RelayWrite, RelayUpdate, RelayDel, UpdateRow, NotYetActive, LiveRow
    <3>2. CASE ~ \E r \in Sids : RelayWrite(r)
      BY <1>6, <3>2
      DEF RelayNext, AgentConnect, AgentRefused, PendingDrops, AgentJoin, ViewerConnect,
          AgentClosed, ViewerClosed, ViewerGone, Idle, CloseSession, Crash
    <3>3. QED BY <3>1, <3>2
  <2>2. QED BY <1>2, <1>6, <2>1
<1>7. CASE UNCHANGED vars BY <1>2, <1>7 DEF vars
<1>8. QED
  BY <1>1, <1>3, <1>4, <1>5, <1>6, <1>7, BoundsAssumption DEF Next, SessionsNext

THEOREM RowsAreFresh == Spec => []FreshInv
<1>1. Init => FreshInv BY DEF Init, SessionsInit, StoreInit, FreshInv
<1>2. TypeOK /\ RowInv /\ TokenInv /\ MapInv /\ BackInv /\ FreshInv /\ [Next]_vars => FreshInv'
  <2> SUFFICES ASSUME TypeOK, RowInv, TokenInv, MapInv, BackInv, FreshInv, [Next]_vars,
                      NEW s \in Sids, row'[s] = "probing"
               PROVE  pc'[s] \in Unplaced /\ Untouched(s)'
    BY DEF FreshInv
  <2>1. pc[s] = "insert" \/ row[s] = "probing" BY RowSteps DEF RowStep
  <2>2. pc[s] \in {"insert"} \union Unplaced BY <2>1 DEF FreshInv
  <2>3. Untouched(s) BY <2>1, InsertsUntouched DEF FreshInv
  <2>4. pc'[s] \in Unplaced BY <2>1, <2>2, StaysUnplaced
  <2>5. CASE SessionsNext /\ UNCHANGED relayVars BY <2>2, <2>3, <2>4, <2>5, ApiLeavesUntouched
  <2>6. CASE RelayNext /\ UNCHANGED apiVars BY <2>3, <2>4, <2>6, RelayLeavesUntouched
  <2>7. CASE UNCHANGED vars
    BY <2>3, <2>4, <2>7 DEF vars, storeVars, relayVars, Untouched
  <2>8. QED BY <2>5, <2>6, <2>7 DEF Next
<1>3. QED
  BY <1>1, <1>2, TypeCorrect, RowsAreAccountedFor, TokenIsAccountedFor, MapIsAccountedFor,
     RowsAreBacked, PTL DEF Spec

\* The stage of a start is that of the await it stands at.
Stages == [s \in Sids |-> Stage(pc[s])]

LEMMA StageMoves ==
  ASSUME TypeOK, NEW s \in Sids, NEW to, pc' = [pc EXCEPT ![s] = to]
  PROVE  Stages' = [Stages EXCEPT ![s] = Stage(to)]
<1>1. \A r \in Sids : pc'[r] = IF r = s THEN to ELSE pc[r] BY StoreTypes
<1>2. \A r \in Sids : Stage(pc'[r]) = IF r = s THEN Stage(to) ELSE Stage(pc[r])
  BY <1>1
<1>3. QED BY <1>2 DEF Stages

\* An UPDATE of a row that is there, and only then.
LEMMA RowEnters ==
  ASSUME TypeOK, NEW s \in Sids, NEW new, UpdateRow(s, AnyRow, new)
  PROVE  row' = [row EXCEPT ![s] = IF @ = "none" THEN "none" ELSE new]
BY StoreTypes DEF UpdateRow, AnyRow

\* What a start does to its own row.
LEMMA StartLives ==
  ASSUME TypeOK, NEW s \in Sids, StartStep(s) \/ Abort(s)
  PROVE  \/ Life!Begin(s) \/ Life!Place(s) \/ Life!Fail(s) \/ Life!GiveUp(s)
         \/ UNCHANGED <<row, Stages>>
<1> USE StoreTypes DEF storeVars, Step, Stage
<1>1. ASSUME NEW to, pc' = [pc EXCEPT ![s] = to], UNCHANGED row,
             Stage(to) = Stage(pc[s]) \/ (Stage(pc[s]) # "settled" /\ Stage(to) = "settled")
      PROVE  Life!GiveUp(s) \/ UNCHANGED <<row, Stages>>
  <2>1. Stages' = [Stages EXCEPT ![s] = Stage(to)] BY <1>1, StageMoves
  <2>2. QED BY <1>1, <2>1 DEF Stages, Life!GiveUp, Life!Settle
<1>2. ASSUME NEW to, pc' = [pc EXCEPT ![s] = to], Stage(pc[s]) = "begun",
             Stage(to) = "settled"
      PROVE  /\ UpdateRow(s, AnyRow, "starting") => Life!Place(s)
             /\ UpdateRow(s, AnyRow, "failed") => Life!Fail(s)
  <2>1. Stages' = [Stages EXCEPT ![s] = "settled"] BY <1>2, StageMoves
  <2>2. QED
    BY <1>2, <2>1, RowEnters
    DEF Stages, Life!Place, Life!Fail, Life!Settle, Life!Enter
<1>3. CASE Insert(s)
  <2>1. CASE pc' = [pc EXCEPT ![s] = "probe"]
    <3>1. pc[s] = "insert" /\ row' = [row EXCEPT ![s] = "probing"] BY <1>3, <2>1 DEF Insert
    <3>2. Stages' = [Stages EXCEPT ![s] = "begun"] /\ Stages[s] = "new"
      BY <2>1, <3>1, StageMoves DEF Stages
    <3>3. QED BY <3>1, <3>2 DEF Life!Begin, Stages
  <2>2. CASE pc' # [pc EXCEPT ![s] = "probe"]
    <3>1. pc[s] = "insert" /\ pc' = [pc EXCEPT ![s] = "catch"] /\ UNCHANGED row
      BY <1>3, <2>2 DEF Insert
    <3>2. QED BY <1>1, <3>1
  <2>3. QED BY <2>1, <2>2
<1>4. CASE Place(s)
  <2>1. CASE pc' = [pc EXCEPT ![s] = "hset"] BY <1>2, <1>4, <2>1 DEF Place
  <2>2. CASE pc' # [pc EXCEPT ![s] = "hset"]
    <3>1. pc[s] = "place" /\ pc' = [pc EXCEPT ![s] = "catch"] /\ UNCHANGED row
      BY <1>4, <2>2 DEF Place
    <3>2. QED BY <1>1, <3>1
  <2>3. QED BY <2>1, <2>2
<1>5. CASE FailRow(s) BY <1>2, <1>5 DEF FailRow
<1>6. CASE Probe(s) BY <1>1, <1>6 DEF Probe
<1>7. CASE Abort(s) BY <1>1, <1>7 DEF Abort, InFlight
<1>8. CASE Check(s) BY <1>1, <1>8 DEF Check
<1>9. CASE ~(Insert(s) \/ Place(s) \/ FailRow(s) \/ Probe(s) \/ Abort(s) \/ Check(s))
  <2>1. \E to : /\ pc' = [pc EXCEPT ![s] = to] /\ UNCHANGED row
                /\ \/ pc[s] = "new" /\ to \in {"check", "lookup"}
                   \/ Stage(pc[s]) = "settled" /\ Stage(to) = "settled"
    BY <1>9
    DEF StartStep, Acquire, Occupied, HSet, Expire, Publish, Catch, FailDel, Lookup, Verify
  <2>2. PICK to : /\ pc' = [pc EXCEPT ![s] = to] /\ UNCHANGED row
                  /\ \/ pc[s] = "new" /\ to \in {"check", "lookup"}
                     \/ Stage(pc[s]) = "settled" /\ Stage(to) = "settled"
    BY <2>1
  <2>3. QED BY <1>1, <2>2
<1>10. QED BY <1>3, <1>4, <1>5, <1>6, <1>7, <1>8, <1>9

\* What everybody else does to rows.
LEMMA OthersLive ==
  ASSUME TypeOK, FreshInv, UNCHANGED Stages,
         \/ \E s \in Sids : CloseStep(s) \/ RelayWrite(s)
         \/ \E d \in Devices : RemoveStep(d)
  PROVE  [Life!Next]_(Life!lifeVars)
<1> USE StoreTypes DEF storeVars
<1>1. ASSUME NEW s \in Sids, CloseStep(s) PROVE Life!Close(s) \/ UNCHANGED row
  <2>1. CASE CloseUpdate(s)
    BY <2>1, RowEnters DEF CloseUpdate, Life!Close, Life!Enter, Stages
  <2>2. CASE ~CloseUpdate(s)
    BY <1>1, <2>2 DEF CloseStep, CloseSelect, CloseDel, CloseAbort
  <2>3. QED BY <2>1, <2>2
<1>2. ASSUME NEW s \in Sids, RelayWrite(s)
      PROVE  Life!Activate(s) \/ Life!Close(s) \/ UNCHANGED row
  <2>1. CASE UpdateRow(s, NotYetActive, "active") /\ "active" \in writes[s]
    <3>1. row[s] # "probing" BY <2>1 DEF FreshInv, Untouched
    <3>2. QED BY <2>1, <3>1 DEF UpdateRow, NotYetActive, Life!Activate, Stages
  <2>2. CASE UpdateRow(s, LiveRow, "closed") /\ row[s] \in LiveRow
    <3>1. row' = [row EXCEPT ![s] = IF @ = "none" THEN "none" ELSE "closed"]
      BY <2>2 DEF UpdateRow, LiveRow
    <3>2. QED BY <3>1 DEF Life!Close, Life!Enter, Stages
  <2>3. QED BY <1>2, <2>1, <2>2 DEF RelayWrite, RelayUpdate, RelayDel, UpdateRow
<1>3. ASSUME NEW d \in Devices, RemoveStep(d) PROVE Life!Forget(d) \/ UNCHANGED row
  <2>1. CASE RemoveRows(d) BY <2>1 DEF RemoveRows, Life!Forget, Stages
  <2>2. CASE ~RemoveRows(d)
    BY <1>3, <2>2
    DEF RemoveStep, RemoveRead, RemoveDel, RemoveDevice, RemoveAbort, EnsureDevice
  <2>3. QED BY <2>1, <2>2
<1>4. UNCHANGED row => UNCHANGED Life!lifeVars BY DEF Life!lifeVars, Stages
<1>5. QED BY <1>1, <1>2, <1>3, <1>4 DEF Life!Next

\* Whatever rc-api, rc-relay and the broker's late messages do, and wherever
\* they die, the row of a session lives as the abstract one does.
THEOREM RowsLive == Spec => LifeSpec
<1>1. Init => Life!Init
  BY DEF Init, SessionsInit, StoreInit, Life!Init, Stage
<1>2. TypeOK /\ FreshInv /\ [Next]_vars => [Life!Next]_(Life!lifeVars)
  <2> SUFFICES ASSUME TypeOK, FreshInv, [Next]_vars PROVE [Life!Next]_(Life!lifeVars)
    OBVIOUS
  <2> USE StoreTypes DEF storeVars, apiVars
  <2>1. ASSUME NEW s \in Sids, StartStep(s) \/ Abort(s) PROVE [Life!Next]_(Life!lifeVars)
    BY <2>1, StartLives DEF Life!Next, Life!lifeVars, Stages
  <2>2. UNCHANGED pc => UNCHANGED Stages BY DEF Stages
  <2>3. ASSUME UNCHANGED <<row, pc>> PROVE [Life!Next]_(Life!lifeVars)
    BY <2>2, <2>3 DEF Life!lifeVars, Stages
  <2>4. ASSUME NEW s \in Sids, CloseStep(s) PROVE [Life!Next]_(Life!lifeVars)
    <3>1. UNCHANGED pc
      BY <2>4 DEF CloseStep, CloseSelect, CloseUpdate, CloseDel, CloseAbort
    <3>2. QED BY <2>2, <2>4, <3>1, OthersLive
  <2>5. ASSUME NEW d \in Devices, RemoveStep(d) PROVE [Life!Next]_(Life!lifeVars)
    <3>1. UNCHANGED pc
      BY <2>5
      DEF RemoveStep, RemoveRead, RemoveDel, RemoveRows, RemoveDevice, RemoveAbort,
          EnsureDevice
    <3>2. QED BY <2>2, <2>5, <3>1, OthersLive
  <2>6. ASSUME Expiry PROVE [Life!Next]_(Life!lifeVars)
    BY <2>3, <2>6 DEF Expiry, LockExpires, HashExpires, AgentTokenExpires, ViewerTokenExpires
  <2>7. ASSUME RelayNext, UNCHANGED apiVars PROVE [Life!Next]_(Life!lifeVars)
    <3>1. ASSUME NEW s \in Sids, RelayWrite(s) PROVE [Life!Next]_(Life!lifeVars)
      BY <2>2, <2>7, <3>1, OthersLive
    <3>2. CASE ~ \E s \in Sids : RelayWrite(s)
      BY <2>3, <2>7, <3>2
      DEF RelayNext, AgentConnect, AgentRefused, PendingDrops, AgentJoin, ViewerConnect,
          AgentClosed, ViewerClosed, ViewerGone, Idle, CloseSession, Crash
    <3>3. QED BY <3>1, <3>2
  <2>8. CASE UNCHANGED vars BY <2>3, <2>8 DEF vars
  <2>9. QED
    BY <2>1, <2>4, <2>5, <2>6, <2>7, <2>8, BoundsAssumption DEF Next, SessionsNext
<1>3. QED
  BY <1>1, <1>2, TypeCorrect, RowsAreFresh, PTL DEF Spec, LifeSpec, Life!Spec
=============================================================================
