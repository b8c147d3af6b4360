-------------------------- MODULE FleetViews_proofs --------------------------
(***************************************************************************)
(* Every view of the fleet says the same of a device, and every figure     *)
(* opens the devices it counts, whatever rows and hashes are reached.      *)
(***************************************************************************)
EXTENDS Fleet_proofs, WellFoundedInduction

(* Types.                                                                  *)

\* Who reports capabilities reports a version.
Reports(m)  == m.caps # None => m.agentVer # None
RowTyped(r) == r.seen \in {"never", "recent", "long"} /\ (r.caps = None <=> r.agentVer = None)
HashFields  == VOLATILE \union HW_FIELDS \union {"online"}
IsStat(s)   == s = [session |-> s.session, drops |-> s.drops] /\ s.drops \in Nat

RowsTyped == \A d \in Devices : (rows[d] # None => RowTyped(rows[d])) /\ Reports(retained[d])
HashTyped == \A d \in Devices : live[d] # None => DOMAIN live[d] \subseteq HashFields
StatTyped == stat = [d \in Devices |-> stat[d]] /\ \A d \in Devices : IsStat(stat[d])
SetsTyped ==
  /\ conn \subseteq Devices /\ mdm \subseteq Devices
  /\ sync.todo \subseteq sync.list /\ sync.list \subseteq Devices
  /\ verdict \in {None, 0, 1}

FleetInv == Hidden /\ Retention /\ RowsTyped /\ HashTyped /\ StatTyped /\ SetsTyped

LEMMA FullReports ==
  ASSUME NEW d \in Devices, NEW s \in States[d]
  PROVE  Full(s).caps = s.caps /\ Full(s).agentVer = s.agentVer /\ Reports(Full(s))
BY FleetAssumption DEF Full, Reports

LEMMA BeatReports ==
  ASSUME NEW v
  PROVE  Heartbeat(v).caps = None /\ Reports(Heartbeat(v))
BY DEF Heartbeat, Reports

LEMMA WillReports == Will.caps = None /\ Reports(Will)
BY BeatReports DEF Will

\* What a message makes of a row.
LEMMA RowAfterTyped ==
  ASSUME Rows, RowsTyped, NEW d \in Devices, NEW m, Reports(m)
  PROVE  RowTyped(RowAfter(d, m))
<1>1. RowOf(d).caps = None <=> RowOf(d).agentVer = None
  BY DEF RowOf, NewRow, RowsTyped, RowTyped
<1>2. /\ RowAfter(d, m).caps = IF m.caps = None THEN RowOf(d).caps ELSE m.caps
      /\ RowAfter(d, m).agentVer = IF m.caps = None THEN RowOf(d).agentVer ELSE m.agentVer
      /\ RowAfter(d, m).seen = "recent"
  BY RowAfterIs
<1>3. QED BY <1>1, <1>2 DEF RowTyped, Reports

LEMMA RowsStep ==
  ASSUME FleetInv, [FleetNext]_fleetVars
  PROVE  RowsTyped'
<1> USE DEF FleetInv, RowsTyped, tablets, ingest, headwind, histories, World
<1>1. Rows /\ retained = [d \in Devices |-> retained[d]] BY DEF Hidden, Retention
<1>2. ASSUME NEW d \in Devices, NEW m, NEW rest, Reports(m),
             rows' \in {rows, [rows EXCEPT ![d] = RowAfter(d, m)]},
             Reports(rest), retained' \in {retained, [retained EXCEPT ![d] = rest]}
      PROVE  RowsTyped'
  BY <1>1, <1>2, RowAfterTyped DEF Rows
<1>3. ASSUME NEW d \in Devices, Connect(d) \/ Disconnect(d) PROVE RowsTyped'
  <2>1. PICK m : /\ Reports(m) /\ retained' = [retained EXCEPT ![d] = m]
                 /\ rows' \in {rows, [rows EXCEPT ![d] = RowAfter(d, m)]}
    BY <1>3, FullReports, WillReports DEF Connect, Disconnect, Deliver, Handle
  <2>2. QED BY <1>2, <2>1
<1>4. ASSUME NEW d \in Devices, Beat(d) \/ Replay(d) PROVE RowsTyped'
  <2>1. PICK m : /\ Reports(m) /\ retained' = retained
                 /\ rows' = [rows EXCEPT ![d] = RowAfter(d, m)]
    BY <1>4, BeatReports DEF Beat, Replay, Handle
  <2>2. QED BY <1>2, <2>1
<1>5. ASSUME NEW d \in Devices, FactoryReset(d) PROVE RowsTyped'
  <2>1. rows[d] # None /\ rows[d].caps # None /\ IsRow(rows[d])
    BY <1>1, <1>5 DEF FactoryReset, Rows
  <2>2. PICK s \in States[d] :
          /\ rows' = [rows EXCEPT ![d].seen = "recent", ![d].needs = TRUE,
                                  ![d].caps = ResetCaps]
          /\ retained' = [retained EXCEPT ![d] = Full(s)]
    BY <1>5, Zenon DEF FactoryReset
  <2>3. RowTyped([stale |-> rows[d].stale, needs |-> TRUE, caps |-> ResetCaps,
                  agentVer |-> rows[d].agentVer, seen |-> "recent"])
    BY <2>1, ResetIsSome DEF RowTyped
  <2>4. [rows[d] EXCEPT !.seen = "recent", !.needs = TRUE, !.caps = ResetCaps] =
          [stale |-> rows[d].stale, needs |-> TRUE, caps |-> ResetCaps,
           agentVer |-> rows[d].agentVer, seen |-> "recent"]
    BY <2>1, RowEdits
  <2>5. \A e \in Devices :
          IF e = d
          THEN rows'[e] = [stale |-> rows[d].stale, needs |-> TRUE, caps |-> ResetCaps,
                           agentVer |-> rows[d].agentVer, seen |-> "recent"]
          ELSE rows'[e] = rows[e]
    BY <1>1, <2>2, <2>4 DEF Rows
  <2>6. \A e \in Devices : rows'[e] # None => RowTyped(rows'[e]) BY <2>3, <2>5
  <2>7. \A e \in Devices : Reports(retained'[e]) BY <1>1, <2>2, FullReports
  <2>8. QED BY <2>6, <2>7
<1>6. ASSUME NEW d \in Devices, Age(d) PROVE RowsTyped'
  <2>1. rows[d] # None /\ IsRow(rows[d]) BY <1>1, <1>6 DEF Age, Rows
  <2>2. rows' = [rows EXCEPT ![d] = [rows[d] EXCEPT !.seen = "long"]] /\ UNCHANGED retained
    BY <1>6 DEF Age
  <2>3. RowTyped([stale |-> rows[d].stale, needs |-> rows[d].needs, caps |-> rows[d].caps,
                  agentVer |-> rows[d].agentVer, seen |-> "long"])
    BY <2>1 DEF RowTyped
  <2>4. QED BY <1>1, <2>1, <2>2, <2>3, RowEdits DEF Rows
<1>7. ASSUME NEW d \in Devices, Remove(d) PROVE RowsTyped'
  BY <1>1, <1>7 DEF Remove, Rows
<1>8. ASSUME NEW d \in Devices, rows[d] # None, NEW b \in BOOLEAN
      PROVE  RowTyped([rows[d] EXCEPT !.stale = b])
  <2>1. IsRow(rows[d]) BY <1>1, <1>8 DEF Rows
  <2>2. RowTyped([stale |-> b, needs |-> rows[d].needs, caps |-> rows[d].caps,
                  agentVer |-> rows[d].agentVer, seen |-> rows[d].seen])
    BY <1>8 DEF RowTyped
  <2>3. QED BY <2>1, <2>2, RowEdits
<1>9. ASSUME NEW d \in Devices, SyncRow(d) PROVE RowsTyped'
  <2>1. UNCHANGED retained BY <1>9 DEF SyncRow
  <2>2. CASE rows[d] = None
    <3>1. rows' = [rows EXCEPT ![d] = NewRow] BY <1>9, <2>2 DEF SyncRow
    <3>2. QED BY <1>1, <2>1, <3>1 DEF Rows, NewRow, RowTyped
  <2>3. CASE rows[d] # None
    <3>1. rows' = [rows EXCEPT ![d] = [rows[d] EXCEPT !.stale = FALSE]]
      BY <1>9, <2>3 DEF SyncRow
    <3>2. QED BY <1>1, <1>8, <2>1, <2>3, <3>1 DEF Rows
  <2>4. QED BY <2>2, <2>3
<1>10. CASE HideOthers
  <2>1. UNCHANGED retained BY <1>10 DEF HideOthers
  <2>2. CASE UNCHANGED rows BY <2>1, <2>2
  <2>3. CASE Hide(sync.list)
    <3>1. \A d \in Devices : rows'[d] = rows[d] \/
            (rows[d] # None /\ rows'[d] = [rows[d] EXCEPT !.stale = TRUE])
      BY <2>3 DEF Hide, Known
    <3>2. QED BY <1>8, <2>1, <3>1
  <2>4. QED BY <1>10, <2>2, <2>3 DEF HideOthers
<1>11. CASE UNCHANGED <<rows, retained>> BY <1>11
<1>12. ASSUME NEW d \in Devices, Expire(d) \/ Session(d) \/ Enrol(d) PROVE RowsTyped'
  BY <1>11, <1>12 DEF Expire, Session, Enrol
<1>13. CASE Stop \/ Start \/ Judge \/ Search \/ SyncFails
  BY <1>11, <1>13 DEF Stop, Start, Judge, Search, SyncFails
<1>14. CASE UNCHANGED fleetVars BY <1>11, <1>14 DEF fleetVars
<1>15. QED
  BY <1>3, <1>4, <1>5, <1>6, <1>7, <1>9, <1>10, <1>12, <1>13, <1>14 DEF FleetNext

-----------------------------------------------------------------------------
(* The hash has fields ingest writes.                                      *)

LEMMA WriteFields ==
  ASSUME NEW h, NEW m, DOMAIN h \subseteq HashFields
  PROVE  DOMAIN writeLive(h, m) \subseteq HashFields
<1>1. DOMAIN liveHashPatch(m) = VOLATILE \union (DOMAIN m \intersect {"online"})
  BY DEF liveHashPatch
<1>2. hwLivePatch(m).set \subseteq HW_FIELDS BY DEF hwLivePatch, Readable
<1>3. DOMAIN writeLive(h, m) \subseteq
        DOMAIN h \union DOMAIN liveHashPatch(m) \union hwLivePatch(m).set
  BY DEF writeLive
<1>4. QED BY <1>1, <1>2, <1>3 DEF HashFields

LEMMA HashStep ==
  ASSUME FleetInv, [FleetNext]_fleetVars
  PROVE  HashTyped'
<1> USE DEF FleetInv, HashTyped, tablets, ingest, headwind, histories, World
<1>1. live = [d \in Devices |-> live[d]] BY DEF Retention
<1>2. ASSUME NEW d \in Devices, NEW m, live' = [live EXCEPT ![d] = writeLive(Hash(d), m)]
      PROVE  HashTyped'
  <2>1. DOMAIN Hash(d) \subseteq HashFields BY DEF Hash, NoHash
  <2>2. QED BY <1>1, <1>2, <2>1, WriteFields
<1>3. CASE UNCHANGED live BY <1>3
<1>4. ASSUME NEW d \in Devices, Connect(d) \/ Beat(d) \/ Disconnect(d) \/ Replay(d)
                                \/ FactoryReset(d)
      PROVE  HashTyped'
  <2>1. UNCHANGED live \/ \E m : live' = [live EXCEPT ![d] = writeLive(Hash(d), m)]
    BY <1>4 DEF Connect, Beat, Disconnect, Replay, FactoryReset, Deliver, Handle, HandleLive
  <2>2. QED BY <1>2, <1>3, <2>1
<1>5. ASSUME NEW d \in Devices, Expire(d) \/ Remove(d) PROVE HashTyped'
  BY <1>1, <1>5 DEF Expire, Remove
<1>6. ASSUME NEW d \in Devices, Age(d) \/ Session(d) \/ Enrol(d) \/ SyncRow(d)
      PROVE  HashTyped'
  BY <1>3, <1>6 DEF Age, Session, Enrol, SyncRow
<1>7. CASE Stop \/ Start \/ Judge \/ Search \/ HideOthers \/ SyncFails
  BY <1>3, <1>7 DEF Stop, Start, Judge, Search, HideOthers, SyncFails
<1>8. CASE UNCHANGED fleetVars BY <1>3, <1>8 DEF fleetVars
<1>9. QED BY <1>4, <1>5, <1>6, <1>7, <1>8 DEF FleetNext

LEMMA StatStep ==
  ASSUME FleetInv, [FleetNext]_fleetVars
  PROVE  StatTyped'
<1> USE DEF FleetInv, StatTyped, tablets, ingest, headwind, histories, World
<1>1. CASE UNCHANGED stat BY <1>1
<1>2. ASSUME NEW d \in Devices, NEW q, IsStat(q), stat' = [stat EXCEPT ![d] = q]
      PROVE  StatTyped'
  BY <1>2
<1>3. ASSUME NEW d \in Devices
      PROVE  /\ IsStat(NoStat) /\ IsStat([stat[d] EXCEPT !.drops = @ + 1])
             /\ \A x : IsStat([stat[d] EXCEPT !.session = x])
  <2>1. PICK n \in Nat : \E s : stat[d] = [session |-> s, drops |-> n]
    BY <1>3 DEF IsStat
  <2> PICK s : stat[d] = [session |-> s, drops |-> n] BY <2>1
  <2>2. [stat[d] EXCEPT !.drops = @ + 1] = [session |-> s, drops |-> n + 1] OBVIOUS
  <2>3. \A x : [stat[d] EXCEPT !.session = x] = [session |-> x, drops |-> n] OBVIOUS
  <2>4. IsStat(NoStat) BY DEF NoStat, IsStat
  <2>5. n + 1 \in Nat OBVIOUS
  <2>6. QED BY <2>2, <2>3, <2>4, <2>5 DEF IsStat
<1>4. ASSUME NEW d \in Devices, Disconnect(d) PROVE StatTyped'
  <2>1. UNCHANGED stat \/ stat' = [stat EXCEPT ![d] = [stat[d] EXCEPT !.drops = @ + 1]]
    BY <1>4 DEF Disconnect
  <2>2. QED BY <1>1, <1>2, <1>3, <2>1
<1>5. ASSUME NEW d \in Devices, Age(d) \/ Session(d) PROVE StatTyped'
  <2>1. \E x : stat' = [stat EXCEPT ![d] = [stat[d] EXCEPT !.session = x]]
    BY <1>5 DEF Age, Session
  <2>2. QED BY <1>2, <1>3, <2>1
<1>6. ASSUME NEW d \in Devices, Remove(d) PROVE StatTyped'
  BY <1>2, <1>3, <1>6 DEF Remove
<1>7. ASSUME NEW d \in Devices, Connect(d) \/ Beat(d) \/ Replay(d) \/ FactoryReset(d)
                                \/ Expire(d) \/ Enrol(d) \/ SyncRow(d)
      PROVE  StatTyped'
  BY <1>1, <1>7 DEF Connect, Beat, Replay, FactoryReset, Expire, Enrol, SyncRow
<1>8. CASE Stop \/ Start \/ Judge \/ Search \/ HideOthers \/ SyncFails
  BY <1>1, <1>8 DEF Stop, Start, Judge, Search, HideOthers, SyncFails
<1>9. CASE UNCHANGED fleetVars BY <1>1, <1>9 DEF fleetVars
<1>10. QED BY <1>4, <1>5, <1>6, <1>7, <1>8, <1>9 DEF FleetNext

LEMMA SetsStep ==
  ASSUME FleetInv, [FleetNext]_fleetVars
  PROVE  SetsTyped'
<1> USE DEF FleetInv, SetsTyped, tablets, ingest, headwind, histories, World
<1>1. sync = [pc |-> sync.pc, list |-> sync.list, todo |-> sync.todo]
  BY DEF Hidden, Synced
<1>2. ASSUME NEW d \in Devices, \/ Connect(d) \/ Beat(d) \/ Disconnect(d) \/ FactoryReset(d)
                                \/ Replay(d) \/ Expire(d) \/ Age(d) \/ Session(d) \/ Remove(d)
      PROVE  SetsTyped'
  <2>1. UNCHANGED <<mdm, sync, verdict>> /\ conn' \subseteq conn \union {d}
    BY <1>2 DEF Connect, Beat, Disconnect, FactoryReset, Replay, Expire, Age, Session, Remove
  <2>2. QED BY <2>1
<1>3. ASSUME NEW d \in Devices, Enrol(d) PROVE SetsTyped'
  BY <1>3 DEF Enrol
<1>4. ASSUME NEW d \in Devices, SyncRow(d) PROVE SetsTyped'
  <2>1. sync' = [sync EXCEPT !.todo = @ \ {d}] /\ UNCHANGED <<conn, mdm, verdict>>
    BY <1>4 DEF SyncRow
  <2>2. QED BY <1>1, <2>1
<1>5. CASE Search BY <1>5 DEF Search
<1>6. CASE HideOthers \/ SyncFails BY <1>6 DEF HideOthers, SyncFails, NoSync
<1>7. CASE Stop \/ Start BY <1>7 DEF Stop, Start
<1>8. CASE Judge BY <1>8 DEF Judge
<1>9. CASE UNCHANGED fleetVars BY <1>9 DEF fleetVars
<1>10. QED
  BY <1>2, <1>3, <1>4, <1>5, <1>6, <1>7, <1>8, <1>9 DEF FleetNext

LEMMA FleetInvInit == FleetInit => FleetInv
<1> SUFFICES ASSUME FleetInit PROVE FleetInv OBVIOUS
<1>1. RowsTyped
  <2> SUFFICES ASSUME NEW d \in Devices PROVE RowTyped(rows[d]) /\ Reports(retained[d])
    BY DEF RowsTyped
  <2>1. Initial[d] \in States[d] BY FleetAssumption
  <2>2. Initial[d].caps # None /\ Initial[d].agentVer # None BY <2>1, FleetAssumption
  <2>3. RowTyped(rows[d]) BY <2>2, RowsInit DEF RowTyped
  <2>4. retained[d] = Full(Initial[d]) BY DEF FleetInit
  <2>5. QED BY <2>1, <2>3, <2>4, FullReports
<1>2. HashTyped
  <2> SUFFICES ASSUME NEW d \in Devices PROVE DOMAIN live[d] \subseteq HashFields
    BY DEF HashTyped
  <2>1. live[d] = writeLive(NoHash, Full(Initial[d]).msg) BY DEF FleetInit
  <2>2. DOMAIN NoHash \subseteq HashFields BY DEF NoHash
  <2>3. QED BY <2>1, <2>2, WriteFields
<1>3. StatTyped
  <2> SUFFICES ASSUME NEW d \in Devices PROVE IsStat(stat[d])
    BY DEF StatTyped, FleetInit
  <2>1. stat[d] = [session |-> "never", drops |-> Drops[d]] BY DEF FleetInit, NoStat
  <2>2. QED BY <2>1, FleetAssumption DEF IsStat
<1>4. SetsTyped BY DEF SetsTyped, FleetInit, NoSync
<1>5. QED BY <1>1, <1>2, <1>3, <1>4, RetentionInit, HiddenInit DEF FleetInv

\* The views are about these states only.
THEOREM FleetInvHolds == FleetSpec => []FleetInv
<1>1. FleetInv /\ [FleetNext]_fleetVars => FleetInv'
  BY HiddenStep, RetentionStep, RowsStep, HashStep, StatStep, SetsStep DEF FleetInv
<1>2. QED BY <1>1, FleetInvInit, PTL DEF FleetSpec

\* The rows, the hashes and what the sync keeps have their types: who has
\* reported capabilities has a version, and a hash only fields ingest writes.
THEOREM FleetTypes == FleetSpec => []FleetTypeOK
<1>1. ASSUME FleetInv PROVE FleetTypeOK
  <2>1. \A d \in Devices : stat[d].drops \in Nat
    BY <1>1 DEF FleetInv, StatTyped, IsStat
  <2>2. \A d \in Devices : rows[d] # None =>
          /\ rows[d].seen \in {"never", "recent", "long"}
          /\ (rows[d].caps = None) = (rows[d].agentVer = None)
    BY <1>1 DEF FleetInv, RowsTyped, RowTyped
  <2>3. \A d \in Devices : live[d] # None =>
          DOMAIN live[d] \subseteq VOLATILE \union HW_FIELDS \union {"online"}
    BY <1>1 DEF FleetInv, HashTyped, HashFields
  <2>4. QED BY <1>1, <2>1, <2>2, <2>3 DEF FleetTypeOK, FleetInv, SetsTyped, Retention
<1>2. QED BY <1>1, FleetInvHolds, PTL

-----------------------------------------------------------------------------
(* The tiers.                                                              *)

LEMMA ReadinessIs ==
  ASSUME NEW s
  PROVE  /\ computeReadiness(s).tier \in Tiers
         /\ computeReadiness(s).tier = "OFFLINE" <=> ~s.online
         /\ computeReadiness(s).tier = "NOT_READY" <=> s.online /\ Blockers(s) # {}
         /\ computeReadiness(s).tier \in {"READY", "DEGRADED"} =>
              s.online /\ Blockers(s) = {} /\ computeReadiness(s).warns = Warns(s)
<1>1. CASE ~s.online BY <1>1 DEF computeReadiness, Tiers
<1>2. CASE s.online /\ Blockers(s) # {} BY <1>2 DEF computeReadiness, Tiers
<1>3. CASE s.online /\ Blockers(s) = {}
  <2>1. CASE Warns(s) = {} BY <1>3, <2>1 DEF computeReadiness, Tiers
  <2>2. CASE Warns(s) # {} BY <1>3, <2>2 DEF computeReadiness, Tiers
  <2>3. QED BY <2>1, <2>2
<1>4. QED BY <1>1, <1>2, <1>3

LEMMA BlockersAre ==
  ASSUME NEW s
  PROVE  /\ s.caps = NoCaps => Blockers(s) # {}
         /\ semverLt(s.agentVer, MIN_AGENT_VER) => Blockers(s) # {}
<1>1. s.caps = NoCaps => "NO_CAPTURE_PATH" \in Blockers(s) BY DEF Blockers, When, NoCaps
<1>2. semverLt(s.agentVer, MIN_AGENT_VER) => "AGENT_OUTDATED" \in Blockers(s)
  BY DEF Blockers, When
<1>3. QED BY <1>1, <1>2

LEMMA WarnsAre ==
  ASSUME NEW s
  PROVE  /\ "LOW_BATTERY" \in Warns(s) <=> ~s.volatile.charging /\ s.volatile.batteryPct < 20
         /\ "WEAK_SIGNAL" \in Warns(s) <=> s.volatile.net = "cellular" /\ s.volatile.rssi < -100
BY DEF Warns, When

\* The three copies of the conversion make the same state of a row and its hash.
LEMMA StatesAgree ==
  ASSUME NEW row, NEW h, NEW st
  PROVE  /\ toState(dashRow(row, h, st)) = rowToState(row, h)
         /\ toDeviceState(row, h) = rowToState(row, h)
BY DEF toState, dashRow, rowToState, toDeviceState

StateOf(d) == rowToState(rows[d], Hash(d))

LEMMA ShownAre ==
  ASSUME NEW d \in Shown
  PROVE  /\ d \in Devices /\ d \in Known /\ rows[d] # None /\ ~rows[d].stale
         /\ DOMAIN dash = Shown
         /\ dash[d] = dashRow(rows[d], Hash(d), stat[d])
         /\ toState(dash[d]) = StateOf(d)
         /\ healthOf[d] = computeReadiness(StateOf(d))
         /\ TierOf(dash[d]) = healthOf[d].tier
         /\ get(d).readiness = healthOf[d]
<1>1. d \in Devices /\ d \in Known /\ rows[d] # None /\ ~rows[d].stale
  BY DEF Shown, Known
<1>2. DOMAIN dash = Shown /\ dash[d] = dashRow(rows[d], Hash(d), stat[d]) BY DEF dash
<1>3. toState(dash[d]) = StateOf(d) BY <1>2, StatesAgree DEF StateOf
<1>4. healthOf[d] = computeReadiness(StateOf(d)) BY DEF healthOf, StateOf
<1>5. get(d).readiness = computeReadiness(StateOf(d))
  BY StatesAgree DEF get, toDto, StateOf
<1>6. QED BY <1>1, <1>2, <1>3, <1>4, <1>5 DEF TierOf

LEMMA DashFields ==
  ASSUME NEW d \in Shown
  PROVE  /\ dash[d].online = StateOf(d).online /\ dash[d].volatile = StateOf(d).volatile
         /\ dash[d].caps = rows[d].caps /\ dash[d].agentVer = rows[d].agentVer
         /\ dash[d].hw = hwFromHash(Hash(d)) /\ dash[d].drops = stat[d].drops
         /\ dash[d].agentVer # None => StateOf(d).agentVer = dash[d].agentVer
<1>1. dash[d] = dashRow(rows[d], Hash(d), stat[d]) BY ShownAre
<1>2. /\ dash[d].online = StateOf(d).online /\ dash[d].volatile = StateOf(d).volatile
      /\ dash[d].caps = rows[d].caps /\ dash[d].agentVer = rows[d].agentVer
  BY <1>1 DEF dashRow, StateOf, rowToState
<1>3. dash[d].hw = hwFromHash(Hash(d)) /\ dash[d].drops = stat[d].drops
  BY <1>1 DEF dashRow
<1>4. dash[d].agentVer # None => StateOf(d).agentVer = dash[d].agentVer
  BY <1>2 DEF StateOf, rowToState
<1>5. QED BY <1>2, <1>3, <1>4

LEMMA ListedAre ==
  ASSUME NEW r
  PROVE  /\ Listed("lowBattery", r) <=> r.online /\ LowBattery(r)
         /\ Listed("weakSignal", r) <=> r.online /\ WeakSignal(r)
         /\ Listed("outdated", r)
              <=> r.agentVer # None /\ semverLt(r.agentVer, MIN_AGENT_VER)
         /\ Listed("permissionsUnknown", r) <=> r.caps = None
         /\ Listed("missingA11y", r) <=> "a11y" \in Missing(r)
         /\ Listed("online", r) <=> r.online
<1> USE DEF Listed, OfflineToo, OnlineOnly, NETS, Tiers, TIER_KEY
<1>1. Listed("lowBattery", r) <=> r.online /\ LowBattery(r) OBVIOUS
<1>2. Listed("weakSignal", r) <=> r.online /\ WeakSignal(r) OBVIOUS
<1>3. Listed("outdated", r) <=> r.agentVer # None /\ semverLt(r.agentVer, MIN_AGENT_VER)
  OBVIOUS
<1>4. Listed("permissionsUnknown", r) <=> r.caps = None OBVIOUS
<1>5. Listed("missingA11y", r) <=> "a11y" \in Missing(r) OBVIOUS
<1>6. Listed("online", r) <=> r.online OBVIOUS
<1>7. QED BY <1>1, <1>2, <1>3, <1>4, <1>5, <1>6

LEMMA LimitsAreOne == LimitsAgree(dash, healthOf)
<1> SUFFICES ASSUME NEW d \in Shown
    PROVE  /\ healthOf[d].tier \in {"READY", "DEGRADED"} =>
                /\ Listed("lowBattery", dash[d]) <=> "LOW_BATTERY" \in healthOf[d].warns
                /\ Listed("weakSignal", dash[d]) <=> "WEAK_SIGNAL" \in healthOf[d].warns
                /\ ~Listed("outdated", dash[d])
           /\ Listed("outdated", dash[d]) /\ dash[d].online => healthOf[d].tier = "NOT_READY"
  BY DEF LimitsAgree, dash
<1> DEFINE s == StateOf(d)
           r == dash[d]
<1>1. /\ r.online = s.online /\ r.volatile = s.volatile
      /\ r.agentVer # None => s.agentVer = r.agentVer
  BY DashFields
<1>2. healthOf[d] = computeReadiness(s) BY ShownAre
<1> HIDE DEF s, r
<1>3. LowBattery(r) <=> ~s.volatile.charging /\ s.volatile.batteryPct < 20
  BY <1>1 DEF LowBattery, LIMITS
<1>4. WeakSignal(r) <=> s.volatile.net = "cellular" /\ s.volatile.rssi < -100
  <2>1. s.volatile.rssi < -100 => s.volatile.rssi # 0 OBVIOUS
  <2>2. QED BY <1>1, <2>1 DEF WeakSignal, LIMITS
<1>5. ASSUME healthOf[d].tier \in {"READY", "DEGRADED"}
      PROVE  s.online /\ Blockers(s) = {} /\ healthOf[d].warns = Warns(s)
  BY <1>2, <1>5, ReadinessIs
<1>6. Listed("outdated", r) => Blockers(s) # {} BY <1>1, ListedAre, BlockersAre
<1>7. ASSUME healthOf[d].tier \in {"READY", "DEGRADED"}
      PROVE  /\ Listed("lowBattery", r) <=> "LOW_BATTERY" \in healthOf[d].warns
             /\ Listed("weakSignal", r) <=> "WEAK_SIGNAL" \in healthOf[d].warns
  BY <1>1, <1>3, <1>4, <1>5, <1>7, ListedAre, WarnsAre
<1>8. Listed("outdated", r) /\ r.online => healthOf[d].tier = "NOT_READY"
  BY <1>1, <1>2, <1>6, ReadinessIs
<1>9. QED BY <1>5, <1>6, <1>7, <1>8 DEF r

\* What the rollout has against a tablet that is online is what the dashboard
\* lists it for.
LEMMA RolloutIsOne ==
  ASSUME NEW view
  PROVE  RolloutAgrees(view)
<1> SUFFICES ASSUME NEW r, r.online
    PROVE  /\ \A c \in DOMAIN ProblemList :
                c \in healthProblems(r) <=> Listed(ProblemList[c], r)
           /\ "NO_HW_DATA" \in healthProblems(r)
                <=> /\ Listed("noHwData", r) /\ r.agentVer # None
                    /\ atOrAbove(r.agentVer, HW_SINCE)
  BY DEF RolloutAgrees
<1> USE DEF Listed, OfflineToo, OnlineOnly, NETS, Tiers, TIER_KEY
<1>1. /\ Listed("notReady", r) <=> TierOf(r) = "NOT_READY"
      /\ Listed("missingA11y", r) <=> "a11y" \in Missing(r)
      /\ Listed("flapping", r) <=> Flapping(r)
  OBVIOUS
<1>2. /\ Listed("lagging", r) <=> Lagging(r)
      /\ Listed("panelOff", r) <=> PanelOff(r)
      /\ Listed("touchGone", r) <=> TouchGone(r)
      /\ Listed("noHwData", r) <=> NoHw(r)
  OBVIOUS
<1>3. QED BY <1>1, <1>2, ProblemsAre DEF ProblemList

\* A permission is missing, behind a tile, where health counts it.
LEMMA MissingAgree ==
  ASSUME FleetInv, NEW d \in Shown
  PROVE  Listed("missingA11y", dash[d]) /\ Listed("online", dash[d])
           <=> /\ healthOf[d].tier # "OFFLINE" /\ rows[d].agentVer # None
               /\ ~rows[d].caps["a11y"]
<1>1. rows[d].caps = None <=> rows[d].agentVer = None
  BY ShownAre DEF FleetInv, RowsTyped, RowTyped
<1>2. healthOf[d].tier # "OFFLINE" <=> dash[d].online
  BY ShownAre, DashFields, ReadinessIs
<1>3. "a11y" \in Missing(dash[d]) <=> rows[d].caps # None /\ ~rows[d].caps["a11y"]
  BY DashFields DEF Missing, Permissions
<1>4. QED BY <1>1, <1>2, <1>3, ListedAre

\* Who may be started has reported, and the list calls it READY or DEGRADED.
LEMMA StartsAgree ==
  ASSUME FleetInv, NEW d \in Devices,
         computeReadiness(getState(d)).tier \in {"READY", "DEGRADED"}
  PROVE  /\ d \in list("READY", None) \union list("DEGRADED", None)
         /\ d \in Known /\ rows[d].caps # None
<1> DEFINE row == IF rows[d] = None THEN emptyRow ELSE rows[d]
<1>1. Blockers(toDeviceState(row, Hash(d))) = {} BY ReadinessIs DEF getState
<1>2. row.caps # None
  <2>1. row.caps = None => toDeviceState(row, Hash(d)).caps = NoCaps BY DEF toDeviceState
  <2>2. QED BY <1>1, <2>1, BlockersAre
<1>3. rows[d] # None /\ rows[d].caps # None BY <1>2 DEF emptyRow
<1>4. getState(d) = toDeviceState(rows[d], Hash(d)) BY <1>3 DEF getState
<1>5. get(d).readiness = computeReadiness(getState(d)) BY <1>4 DEF get, toDto
<1>6. d \in Known BY <1>3 DEF Known
<1>7. QED BY <1>3, <1>5, <1>6 DEF list

LEMMA TiersAgree ==
  ASSUME NEW t \in Tiers
  PROVE  {d \in DOMAIN dash : TierOf(dash[d]) = t} = {d \in Shown : healthOf[d].tier = t}
BY ShownAre DEF dash

\* Every view of a device says the same of it, and the figures agree with the
\* lists, whatever rows, hashes and heartbeats of deleted devices there are.
THEOREM ViewsAreOne == FleetSpec => []ViewsAgree
<1>1. ASSUME FleetInv PROVE ViewsAgree
  <2> DEFINE view == dash
             judged == healthOf
             t == tiers(view)
             h == health
  <2>1. ASSUME NEW d \in Shown
        PROVE  /\ briefOf(view[d]).tier = judged[d].tier
               /\ d \in list(judged[d].tier, FALSE)
               /\ view[d].agentVer = None => Listed("permissionsUnknown", view[d])
    <3>1. briefOf(view[d]).tier = judged[d].tier BY ShownAre DEF briefOf
    <3>2. rows[d].stale = FALSE BY <1>1, ShownAre DEF FleetInv, Hidden, Rows, IsRow
    <3>3. d \in list(judged[d].tier, FALSE) BY <3>2, ShownAre DEF list
    <3>4. view[d].agentVer = None => view[d].caps = None
      BY <1>1, ShownAre, DashFields DEF FleetInv, RowsTyped, RowTyped
    <3>5. QED BY <3>1, <3>3, <3>4, ListedAre
  <2>2. \A d \in Devices :
          computeReadiness(getState(d)).tier \in {"READY", "DEGRADED"} =>
            /\ d \in list("READY", None) \union list("DEGRADED", None)
            /\ d \in Known /\ rows[d].caps # None
    BY <1>1, StartsAgree
  <2>3. <<t["READY"], t["DEGRADED"], t["NOT_READY"], t["OFFLINE"]>>
          = <<h.ready, h.degraded, h.notReady, h.offline>>
    <3>1. \A x \in Tiers : t[x] = Cardinality({d \in Shown : judged[d].tier = x})
      BY TiersAgree DEF tiers
    <3>2. /\ h.ready = Cardinality({d \in Shown : judged[d].tier = "READY"})
          /\ h.degraded = Cardinality({d \in Shown : judged[d].tier = "DEGRADED"})
          /\ h.notReady = Cardinality({d \in Shown : judged[d].tier = "NOT_READY"})
          /\ h.offline = Cardinality({d \in Shown : judged[d].tier = "OFFLINE"})
      BY DEF health
    <3> HIDE DEF t, h, judged
    <3>3. QED BY <3>1, <3>2 DEF Tiers
  <2>4. h.missing["a11y"]
          = Cardinality(List("missingA11y", view) \intersect List("online", view))
    <3> DEFINE counted == {d \in Shown : /\ healthOf[d].tier # "OFFLINE"
                                         /\ rows[d].agentVer # None
                                         /\ ~rows[d].caps["a11y"]}
    <3>1. h.missing["a11y"] = Cardinality(counted) BY DEF health, Permissions
    <3>2. DOMAIN view = Shown BY DEF dash
    <3>3. counted = List("missingA11y", view) \intersect List("online", view)
      BY <1>1, <3>2, MissingAgree DEF List
    <3>4. QED BY <3>1, <3>3
  <2>5. LimitsAgree(view, judged) BY LimitsAreOne
  <2>6. RolloutAgrees(view) BY RolloutIsOne
  <2> HIDE DEF view, judged, t, h
  <2>7. QED BY <2>1, <2>2, <2>3, <2>4, <2>5, <2>6 DEF ViewsAgree, view, judged, t, h
<1>2. QED BY <1>1, FleetInvHolds, PTL

-----------------------------------------------------------------------------
(* The tiles.                                                              *)

LEMMA TileIsList ==
  ASSUME NEW view, IsFiniteSet(DOMAIN view), NEW key
  PROVE  Figure(key, view) = Cardinality(List(key, view))
<1>1. CASE key \in NETS
  <2>1. ASSUME NEW r PROVE Listed(key, r) <=> r.online /\ r.volatile.net = key
    <3>1. OnlineOnly(key, r) <=> r.volatile.net = key BY <1>1 DEF OnlineOnly, NETS
    <3>2. ~OfflineToo(key, r) BY <1>1 DEF OfflineToo, NETS
    <3>3. \A t \in Tiers : key # TIER_KEY[t] BY <1>1 DEF NETS, Tiers, TIER_KEY
    <3>4. QED BY <3>1, <3>2, <3>3 DEF Listed
  <2>2. List(key, view) = {d \in DOMAIN view : view[d].online /\ view[d].volatile.net = key}
    BY <2>1 DEF List
  <2>3. QED BY <1>1, <2>2 DEF Figure, On
<1>2. CASE key = "permissionsUnknown"
  <2> DEFINE said == {d \in DOMAIN view : view[d].caps # None}
  <2>1. List(key, view) = DOMAIN view \ said BY <1>2, ListedAre DEF List
  <2>2. DOMAIN view \intersect said = said OBVIOUS
  <2>3. Cardinality(List(key, view)) = Cardinality(DOMAIN view) - Cardinality(said)
    BY <2>1, <2>2, FS_Difference
  <2>4. QED BY <1>2, <2>3 DEF Figure, NETS, WithoutCaps
<1>3. CASE key = "weakSignal"
  <2>1. List(key, view) = {d \in DOMAIN view : view[d].online /\ WeakSignal(view[d])}
    BY <1>3, ListedAre DEF List
  <2>2. QED BY <1>3, <2>1 DEF Figure, NETS, Weak
<1>4. CASE key = "neverSeen"
  <2>1. ASSUME NEW r PROVE Listed(key, r) <=> ~r.online /\ r.seen = "never"
    BY <1>4 DEF Listed, OfflineToo, OnlineOnly, NETS, Tiers, TIER_KEY
  <2>2. List(key, view) = {d \in DOMAIN view : ~view[d].online /\ view[d].seen = "never"}
    BY <2>1 DEF List
  <2>3. QED BY <1>4, <2>2 DEF Figure, NETS, NeverSeen
<1>5. CASE key \notin NETS \union {"permissionsUnknown", "weakSignal", "neverSeen"}
  BY <1>5 DEF Figure
<1>6. QED BY <1>1, <1>2, <1>3, <1>4, <1>5

LEMMA TierPage ==
  ASSUME NEW view, NEW t \in Tiers
  PROVE  /\ TIER_KEY[t] \in KNOWN_LIST_KEYS
         /\ List(TIER_KEY[t], view) = {d \in DOMAIN view : TierOf(view[d]) = t}
<1> DEFINE key == TIER_KEY[t]
<1>1. key \in KNOWN_LIST_KEYS BY DEF KNOWN_LIST_KEYS, TIER_KEY, Tiers
<1>2. ASSUME NEW r PROVE Listed(key, r) <=> TierOf(r) = t
  <2>1. ~OfflineToo(key, r) BY DEF OfflineToo, TIER_KEY, Tiers
  <2>2. ~OnlineOnly(key, r) BY DEF OnlineOnly, NETS, TIER_KEY, Tiers
  <2>3. \A x \in Tiers : key = TIER_KEY[x] => x = t BY DEF TIER_KEY, Tiers
  <2> HIDE DEF key
  <2>4. QED BY <2>1, <2>2, <2>3 DEF Listed, key
<1>3. QED BY <1>1, <1>2 DEF List

LEMMA PageIs ==
  ASSUME NEW view, NEW key \in KNOWN_LIST_KEYS
  PROVE  /\ dashboardList(key, view).status = 200
         /\ DOMAIN dashboardList(key, view).rows = List(key, view)
BY DEF dashboardList

-----------------------------------------------------------------------------
(* The rollout.                                                            *)

LEMMA RolloutIs ==
  ASSUME NEW view, NEW target
  PROVE  LET r == rollout(target, view) IN
           /\ \A b \in Buckets : r.counts[b] = Cardinality(InBucket(b, view, r.target))
           /\ r.problemDevices = Cardinality(InBucket("updatedUnhealthy", view, r.target))
<1> DEFINE r == rollout(target, view)
<1>1. /\ r.counts = summarizeRollout(view, r.target).counts
      /\ r.problemDevices = Cardinality(InBucket("updatedUnhealthy", view, r.target))
  BY DEF rollout
<1> HIDE DEF r
<1>2. summarizeRollout(view, r.target).counts =
        [b \in Buckets |-> Cardinality(InBucket(b, view, r.target))]
  BY DEF summarizeRollout
<1>3. QED BY <1>1, <1>2 DEF r

\* A reason is given for exactly those that are updated and not healthy.
LEMMA ReasonsGiven ==
  ASSUME NEW view, NEW goal, NEW b \in Buckets
  PROVE  /\ DOMAIN rolloutList(b, goal, view) = InBucket(b, view, goal)
         /\ \A d \in InBucket(b, view, goal) :
              rolloutList(b, goal, view)[d].reasons # {} <=> b = "updatedUnhealthy"
<1>1. DOMAIN rolloutList(b, goal, view) = InBucket(b, view, goal) BY DEF rolloutList
<1>2. ASSUME NEW d \in InBucket(b, view, goal)
      PROVE  rolloutList(b, goal, view)[d].reasons # {} <=> b = "updatedUnhealthy"
  <2>1. bucket(view[d], goal) = b BY DEF InBucket
  <2>2. b = "updatedUnhealthy" => healthProblems(view[d]) # {} BY <2>1 DEF bucket
  <2>3. rolloutList(b, goal, view)[d].reasons
          = IF b = "updatedUnhealthy" THEN healthProblems(view[d]) ELSE {}
    BY DEF rolloutList
  <2>4. QED BY <2>2, <2>3
<1>3. QED BY <1>1, <1>2

-----------------------------------------------------------------------------
(* The attention list.                                                     *)

\* The code of a reason is on the list of that reason.
LEMMA ReasonIsListed ==
  ASSUME NEW r, NEW c \in DOMAIN ListOf
  PROVE  Listed(ListOf[c], r) <=> c \in ReasonsOf(r)
<1>1. ~r.online => TierOf(r) = "OFFLINE" BY DEF TierOf, toState, computeReadiness
<1>2. \A t \in Tiers : ListOf[c] # TIER_KEY[t] BY DEF ListOf, Tiers, TIER_KEY
<1>3. Listed(ListOf[c], r) <=>
        OfflineToo(ListOf[c], r) \/ (r.online /\ OnlineOnly(ListOf[c], r))
  BY <1>2 DEF Listed
<1> USE DEF ListOf, ReasonsOf, Reasons, LateReasons, When, OfflineToo, OnlineOnly, NETS
<1>4. CASE c = "NOT_READY" BY <1>1, <1>3, <1>4
<1>5. CASE c = "PANEL_OFF" BY <1>3, <1>5
<1>6. CASE c = "TOUCH_GONE" BY <1>3, <1>6
<1>7. CASE c = "LAG" BY <1>3, <1>7
<1>8. CASE c = "HOT" BY <1>3, <1>8
<1>9. CASE c = "LOW_MEM" BY <1>3, <1>9
<1>10. CASE c = "LOW_DISK" BY <1>3, <1>10
<1>11. CASE c = "FLAPPING" BY <1>3, <1>11 DEF Flapping
<1>12. CASE c = "MISSING_PERMISSIONS"
  <2>1. Missing(r) # {} <=> r.caps # None /\ \E p \in Permissions : ~r.caps[p]
    BY DEF Missing
  <2>2. QED BY <1>3, <1>12, <2>1
<1>13. CASE c = "LOW_BATTERY" BY <1>3, <1>13
<1>14. CASE c = "OFFLINE_OVER_24H" BY <1>3, <1>14 DEF LongOffline
<1>15. QED
  BY <1>4, <1>5, <1>6, <1>7, <1>8, <1>9, <1>10, <1>11, <1>12, <1>13, <1>14

LEMMA ThreeAreFinite ==
  ASSUME NEW a, NEW b, NEW c
  PROVE  IsFiniteSet({a, b, c})
<1>1. IsFiniteSet({a} \union {b}) BY FS_Singleton, FS_AddElement
<1>2. IsFiniteSet(({a} \union {b}) \union {c}) BY <1>1, FS_AddElement
<1>3. {a, b, c} = ({a} \union {b}) \union {c} OBVIOUS
<1>4. QED BY <1>2, <1>3

\* A device has points exactly when there is a reason: every weight counts.
LEMMA ScoreIs ==
  ASSUME NEW R \in SUBSET DOMAIN ListOf
  PROVE  Score(R) \in Nat /\ (Score(R) > 0 <=> R # {})
<1> DEFINE of(w) == {c \in R : WEIGHT[c] = w}
<1>1. /\ of(1) \subseteq {"LOW_BATTERY", "OFFLINE_OVER_24H", "LOW_BATTERY"}
      /\ of(2) \subseteq {"LOW_MEM", "LOW_DISK", "MISSING_PERMISSIONS"}
      /\ of(3) \subseteq {"LAG", "HOT", "FLAPPING"}
      /\ of(5) \subseteq {"NOT_READY", "PANEL_OFF", "TOUCH_GONE"}
      /\ R \subseteq of(1) \union of(2) \union of(3) \union of(5)
  BY DEF ListOf, WEIGHT
<1>2. /\ IsFiniteSet(of(1)) /\ IsFiniteSet(of(2))
      /\ IsFiniteSet(of(3)) /\ IsFiniteSet(of(5))
  BY <1>1, ThreeAreFinite, FS_Subset
<1>3. Score(R) = Cardinality(of(1)) + 2 * Cardinality(of(2)) + 3 * Cardinality(of(3))
                   + 5 * Cardinality(of(5))
  BY DEF Score
<1>4. R = {} <=> of(1) = {} /\ of(2) = {} /\ of(3) = {} /\ of(5) = {} BY <1>1
<1> HIDE DEF of
<1>5. \A w \in {1, 2, 3, 5} : /\ Cardinality(of(w)) \in Nat
                              /\ Cardinality(of(w)) = 0 <=> of(w) = {}
  BY <1>2, FS_CardinalityType, FS_EmptySet
<1>6. PICK a \in Nat, b \in Nat, c \in Nat, d \in Nat :
        /\ a = Cardinality(of(1)) /\ b = Cardinality(of(2))
        /\ c = Cardinality(of(3)) /\ d = Cardinality(of(5))
  BY <1>5
<1>7. R = {} <=> a = 0 /\ b = 0 /\ c = 0 /\ d = 0 BY <1>4, <1>5, <1>6
<1>8. Score(R) = a + 2 * b + 3 * c + 5 * d BY <1>3, <1>6
<1>9. QED BY <1>7, <1>8

LEMMA ReasonsAre ==
  ASSUME NEW r
  PROVE  ReasonsOf(r) \in SUBSET DOMAIN ListOf
BY DEF ReasonsOf, Reasons, LateReasons, When, ListOf

\* No rank reaches the number of devices: the list is cut nowhere.
LEMMA AttentionIsAll ==
  ASSUME NEW view, DOMAIN view \subseteq Devices
  PROVE  attention(view, Cardinality(Devices))
           = {d \in DOMAIN view : ReasonsOf(view[d]) # {}}
<1>1. Scored(view) = {d \in DOMAIN view : ReasonsOf(view[d]) # {}}
  BY ScoreIs, ReasonsAre DEF Scored
<1>2. ASSUME NEW d \in Scored(view)
      PROVE  Cardinality({b \in Scored(view) : Outranks(view, b, d)}) < Cardinality(Devices)
  <2> DEFINE before == {b \in Scored(view) : Outranks(view, b, d)}
  <2>1. d \in Devices /\ d \in Int BY FleetAssumption DEF Scored
  <2>2. Score(ReasonsOf(view[d])) \in Nat BY ScoreIs, ReasonsAre
  <2>3. ~Outranks(view, d, d) BY <2>1, <2>2 DEF Outranks
  <2>4. before \subseteq Devices \ {d} BY <2>3 DEF Scored
  <2>5. IsFiniteSet(Devices) BY FleetAssumption
  <2>6. /\ IsFiniteSet(Devices \ {d})
        /\ Cardinality(Devices \ {d}) = Cardinality(Devices) - 1
    BY <2>1, <2>5, FS_RemoveElement
  <2> HIDE DEF before
  <2>7. IsFiniteSet(before) /\ Cardinality(before) <= Cardinality(Devices \ {d})
    BY <2>4, <2>6, FS_Subset
  <2>8. Cardinality(before) \in Nat /\ Cardinality(Devices) \in Nat
    BY <2>5, <2>7, FS_CardinalityType
  <2>9. Cardinality(before) < Cardinality(Devices) BY <2>6, <2>7, <2>8
  <2>10. QED BY <2>9 DEF before
<1>3. QED BY <1>1, <1>2 DEF attention

LEMMA AttentionIsLists ==
  ASSUME NEW view, DOMAIN view \subseteq Devices
  PROVE  AttentionMatchesLists(view)
<1> DEFINE shown == attention(view, Cardinality(Devices))
<1>1. shown = {d \in DOMAIN view : ReasonsOf(view[d]) # {}} BY AttentionIsAll
<1> HIDE DEF shown
<1>2. ASSUME NEW c \in DOMAIN ListOf
      PROVE  List(ListOf[c], view) = {d \in shown : c \in ReasonsOf(view[d])}
  BY <1>1, ReasonIsListed DEF List
<1>3. QED BY <1>2 DEF AttentionMatchesLists, shown

\* Every figure opens the devices it counts, and the attention list agrees with
\* the tiles, whatever has been reported and however many devices there are.
THEOREM TilesAreLists == FleetSpec => []TilesOpen
<1>1. TilesOpen
  <2> DEFINE view == dash
  <2>1. DOMAIN view = Shown /\ Shown \subseteq Devices BY DEF dash, Shown, Known
  <2>2. IsFiniteSet(DOMAIN view) BY <2>1, FleetAssumption, FS_Subset
  <2> HIDE DEF view
  <2>3. ASSUME NEW key \in TILES
        PROVE  /\ dashboardList(key, view).status = 200
               /\ Figure(key, view) = Cardinality(DOMAIN dashboardList(key, view).rows)
    <3>1. key \in KNOWN_LIST_KEYS BY DEF TILES
    <3>2. QED BY <2>2, <3>1, PageIs, TileIsList
  <2>4. ASSUME NEW tier \in Tiers
        PROVE  tiers(view)[tier]
                 = Cardinality(DOMAIN dashboardList(TIER_KEY[tier], view).rows)
    <3>1. DOMAIN dashboardList(TIER_KEY[tier], view).rows
            = {d \in DOMAIN view : TierOf(view[d]) = tier}
      BY TierPage, PageIs
    <3>2. QED BY <3>1 DEF tiers
  <2>5. \A d \in Shown : d \in DOMAIN versionPage(view[d].agentVer, view)
    BY <2>1 DEF versionPage, VersionList
  <2>6. ASSUME NEW target \in {None, Target}
        PROVE  LET r == rollout(target, view) IN
                 /\ \A b \in Buckets : LET page == rolloutList(b, r.target, view) IN
                      /\ Cardinality(DOMAIN page) = r.counts[b]
                      /\ \A d \in DOMAIN page : page[d].reasons # {} <=> b = "updatedUnhealthy"
                 /\ r.problemDevices = r.counts["updatedUnhealthy"]
    <3> DEFINE r == rollout(target, view)
    <3>1. /\ \A b \in Buckets : r.counts[b] = Cardinality(InBucket(b, view, r.target))
          /\ r.problemDevices = Cardinality(InBucket("updatedUnhealthy", view, r.target))
      BY RolloutIs
    <3> HIDE DEF r
    <3>2. ASSUME NEW b \in Buckets
          PROVE  /\ Cardinality(DOMAIN rolloutList(b, r.target, view)) = r.counts[b]
                 /\ \A d \in DOMAIN rolloutList(b, r.target, view) :
                      rolloutList(b, r.target, view)[d].reasons # {} <=> b = "updatedUnhealthy"
      BY <3>1, ReasonsGiven
    <3>3. r.problemDevices = r.counts["updatedUnhealthy"] BY <3>1 DEF Buckets
    <3>4. QED BY <3>2, <3>3 DEF r
  <2>7. AttentionMatchesLists(view) BY <2>1, AttentionIsLists
  <2>8. QED BY <2>3, <2>4, <2>5, <2>6, <2>7 DEF TilesOpen, view
<1>2. QED BY <1>1, PTL

-----------------------------------------------------------------------------
(* The version a rollout is for.                                           *)

Version == [1..3 -> Nat]

LEMMA SemverIs ==
  ASSUME NEW a \in Version, NEW b \in Version
  PROVE  semverLt(a, b) <=>
           \/ a[1] < b[1]
           \/ a[1] = b[1] /\ a[2] < b[2]
           \/ a[1] = b[1] /\ a[2] = b[2] /\ a[3] < b[3]
<1>1. 1..3 = {1, 2, 3} /\ 1..(1-1) = {} /\ 1..(2-1) = {1} /\ 1..(3-1) = {1,2} OBVIOUS
<1>2. QED BY <1>1 DEF semverLt

\* semverLt is a strict total order, so that "below the target" and "at or above
\* it" split the fleet, and which version is the highest depends on no order.
THEOREM VersionsAreOrdered ==
  ASSUME NEW a \in Version, NEW b \in Version, NEW c \in Version
  PROVE  /\ ~semverLt(a, a)
         /\ semverLt(a, b) /\ semverLt(b, c) => semverLt(a, c)
         /\ semverLt(a, b) \/ semverLt(b, a) \/ a = b
<1>1. /\ a[1] \in Nat /\ a[2] \in Nat /\ a[3] \in Nat
      /\ b[1] \in Nat /\ b[2] \in Nat /\ b[3] \in Nat
      /\ c[1] \in Nat /\ c[2] \in Nat /\ c[3] \in Nat
  BY DEF Version
<1>2. ~semverLt(a, a) BY <1>1, SemverIs
<1>3. semverLt(a, b) /\ semverLt(b, c) => semverLt(a, c) BY <1>1, SemverIs
<1>4. a[1] = b[1] /\ a[2] = b[2] /\ a[3] = b[3] => a = b
  <2>1. 1..3 = {1, 2, 3} OBVIOUS
  <2>2. a = [i \in 1..3 |-> a[i]] /\ b = [i \in 1..3 |-> b[i]] BY DEF Version
  <2>3. QED BY <2>1, <2>2
<1>5. semverLt(a, b) \/ semverLt(b, a) \/ a = b BY <1>1, <1>4, SemverIs
<1>6. QED BY <1>2, <1>3, <1>5

LEMMA SomeIsLeast ==
  ASSUME NEW T \in SUBSET Nat, T # {}
  PROVE  \E n \in T : \A m \in T : ~(m < n)
<1>1. \E n \in T : \A m \in T : <<m, n>> \notin OpToRel(<, Nat)
  BY NatLessThanWellFounded, WFMin
<1>2. QED BY <1>1 DEF OpToRel

Above(v, vers) == {w \in vers : semverLt(v, w)}

\* The one with the fewest above it has none.
LEMMA SomeIsHighest ==
  ASSUME NEW vers \in SUBSET Version, IsFiniteSet(vers), vers # {}
  PROVE  \E v \in vers : \A w \in vers : ~semverLt(v, w)
<1> DEFINE ranks == {Cardinality(Above(v, vers)) : v \in vers}
<1>1. ASSUME NEW v \in vers
      PROVE  IsFiniteSet(Above(v, vers)) /\ Cardinality(Above(v, vers)) \in Nat
  BY FS_Subset, FS_CardinalityType DEF Above
<1>2. PICK v \in vers :
        \A w \in vers : ~(Cardinality(Above(w, vers)) < Cardinality(Above(v, vers)))
  <2>1. ranks \subseteq Nat /\ ranks # {} BY <1>1
  <2>2. QED BY <2>1, SomeIsLeast
<1>3. ASSUME NEW w \in vers, semverLt(v, w) PROVE FALSE
  <2>1. Above(w, vers) \subseteq Above(v, vers) BY <1>3, VersionsAreOrdered DEF Above
  <2>2. w \in Above(v, vers) /\ w \notin Above(w, vers)
    BY <1>3, VersionsAreOrdered DEF Above
  <2>3. Cardinality(Above(w, vers)) < Cardinality(Above(v, vers))
    BY <1>1, <2>1, <2>2, FS_Subset
  <2>4. QED BY <1>2, <2>3
<1>4. QED BY <1>2, <1>3

LEMMA RunningIsFinite ==
  ASSUME NEW view, IsFiniteSet(DOMAIN view)
  PROVE  IsFiniteSet(Running(view))
<1> DEFINE ver == [d \in DOMAIN view |-> view[d].agentVer]
           vers == {view[d].agentVer : d \in DOMAIN view}
<1>1. ver \in Surjection(DOMAIN view, vers) BY DEF Surjection
<1>2. IsFiniteSet(vers) BY <1>1, FS_Surjection
<1>3. Running(view) \subseteq vers BY DEF Running
<1>4. QED BY <1>2, <1>3, FS_Subset

\* The target summarizeRollout suggests is a version that runs, and every other
\* version that runs is below it, whatever order the rows come in.
THEOREM SuggestedIsHighest ==
  ASSUME NEW view, IsFiniteSet(DOMAIN view), Running(view) # {},
         Running(view) \subseteq Version
  PROVE  /\ suggestedTarget(view) \in Running(view)
         /\ \A v \in Running(view) : v = suggestedTarget(view) \/ semverLt(v, suggestedTarget(view))
<1> DEFINE vers == Running(view)
<1>1. suggestedTarget(view) = CHOOSE v \in vers : \A w \in vers : ~semverLt(v, w)
  BY DEF suggestedTarget
<1> HIDE DEF vers
<1>2. \E v \in vers : \A w \in vers : ~semverLt(v, w) BY SomeIsHighest, RunningIsFinite DEF vers
<1>3. suggestedTarget(view) \in vers /\ \A w \in vers : ~semverLt(suggestedTarget(view), w)
  BY <1>1, <1>2
<1>4. QED BY <1>3, VersionsAreOrdered DEF vers
=============================================================================
