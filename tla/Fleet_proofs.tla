----------------------------- MODULE Fleet_proofs -----------------------------
(***************************************************************************)
(* What the fleet keeps, for any devices, reports, heartbeats and target,  *)
(* whatever connects, expires, stops or is removed.                        *)
(***************************************************************************)
EXTENDS Fleet, FiniteSetTheorems, TLAPS

(* The hash.                                                               *)

\* Only a message that says "online" changes it, the figures never do.
LEMMA WriteOnline ==
  ASSUME NEW h, NEW m
  PROVE  IsOnline(writeLive(h, m))
           = IF "online" \in DOMAIN m THEN m["online"] ELSE IsOnline(h)
<1> DEFINE patch == liveHashPatch(m)
           hw == hwLivePatch(m)
           dom == ((DOMAIN h \union DOMAIN patch) \ hw.del) \union hw.set
<1>1. "online" \notin HW_FIELDS /\ "online" \notin VOLATILE BY DEF HW_FIELDS, VOLATILE
<1>2. hw.set \subseteq HW_FIELDS /\ hw.del \subseteq HW_FIELDS
  BY DEF hwLivePatch, Readable
<1>3. "online" \in DOMAIN patch <=> "online" \in DOMAIN m
  BY <1>1 DEF liveHashPatch
<1>4. "online" \in DOMAIN m => patch["online"] = m["online"]
  BY <1>1 DEF liveHashPatch
<1>5. writeLive(h, m) =
        [k \in dom |-> IF k \in hw.set THEN m[k]
                       ELSE IF k \in DOMAIN patch THEN patch[k] ELSE h[k]]
  BY DEF writeLive
<1>6. "online" \in dom <=> "online" \in DOMAIN h \/ "online" \in DOMAIN m
  BY <1>1, <1>2, <1>3
<1> HIDE DEF patch, hw, dom
<1>7. "online" \notin hw.set BY <1>1, <1>2
<1>8. DOMAIN writeLive(h, m) = dom BY <1>5
<1>9. "online" \in dom =>
        writeLive(h, m)["online"] = IF "online" \in DOMAIN m THEN m["online"] ELSE h["online"]
  BY <1>3, <1>4, <1>5, <1>7
<1>10. QED BY <1>6, <1>8, <1>9 DEF IsOnline, Get

-----------------------------------------------------------------------------
(* Who is shown online is connected.                                       *)

Retention ==
  /\ retained = [d \in Devices |-> retained[d]] /\ live = [d \in Devices |-> live[d]]
  /\ pending \subseteq Devices
  /\ \A d \in Devices :
       /\ retained[d] # None /\ "online" \in DOMAIN retained[d].msg
       /\ retained[d].msg["online"] => d \in conn
       /\ up /\ d \notin pending /\ live[d] # None => (IsOnline(live[d]) => d \in conn)

LEMMA FullSays ==
  ASSUME NEW d \in Devices, NEW s \in States[d]
  PROVE  /\ Full(s) # None /\ "online" \in DOMAIN Full(s).msg
         /\ Full(s).msg["online"] = TRUE
BY MessagesAreSome DEF Full

LEMMA WillSays ==
  /\ Will # None /\ "online" \in DOMAIN Will.msg /\ Will.msg["online"] = FALSE
BY MessagesAreSome DEF Will, Heartbeat

LEMMA RetentionStep ==
  ASSUME Retention, [FleetNext]_fleetVars
  PROVE  Retention'
<1> USE DEF Retention, tablets, ingest, headwind, histories, World
<1>1. ASSUME NEW d \in Devices, Connect(d) PROVE Retention'
  <2>1. PICK s \in States[d] :
          /\ conn' = conn \union {d} /\ retained' = [retained EXCEPT ![d] = Full(s)]
          /\ Deliver(d, Full(s)) /\ UNCHANGED <<up, pending>>
    BY <1>1 DEF Connect
  <2>2. live' = live \/ \E h : live' = [live EXCEPT ![d] = h]
    BY <2>1 DEF Deliver, Handle, HandleLive
  <2>3. QED BY <2>1, <2>2, FullSays
<1>2. ASSUME NEW d \in Devices, Beat(d) PROVE Retention'
  <2>1. d \in conn /\ UNCHANGED <<conn, retained, up, pending>> BY <1>2 DEF Beat
  <2>2. \E h : live' = [live EXCEPT ![d] = h] BY <1>2 DEF Beat, Handle, HandleLive
  <2>3. QED BY <2>1, <2>2
<1>3. ASSUME NEW d \in Devices, Disconnect(d) PROVE Retention'
  <2>1. /\ conn' = conn \ {d} /\ retained' = [retained EXCEPT ![d] = Will]
        /\ Deliver(d, Will) /\ UNCHANGED <<up, pending>>
    BY <1>3 DEF Disconnect
  <2>2. CASE up
    <3>1. live' = [live EXCEPT ![d] = writeLive(Hash(d), Will.msg)]
      BY <2>1, <2>2 DEF Deliver, Handle, HandleLive
    <3>2. IsOnline(writeLive(Hash(d), Will.msg)) = FALSE BY WriteOnline, WillSays
    <3>3. QED BY <2>1, <3>1, <3>2, WillSays
  <2>3. CASE ~up BY <2>1, <2>3, WillSays DEF Deliver
  <2>4. QED BY <2>2, <2>3
<1>4. ASSUME NEW d \in Devices, FactoryReset(d) PROVE Retention'
  <2>1. PICK s \in States[d] :
          /\ conn' = conn \union {d} /\ retained' = [retained EXCEPT ![d] = Full(s)]
          /\ HandleLive(d, Full(s)) /\ UNCHANGED <<up, pending>>
    BY <1>4 DEF FactoryReset
  <2>2. \E h : live' = [live EXCEPT ![d] = h] BY <2>1 DEF HandleLive
  <2>3. QED BY <2>1, <2>2, FullSays
<1>5. ASSUME NEW d \in Devices, Replay(d) PROVE Retention'
  <2>1. pending' = pending \ {d} /\ UNCHANGED <<conn, retained, up>> BY <1>5 DEF Replay
  <2>2. live' = [live EXCEPT ![d] = writeLive(Hash(d), retained[d].msg)]
    BY <1>5 DEF Replay, Handle, HandleLive
  <2>3. IsOnline(writeLive(Hash(d), retained[d].msg)) = retained[d].msg["online"]
    BY WriteOnline
  <2>4. QED BY <2>1, <2>2, <2>3
<1>6. ASSUME NEW d \in Devices, Expire(d) \/ Remove(d) PROVE Retention'
  <2>1. live' = [live EXCEPT ![d] = None] /\ UNCHANGED <<conn, retained, up, pending>>
    BY <1>6 DEF Expire, Remove
  <2>2. QED BY <2>1
<1>7. CASE Stop BY <1>7 DEF Stop
<1>8. CASE Start BY <1>8 DEF Start
<1>9. ASSUME NEW d \in Devices, Age(d) \/ Session(d) \/ Enrol(d) \/ SyncRow(d)
      PROVE  Retention'
  BY <1>9 DEF Age, Session, Enrol, SyncRow
<1>10. CASE Judge \/ Search \/ HideOthers \/ SyncFails
  BY <1>10 DEF Judge, Search, HideOthers, SyncFails
<1>11. CASE UNCHANGED fleetVars BY <1>11 DEF fleetVars
<1>12. QED
  BY <1>1, <1>2, <1>3, <1>4, <1>5, <1>6, <1>7, <1>8, <1>9, <1>10, <1>11 DEF FleetNext

LEMMA RetentionInit == FleetInit => Retention
<1> SUFFICES ASSUME FleetInit PROVE Retention OBVIOUS
<1>1. \A d \in Devices : Initial[d] \in States[d] BY FleetAssumption
<1>2. \A d \in Devices : retained[d] = Full(Initial[d]) BY DEF FleetInit
<1>3. \A d \in Devices : retained[d] # None /\ "online" \in DOMAIN retained[d].msg
  BY <1>1, <1>2, FullSays
<1>4. QED BY <1>3 DEF FleetInit, Retention

\* A tablet that is shown online is connected, once ingest has caught up.
THEOREM OnlineAreConnected == FleetSpec => []OnlineIsConnected
<1>1. FleetInit => Retention BY RetentionInit
<1>2. Retention /\ [FleetNext]_fleetVars => Retention' BY RetentionStep
<1>3. FleetSpec => []Retention BY <1>1, <1>2, PTL DEF FleetSpec
<1>4. Retention => OnlineIsConnected
  BY DEF Retention, OnlineIsConnected, Hash, NoHash, IsOnline, Get
<1>5. QED BY <1>3, <1>4, PTL

-----------------------------------------------------------------------------
(* The sync hides nobody Headwind still lists.                             *)

\* What it takes for a value to be a row; what is reported may be anything.
IsRow(r) ==
  /\ r = [stale |-> r.stale, needs |-> r.needs, caps |-> r.caps, agentVer |-> r.agentVer,
          seen |-> r.seen]
  /\ r.stale \in BOOLEAN

Rows ==
  /\ rows = [d \in Devices |-> rows[d]]
  /\ \A d \in Devices : rows[d] = None \/ IsRow(rows[d])

\* The list is older than the sync's UPDATE: who is missing from it was missed.
Listing == sync.pc = "rows" /\ sync.list # {} => Devices \ sync.list \subseteq missed
Synced == sync = [pc |-> sync.pc, list |-> sync.list, todo |-> sync.todo]
Hidden == Rows /\ Listing /\ Synced

\* Nobody is hidden by a step.
NoneHidden ==
  \A d \in Devices : rows[d] # None /\ rows'[d] # None /\ rows'[d].stale => rows[d].stale

\* What the statements that change a row make of it.
LEMMA RowEdits ==
  ASSUME NEW r, IsRow(r)
  PROVE  /\ [r EXCEPT !.seen = "long"] =
              [stale |-> r.stale, needs |-> r.needs, caps |-> r.caps,
               agentVer |-> r.agentVer, seen |-> "long"]
         /\ [r EXCEPT !.seen = "recent", !.needs = TRUE, !.caps = ResetCaps] =
              [stale |-> r.stale, needs |-> TRUE, caps |-> ResetCaps,
               agentVer |-> r.agentVer, seen |-> "recent"]
         /\ \A b \in BOOLEAN : [r EXCEPT !.stale = b] =
              [stale |-> b, needs |-> r.needs, caps |-> r.caps,
               agentVer |-> r.agentVer, seen |-> r.seen]
<1>1. PICK st, n, c, v, se :
        r = [stale |-> st, needs |-> n, caps |-> c, agentVer |-> v, seen |-> se]
  BY DEF IsRow
<1>2. r.stale = st /\ r.needs = n /\ r.caps = c /\ r.agentVer = v /\ r.seen = se BY <1>1
<1>3. [r EXCEPT !.seen = "long"] =
        [stale |-> st, needs |-> n, caps |-> c, agentVer |-> v, seen |-> "long"]
  BY <1>1
<1>4. [r EXCEPT !.seen = "recent", !.needs = TRUE, !.caps = ResetCaps] =
        [stale |-> st, needs |-> TRUE, caps |-> ResetCaps, agentVer |-> v, seen |-> "recent"]
  <2>1. ASSUME NEW x, NEW y
        PROVE  [r EXCEPT !.seen = "recent", !.needs = x, !.caps = y] =
                 [stale |-> st, needs |-> x, caps |-> y, agentVer |-> v, seen |-> "recent"]
    <3>1. PICK q : q = [r EXCEPT !.seen = "recent", !.needs = x, !.caps = y] OBVIOUS
    <3>2. q = [stale |-> st, needs |-> x, caps |-> y, agentVer |-> v, seen |-> "recent"]
      BY <1>1, <3>1
    <3>3. QED BY <3>1, <3>2, Zenon
  <2>2. QED BY <2>1, Zenon
<1>5. ASSUME NEW b \in BOOLEAN
      PROVE  [r EXCEPT !.stale = b] =
               [stale |-> b, needs |-> n, caps |-> c, agentVer |-> v, seen |-> se]
  BY <1>1
<1>6. QED BY <1>2, <1>3, <1>4, <1>5

\* The row a message finds, or makes.
RowOf(d) == IF rows[d] = None THEN NewRow ELSE rows[d]

LEMMA RowAfterIs ==
  ASSUME NEW d \in Devices, NEW m, Rows
  PROVE  /\ IsRow(RowOf(d))
         /\ RowAfter(d, m) =
              [stale |-> RowOf(d).stale, needs |-> RowOf(d).needs,
               caps |-> IF m.caps = None THEN RowOf(d).caps ELSE m.caps,
               agentVer |-> IF m.caps = None THEN RowOf(d).agentVer ELSE m.agentVer,
               seen |-> "recent"]
<1> DEFINE row == RowOf(d)
<1>1. IsRow(row) BY DEF Rows, IsRow, NewRow, RowOf
<1>2. RowAfter(d, m) =
        [stale |-> row.stale, needs |-> row.needs,
         caps |-> IF m.caps = None THEN row.caps ELSE m.caps,
         agentVer |-> IF m.caps = None THEN row.agentVer ELSE m.agentVer, seen |-> "recent"]
  <2> HIDE DEF row
  <2>1. PICK st, n, c, v, se : row = [stale |-> st, needs |-> n, caps |-> c, agentVer |-> v,
                                      seen |-> se]
    BY <1>1 DEF IsRow
  <2>2. RowAfter(d, m) =
          [row EXCEPT !.seen = "recent", !.caps = IF m.caps = None THEN row.caps ELSE m.caps,
                      !.agentVer = IF m.caps = None THEN row.agentVer ELSE m.agentVer]
    BY DEF RowAfter, RowOf, row
  <2>3. QED BY <2>1, <2>2
<1>3. QED BY <1>1, <1>2

LEMMA RowAfterIsRow ==
  ASSUME NEW d \in Devices, NEW m, Rows
  PROVE  IsRow(RowAfter(d, m)) /\ (rows[d] # None => RowAfter(d, m).stale = rows[d].stale)
<1>1. RowOf(d).stale \in BOOLEAN BY RowAfterIs DEF IsRow
<1>2. IsRow(RowAfter(d, m)) /\ RowAfter(d, m).stale = RowOf(d).stale
  BY <1>1, RowAfterIs DEF IsRow
<1>3. QED BY <1>2 DEF RowOf

LEMMA HandleKeeps ==
  ASSUME NEW d \in Devices, NEW m, Rows, rows' = [rows EXCEPT ![d] = RowAfter(d, m)]
  PROVE  Rows' /\ NoneHidden
BY RowAfterIsRow DEF Rows, NoneHidden

LEMMA HiddenStep ==
  ASSUME Hidden, [FleetNext]_fleetVars
  PROVE  Hidden' /\ (NoneHidden \/ HideOthers)
<1> USE DEF Hidden, tablets, ingest, headwind, histories, World
<1>1. ASSUME NEW d \in Devices, Connect(d) \/ Beat(d) \/ Disconnect(d) \/ Replay(d)
      PROVE  Hidden' /\ NoneHidden
  <2>1. UNCHANGED <<sync, missed>> BY <1>1 DEF Connect, Beat, Disconnect, Replay
  <2>2. UNCHANGED rows \/ \E m : rows' = [rows EXCEPT ![d] = RowAfter(d, m)]
    BY <1>1 DEF Connect, Beat, Disconnect, Replay, Deliver, Handle
  <2>3. CASE UNCHANGED rows BY <2>1, <2>3 DEF Rows, NoneHidden, Listing, Synced
  <2>4. CASE \E m : rows' = [rows EXCEPT ![d] = RowAfter(d, m)]
    BY <2>1, <2>4, HandleKeeps DEF Listing, Synced
  <2>5. QED BY <2>2, <2>3, <2>4
<1>2. ASSUME NEW d \in Devices, FactoryReset(d) \/ Age(d) \/ Remove(d)
      PROVE  Hidden' /\ NoneHidden
  <2>1. UNCHANGED <<sync, missed>> BY <1>2 DEF FactoryReset, Age, Remove
  <2>2. rows' = [rows EXCEPT ![d] = None]
        \/ \E n, c, se : rows[d] # None /\ rows' = [rows EXCEPT ![d] =
             [stale |-> rows[d].stale, needs |-> n, caps |-> c,
              agentVer |-> rows[d].agentVer, seen |-> se]]
    <3>1. CASE Remove(d) BY <3>1 DEF Remove
    <3>2. CASE FactoryReset(d)
      <4>1. rows[d] # None /\ IsRow(rows[d]) BY <3>2 DEF FactoryReset, Rows
      <4>2. rows' = [rows EXCEPT ![d] =
                       [rows[d] EXCEPT !.seen = "recent", !.needs = TRUE, !.caps = ResetCaps]]
        BY <3>2 DEF FactoryReset
      <4>3. [rows[d] EXCEPT !.seen = "recent", !.needs = TRUE, !.caps = ResetCaps] =
              [stale |-> rows[d].stale, needs |-> TRUE, caps |-> ResetCaps,
               agentVer |-> rows[d].agentVer, seen |-> "recent"]
        BY <4>1, RowEdits
      <4>4. QED BY <4>1, <4>2, <4>3
    <3>3. CASE Age(d)
      <4>1. rows[d] # None /\ IsRow(rows[d]) BY <3>3 DEF Age, Rows
      <4>2. rows' = [rows EXCEPT ![d] = [rows[d] EXCEPT !.seen = "long"]] BY <3>3 DEF Age
      <4>3. [rows[d] EXCEPT !.seen = "long"] =
              [stale |-> rows[d].stale, needs |-> rows[d].needs, caps |-> rows[d].caps,
               agentVer |-> rows[d].agentVer, seen |-> "long"]
        BY <4>1, RowEdits
      <4>4. QED BY <4>1, <4>2, <4>3
    <3>4. QED BY <1>2, <3>1, <3>2, <3>3
  <2>3. Rows' /\ NoneHidden BY <2>2 DEF Rows, NoneHidden, IsRow
  <2>4. QED BY <2>1, <2>3 DEF Listing, Synced
<1>3. ASSUME NEW d \in Devices, SyncRow(d) PROVE Hidden' /\ NoneHidden
  <2>1. sync' = [sync EXCEPT !.todo = @ \ {d}] /\ UNCHANGED missed BY <1>3 DEF SyncRow
  <2>2. Listing' /\ Synced' BY <2>1 DEF Listing, Synced
  <2>3. CASE rows[d] = None
    <3>1. rows' = [rows EXCEPT ![d] = NewRow] BY <1>3, <2>3 DEF SyncRow
    <3>2. QED BY <2>2, <3>1, <2>3 DEF Rows, NoneHidden, NewRow, IsRow
  <2>4. CASE rows[d] # None
    <3>1. rows' = [rows EXCEPT ![d] = [rows[d] EXCEPT !.stale = FALSE]]
      BY <1>3, <2>4 DEF SyncRow
    <3>2. [rows[d] EXCEPT !.stale = FALSE] =
            [stale |-> FALSE, needs |-> rows[d].needs, caps |-> rows[d].caps,
             agentVer |-> rows[d].agentVer, seen |-> rows[d].seen]
      BY <2>4, RowEdits DEF Rows
    <3>3. QED BY <2>2, <3>1, <3>2 DEF Rows, NoneHidden, IsRow
  <2>5. QED BY <2>3, <2>4
<1>4. CASE HideOthers
  <2>1. Listing' /\ Synced' BY <1>4 DEF HideOthers, NoSync, Listing, Synced
  <2>2. CASE UNCHANGED rows BY <1>4, <2>1, <2>2 DEF Rows
  <2>3. CASE Hide(sync.list)
    <3>1. \A d \in Known : [rows[d] EXCEPT !.stale = TRUE] =
            [stale |-> TRUE, needs |-> rows[d].needs, caps |-> rows[d].caps,
             agentVer |-> rows[d].agentVer, seen |-> rows[d].seen]
      BY RowEdits DEF Rows, Known
    <3>2. QED BY <1>4, <2>1, <2>3, <3>1 DEF Hide, Rows, IsRow, Known
  <2>4. QED BY <1>4, <2>2, <2>3 DEF HideOthers
<1>5. CASE Search
  BY <1>5 DEF Search, Rows, NoneHidden, Listing, Synced
<1>6. ASSUME NEW d \in Devices, Enrol(d) PROVE Hidden' /\ NoneHidden
  BY <1>6 DEF Enrol, Rows, NoneHidden, Listing, Synced
<1>7. CASE SyncFails
  BY <1>7 DEF SyncFails, NoSync, Rows, NoneHidden, Listing, Synced
<1>8. ASSUME NEW d \in Devices, Expire(d) \/ Session(d) PROVE Hidden' /\ NoneHidden
  BY <1>8 DEF Expire, Session, Rows, NoneHidden, Listing, Synced
<1>9. CASE Stop \/ Start \/ Judge
  BY <1>9 DEF Stop, Start, Judge, Rows, NoneHidden, Listing, Synced
<1>10. CASE UNCHANGED fleetVars
  BY <1>10 DEF fleetVars, Rows, NoneHidden, Listing, Synced
<1>11. QED
  BY <1>1, <1>2, <1>3, <1>4, <1>5, <1>6, <1>7, <1>8, <1>9, <1>10 DEF FleetNext

\* The first rows.
LEMMA RowsInit ==
  ASSUME FleetInit
  PROVE  rows = [d \in Devices |->
                   [stale |-> FALSE, needs |-> FALSE, caps |-> Initial[d].caps,
                    agentVer |-> Initial[d].agentVer, seen |-> "recent"]]
<1>1. ASSUME NEW d \in Devices
      PROVE  rows[d] = [stale |-> FALSE, needs |-> FALSE, caps |-> Initial[d].caps,
                        agentVer |-> Initial[d].agentVer, seen |-> "recent"]
  <2>1. rows[d] = [NewRow EXCEPT !.seen = "recent", !.caps = Initial[d].caps,
                                 !.agentVer = Initial[d].agentVer]
    BY DEF FleetInit
  <2>2. QED BY <2>1 DEF NewRow
<1>2. QED BY <1>1 DEF FleetInit

LEMMA HiddenInit == FleetInit => Hidden
<1> SUFFICES ASSUME FleetInit PROVE Hidden OBVIOUS
<1>1. rows = [d \in Devices |->
                [stale |-> FALSE, needs |-> FALSE, caps |-> Initial[d].caps,
                 agentVer |-> Initial[d].agentVer, seen |-> "recent"]]
  BY RowsInit
<1>2. Rows BY <1>1 DEF Rows, IsRow
<1>3. QED BY <1>2 DEF FleetInit, Hidden, Listing, Synced, NoSync

\* The sync hides a device only if Headwind was without it at some moment of
\* that sync, whatever enrols, fails or is added in between.
THEOREM HiddenWereMissing == FleetSpec => HiddenWasMissing
<1>1. FleetInit => Hidden BY HiddenInit
<1>2. Hidden /\ [FleetNext]_fleetVars => Hidden' BY HiddenStep
<1>3. Hidden /\ [FleetNext]_fleetVars =>
        [\A d \in Devices :
           (rows[d] # None /\ rows'[d] # None /\ ~rows[d].stale /\ rows'[d].stale)
             => d \in missed]_fleetVars
  <2> SUFFICES ASSUME Hidden, FleetNext
      PROVE  \A d \in Devices :
               (rows[d] # None /\ rows'[d] # None /\ ~rows[d].stale /\ rows'[d].stale)
                 => d \in missed
    OBVIOUS
  <2>1. CASE NoneHidden BY <2>1 DEF NoneHidden
  <2>2. CASE HideOthers
    <3>1. CASE UNCHANGED rows BY <3>1
    <3>2. CASE sync.list # {} /\ Hide(sync.list)
      <4>1. Devices \ sync.list \subseteq missed
        BY <2>2, <3>2 DEF HideOthers, Hidden, Listing
      <4>2. \A d \in Devices : d \in sync.list => rows'[d] = rows[d] BY <3>2 DEF Hide
      <4>3. QED BY <4>1, <4>2
    <3>3. QED BY <2>2, <3>1, <3>2 DEF HideOthers
  <2>3. QED BY <2>1, <2>2, HiddenStep
<1>4. QED BY <1>1, <1>2, <1>3, PTL DEF FleetSpec, HiddenWasMissing

-----------------------------------------------------------------------------
(* What the views say of any rows.                                         *)

Ills == {"notReady", "missingA11y", "flapping", "lagging", "panelOff", "touchGone"}

\* The state rollout.ts makes of a row is the one dashboard.ts makes.
LEMMA StatesAreOne ==
  ASSUME NEW r
  PROVE  stateOf(r) = toState(r)
BY DEF stateOf, toState

\* What healthProblems finds, figure by figure, is what the lists are about.
LEMMA ProblemsAre ==
  ASSUME NEW r
  PROVE  /\ "NOT_READY" \in healthProblems(r) <=> TierOf(r) = "NOT_READY"
         /\ "NO_ACCESSIBILITY" \in healthProblems(r) <=> "a11y" \in Missing(r)
         /\ "FLAPPING" \in healthProblems(r) <=> Flapping(r)
         /\ "LAG" \in healthProblems(r) <=> Lagging(r)
         /\ "PANEL_OFF" \in healthProblems(r) <=> PanelOff(r)
         /\ "TOUCH_GONE" \in healthProblems(r) <=> TouchGone(r)
         /\ "NO_HW_DATA" \in healthProblems(r)
              <=> NoHw(r) /\ r.agentVer # None /\ atOrAbove(r.agentVer, HW_SINCE)
<1>1. Missing(r) = IF r.caps = None THEN {} ELSE {p \in Permissions : ~r.caps[p]}
  BY DEF Missing
<1>2. "a11y" \in Missing(r) <=> r.caps # None /\ ~r.caps.a11y BY <1>1 DEF Permissions
<1>3. /\ "NOT_READY" \in Broken(r) <=> TierOf(r) = "NOT_READY"
      /\ "NO_ACCESSIBILITY" \in Broken(r) <=> "a11y" \in Missing(r)
      /\ "FLAPPING" \in Broken(r) <=> Flapping(r)
      /\ Broken(r) \intersect {"LAG", "PANEL_OFF", "TOUCH_GONE", "NO_HW_DATA"} = {}
  BY <1>2, StatesAreOne DEF Broken, When, TierOf, Flapping
<1>4. /\ "LAG" \in Ailing(r) <=> Lagging(r)
      /\ Ailing(r) \intersect {"NOT_READY", "NO_ACCESSIBILITY", "FLAPPING", "NO_HW_DATA"} = {}
  BY DEF Ailing, When, Lagging
<1>5. "PANEL_OFF" \in Ailing(r) <=> PanelOff(r) BY DEF Ailing, When, PanelOff, Get
<1>6. "TOUCH_GONE" \in Ailing(r) <=> TouchGone(r) BY DEF Ailing, When, TouchGone, Get
<1>7. NoHw(r) => ~Lagging(r) /\ ~PanelOff(r) /\ ~TouchGone(r)
  BY DEF NoHw, Lagging, PanelOff, TouchGone, Get, LIMITS
<1>8. healthProblems(r) =
        Broken(r) \union
          IF NoHw(r)
          THEN When(r.agentVer # None /\ atOrAbove(r.agentVer, HW_SINCE), "NO_HW_DATA")
          ELSE Ailing(r)
  BY DEF healthProblems, NoHw
<1>9. QED BY <1>3, <1>4, <1>5, <1>6, <1>7, <1>8 DEF When

\* A device without problems is on no list of what an update can break, whether
\* its figures are there or not.
LEMMA NoProblems ==
  ASSUME NEW r, healthProblems(r) = {}, NEW key \in Ills
  PROVE  ~Listed(key, r)
<1>1. TierOf(r) # "NOT_READY" /\ "a11y" \notin Missing(r) /\ ~Flapping(r) BY ProblemsAre
<1>2. ~Lagging(r) /\ ~PanelOff(r) /\ ~TouchGone(r) BY ProblemsAre
<1>3. \A t \in Tiers : key # TIER_KEY[t] BY DEF Ills, Tiers, TIER_KEY
<1>4. ~OfflineToo(key, r) BY <1>1 DEF Ills, OfflineToo
<1>5. ~OnlineOnly(key, r) BY <1>2 DEF Ills, OnlineOnly, NETS
<1>6. QED BY <1>3, <1>4, <1>5 DEF Listed

LEMMA DoneMeans ==
  ASSUME NEW r, NEW target, bucket(r, target) = "done"
  PROVE  r.agentVer # None /\ atOrAbove(r.agentVer, target) /\ r.online
         /\ healthProblems(r) = {}
BY DEF bucket

\* A device that counts as done is on none of the dashboard's lists of what an
\* update can break, whatever the rows and the hashes hold.
THEOREM DoneAreHealthy == FleetSpec => []DoneIsHealthy
<1>1. DoneIsHealthy
  <2> DEFINE view == dash
  <2> SUFFICES ASSUME NEW d \in InBucket("done", view, Target)
      PROVE  /\ view[d].online /\ atOrAbove(view[d].agentVer, Target)
             /\ \A key \in Ills : ~Listed(key, view[d])
             /\ Listed("noHwData", view[d]) => semverLt(view[d].agentVer, HW_SINCE)
    BY DEF DoneIsHealthy, Ills
  <2> DEFINE r == view[d]
  <2>1. bucket(r, Target) = "done" BY DEF InBucket
  <2> HIDE DEF r, view
  <2>2. /\ r.agentVer # None /\ atOrAbove(r.agentVer, Target) /\ r.online
        /\ healthProblems(r) = {}
    BY <2>1, DoneMeans
  <2>3. \A key \in Ills : ~Listed(key, r) BY <2>2, NoProblems
  <2>4. Listed("noHwData", r) => NoHw(r)
    BY DEF Listed, OfflineToo, OnlineOnly, NETS, Tiers, TIER_KEY
  <2>5. NoHw(r) => semverLt(r.agentVer, HW_SINCE) BY <2>2, ProblemsAre DEF atOrAbove
  <2>6. QED BY <2>2, <2>3, <2>4, <2>5 DEF r
<1>2. QED BY <1>1, PTL

-----------------------------------------------------------------------------
(* The exit code.                                                          *)

LEMMA FullRate ==
  ASSUME NEW n \in Nat, n > 0
  PROVE  (n * 1000) \div n = 1000
OBVIOUS

LEMMA CompleteMeans ==
  ASSUME NEW view, IsFiniteSet(DOMAIN view), NEW target,
         summarizeRollout(view, target).complete
  PROVE  /\ DOMAIN view # {} /\ \A d \in DOMAIN view : bucket(view[d], target) = "done"
         /\ summarizeRollout(view, target).perMille = 1000
<1> DEFINE total == Cardinality(DOMAIN view)
           done == InBucket("done", view, target)
<1>1. done \subseteq DOMAIN view BY DEF InBucket
<1>2. total > 0 /\ Cardinality(done) = total BY DEF summarizeRollout, Buckets
<1>3. done = DOMAIN view BY <1>1, <1>2, FS_Subset
<1>4. total \in Nat BY FS_CardinalityType
<1>5. DOMAIN view # {} BY <1>2, FS_EmptySet
<1>6. (total * 1000) \div total = 1000 BY <1>2, <1>4, FullRate
<1>7. summarizeRollout(view, target).perMille
        = IF total = 0 THEN 0 ELSE (Cardinality(done) * 1000) \div total
  BY DEF summarizeRollout, Buckets
<1>8. QED BY <1>2, <1>3, <1>5, <1>6, <1>7 DEF InBucket

\* verify-rollout exits with 0 only if the inventory has the expected size and
\* every device of it is done.
THEOREM ExitsAreComplete == FleetSpec => ExitIsComplete
<1>1. [FleetNext]_fleetVars =>
        [verdict = None /\ verdict' = 0 =>
           /\ Shown # {} /\ Expect \in {None, Cardinality(Shown)}
           /\ \A d \in Shown : bucket(dash[d], Target) = "done"
           /\ summarizeRollout(dash, Target).perMille = 1000]_fleetVars
  <2> SUFFICES ASSUME FleetNext, verdict = None, verdict' = 0
      PROVE  /\ Shown # {} /\ Expect \in {None, Cardinality(Shown)}
             /\ \A d \in Shown : bucket(dash[d], Target) = "done"
             /\ summarizeRollout(dash, Target).perMille = 1000
    OBVIOUS
  <2>1. CASE Judge
    <3>1. rollout(Target, dash).complete /\ Expect \in {None, rollout(Target, dash).total}
      BY <2>1 DEF Judge
    <3> DEFINE view == dash
    <3>2. DOMAIN view = Shown /\ IsFiniteSet(Shown)
      BY FleetAssumption, FS_Subset DEF dash, Shown, Known
    <3>3. summarizeRollout(view, Target).complete
          /\ rollout(Target, view).total = Cardinality(DOMAIN view)
      <4> HIDE DEF view
      <4>1. rollout(Target, view).complete = summarizeRollout(view, Target).complete
            /\ rollout(Target, view).total = summarizeRollout(view, Target).total
        BY FleetAssumption DEF rollout
      <4>2. summarizeRollout(view, Target).total = Cardinality(DOMAIN view)
        BY DEF summarizeRollout
      <4>3. rollout(Target, view).complete BY <3>1 DEF view
      <4>4. QED BY <4>1, <4>2, <4>3
    <3> HIDE DEF view
    <3>4. /\ DOMAIN view # {} /\ \A d \in DOMAIN view : bucket(view[d], Target) = "done"
          /\ summarizeRollout(view, Target).perMille = 1000
      BY <3>2, <3>3, CompleteMeans
    <3>5. Expect \in {None, Cardinality(Shown)} BY <3>1, <3>2, <3>3 DEF view
    <3>6. QED BY <3>2, <3>4, <3>5 DEF view
  <2>2. CASE ~Judge
    <3>1. verdict' = verdict
      BY <2>2 DEF FleetNext, Connect, Beat, Disconnect, FactoryReset, Replay, Expire, Age,
         Session, Remove, Enrol, SyncRow, Stop, Start, Search, HideOthers, SyncFails, World
    <3>2. QED BY <3>1, FleetAssumption
  <2>3. QED BY <2>1, <2>2
<1>2. QED BY <1>1, PTL DEF FleetSpec, ExitIsComplete

-----------------------------------------------------------------------------
(* A message that comes twice.                                             *)

LEMMA WriteIs ==
  ASSUME NEW h, NEW m
  PROVE  /\ DOMAIN writeLive(h, m) =
              ((DOMAIN h \union DOMAIN liveHashPatch(m)) \ hwLivePatch(m).del)
                \union hwLivePatch(m).set
         /\ writeLive(h, m) = [k \in DOMAIN writeLive(h, m) |-> writeLive(h, m)[k]]
         /\ \A k \in DOMAIN writeLive(h, m) :
              writeLive(h, m)[k] =
                IF k \in hwLivePatch(m).set THEN m[k]
                ELSE IF k \in DOMAIN liveHashPatch(m) THEN liveHashPatch(m)[k] ELSE h[k]
BY DEF writeLive

\* hset, hset and hdel of writeLive leave a hash that they do not change again.
LEMMA WriteTwice ==
  ASSUME NEW h, NEW m
  PROVE  writeLive(writeLive(h, m), m) = writeLive(h, m)
<1> DEFINE once == writeLive(h, m)
           twice == writeLive(once, m)
           set == hwLivePatch(m).set
           del == hwLivePatch(m).del
           patch == liveHashPatch(m)
<1>1. set \intersect del = {} BY DEF hwLivePatch
<1>2. /\ DOMAIN once = ((DOMAIN h \union DOMAIN patch) \ del) \union set
      /\ \A k \in DOMAIN once :
           once[k] = IF k \in set THEN m[k] ELSE IF k \in DOMAIN patch THEN patch[k] ELSE h[k]
  BY WriteIs
<1>3. /\ DOMAIN twice = ((DOMAIN once \union DOMAIN patch) \ del) \union set
      /\ \A k \in DOMAIN twice :
           twice[k] = IF k \in set THEN m[k]
                      ELSE IF k \in DOMAIN patch THEN patch[k] ELSE once[k]
  BY WriteIs
<1>4. twice = [k \in DOMAIN twice |-> twice[k]] /\ once = [k \in DOMAIN once |-> once[k]]
  BY WriteIs
<1> HIDE DEF once, twice, set, del, patch
<1>5. DOMAIN twice = DOMAIN once BY <1>2, <1>3
<1>6. ASSUME NEW k \in DOMAIN once PROVE twice[k] = once[k]
  BY <1>2, <1>3, <1>5
<1>7. twice = once BY <1>4, <1>5, <1>6
<1>8. QED BY <1>7 DEF once, twice

\* MQTT may deliver a message again, and the broker replays the retained one to
\* every ingest that subscribes: once a message of a tablet is handled, onState of
\* the same message changes neither the row of the tablet nor its hash, whatever
\* they were before.
THEOREM HandledTwice ==
  ASSUME Rows, live = [e \in Devices |-> live[e]],
         NEW CONSTANT d \in Devices, NEW CONSTANT m, Handle(d, m),
         rows'[d] # None, live'[d] # None
  PROVE  /\ rows' = [rows' EXCEPT ![d] = RowAfter(d, m)']
         /\ live' = [live' EXCEPT ![d] = writeLive(Hash(d)', m.msg)]
<1>1. rows' = [rows EXCEPT ![d] = RowAfter(d, m)] /\ HandleLive(d, m) BY DEF Handle
<1>2. live' = [live EXCEPT ![d] = writeLive(Hash(d), m.msg)] BY <1>1 DEF HandleLive
<1>3. live'[d] = writeLive(Hash(d), m.msg) /\ Hash(d)' = live'[d] BY <1>2 DEF Hash
<1>4. writeLive(Hash(d)', m.msg) = live'[d] BY <1>3, WriteTwice
<1>5. live' = [e \in Devices |-> live'[e]] BY <1>2
<1>6. rows'[d] = RowAfter(d, m) BY <1>1 DEF Rows
<1>7. Rows' BY <1>1, HandleKeeps
<1>8. RowAfter(d, m)' = rows'[d]
  <2>1. rows'[d] = [stale |-> RowOf(d).stale, needs |-> RowOf(d).needs,
               caps |-> IF m.caps = None THEN RowOf(d).caps ELSE m.caps,
               agentVer |-> IF m.caps = None THEN RowOf(d).agentVer ELSE m.agentVer,
               seen |-> "recent"]
    BY <1>6, RowAfterIs
  <2>2. RowOf(d)' = rows'[d] BY DEF RowOf
  <2>3. RowAfter(d, m)' = [stale |-> RowOf(d)'.stale, needs |-> RowOf(d)'.needs,
               caps |-> IF m.caps = None THEN RowOf(d)'.caps ELSE m.caps,
               agentVer |-> IF m.caps = None THEN RowOf(d)'.agentVer ELSE m.agentVer,
               seen |-> "recent"]
    <3>1. RowAfter(d, m)' =
            [RowOf(d)' EXCEPT !.seen = "recent",
               !.caps = IF m.caps = None THEN @ ELSE m.caps,
               !.agentVer = IF m.caps = None THEN @ ELSE m.agentVer]
      BY DEF RowAfter, RowOf
    <3>2. IsRow(RowOf(d)') BY <1>7, <2>2 DEF Rows
    <3>3. QED BY <3>1, <3>2 DEF IsRow
  <2>4. QED BY <2>1, <2>2, <2>3
<1>9. QED BY <1>4, <1>5, <1>7, <1>8 DEF Rows
=============================================================================
