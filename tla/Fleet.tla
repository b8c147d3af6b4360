------------------------------- MODULE Fleet -------------------------------
(***************************************************************************)
(* The fleet as rc-api shows it: the rows of Postgres and the live hashes  *)
(* of Redis that state messages, the broker, the Headwind sync and         *)
(* DELETE /devices/:id change, and the views that are computed from them.  *)
(* scripts/verify-rollout.mjs polls one of them.                           *)
(*                                                                         *)
(* Ingest handles a message in one step here (Ingest takes it apart), and  *)
(* a request reads Postgres and Redis in one; what is proved of the views  *)
(* in Fleet_proofs holds of any rows, whenever each part was read.  The    *)
(* operator sees every device.                                             *)
(***************************************************************************)
EXTENDS Dashboard

CONSTANTS
  Devices,     \* numbers, which order them as their ids do
  Unlisted,    \* the devices Headwind does not know at first
  States,      \* what each device may say when it connects: records
               \* [caps, agentVer, volatile]
  Beats,       \* and in a heartbeat: functions on fields of VOLATILE, HW_FIELDS
  Target,      \* the version that is rolled out
  Expect,      \* --expect, or None
  Initial,     \* what each device has said before, and
  Drops,       \* how often the broker has seen it go within a day
  MaxChanges   \* bound: changes of the world in a behaviour

ASSUME FleetAssumption ==
  /\ IsFiniteSet(Devices) /\ Devices \subseteq Int /\ Unlisted \subseteq Devices
  /\ Target # None /\ None \notin {0, 1}
  /\ \A d \in Devices :
       /\ Initial[d] \in States[d] /\ Drops[d] \in Nat
       /\ \A s \in States[d] : /\ s.caps # None /\ s.agentVer # None
                               /\ "online" \notin DOMAIN s.volatile
       /\ \A v \in Beats[d] : "online" \notin DOMAIN v

VARIABLES
  rows,      \* Postgres devices and their capabilities, or None
  stat,      \* Postgres sessions and device_conn_events, of each device
  live,      \* Redis device:<d>, or None
  conn,      \* the tablets that are connected to the broker
  retained,  \* the retained message of rc/state/<d>, or None
  up,        \* ingest runs
  pending,   \* devices whose retained message the broker still has to replay
  mdm,       \* the devices Headwind lists
  sync,      \* the Headwind sync: [pc, list, todo]
  verdict,   \* the exit code of verify-rollout, or None while it polls
  changes,   \* counts the changes of the world
  forgotten, \* history: tablets whose hash went while they stayed connected
  monitored, \* history: the last message that told of the moment had figures
  missed     \* history: devices Headwind did not list at some moment of sync

tablets   == <<conn, retained>>
ingest    == <<up, pending>>
headwind  == <<mdm, sync, missed>>
histories == <<forgotten, monitored>>
fleetVars == <<rows, stat, live, tablets, ingest, headwind, verdict, changes, histories>>

NewRow == [stale |-> FALSE, needs |-> FALSE, caps |-> None, agentVer |-> None,
           seen |-> "never"]
NoStat == [session |-> "never", drops |-> 0]
NoHash == [k \in {} |-> 0]
Known  == {d \in Devices : rows[d] # None}
NoSync == [pc |-> "idle", list |-> {}, todo |-> {}]

Changed == changes < MaxChanges /\ changes' = changes + 1

Hash(d)     == IF live[d] = None THEN NoHash ELSE live[d]
IsOnline(h) == Get(h, "online", FALSE)

-----------------------------------------------------------------------------
(* State messages.  A full one says "online" and reports; the heartbeat    *)
(* has the moment only; the last will says it is offline and nothing else. *)

Full(s) ==
  [msg |-> [k \in DOMAIN s.volatile \union {"online"} |->
              IF k = "online" THEN TRUE ELSE s.volatile[k]],
   caps |-> s.caps, agentVer |-> s.agentVer]
Heartbeat(v) == [msg |-> v, caps |-> None, agentVer |-> None]
Will == Heartbeat([k \in {"online"} |-> FALSE])

ASSUME MessagesAreSome ==
  Will # None /\ \A d \in Devices : \A s \in States[d] : Full(s) # None

\* Every device has registered and is connected.
FleetInit ==
  /\ rows = [d \in Devices |-> [NewRow EXCEPT !.seen = "recent", !.caps = Initial[d].caps,
                                             !.agentVer = Initial[d].agentVer]]
  /\ stat = [d \in Devices |-> [NoStat EXCEPT !.drops = Drops[d]]]
  /\ live = [d \in Devices |-> writeLive(NoHash, Full(Initial[d]).msg)]
  /\ conn = Devices /\ retained = [d \in Devices |-> Full(Initial[d])]
  /\ up = TRUE /\ pending = {}
  /\ mdm = Devices \ Unlisted /\ sync = NoSync /\ missed = {}
  /\ verdict = None /\ changes = 0
  /\ forgotten = {}
  /\ monitored = {d \in Devices : volatileHasHw(Initial[d].volatile)}

\* Mutant: a heartbeat clears the version of the row it touches.
RowAfterBlank(d, m) ==
  [(IF rows[d] = None THEN NewRow ELSE rows[d]) EXCEPT !.agentVer = m.agentVer]

\* ensureDevice, last_seen, and the capabilities if it has them.
RowAfter(d, m) ==
  LET row == IF rows[d] = None THEN NewRow ELSE rows[d] IN
    [row EXCEPT !.seen = "recent",
                !.caps = IF m.caps = None THEN @ ELSE m.caps,
                !.agentVer = IF m.caps = None THEN @ ELSE m.agentVer]

HandleLive(d, m) ==
  /\ live' = [live EXCEPT ![d] = writeLive(Hash(d), m.msg)]
  /\ forgotten' = IF "online" \in DOMAIN m.msg THEN forgotten \ {d} ELSE forgotten
  /\ monitored' = IF volatileHasHw(m.msg) THEN monitored \union {d}
                  ELSE IF m = Will THEN monitored ELSE monitored \ {d}

\* onState.
Handle(d, m) ==
  /\ rows' = [rows EXCEPT ![d] = RowAfter(d, m)]
  /\ HandleLive(d, m)

\* While ingest is down nobody is subscribed: its session is clean.
Deliver(d, m) ==
  IF up THEN Handle(d, m) ELSE UNCHANGED <<rows, live, histories>>

\* The tablet connects and publishes its state, to be retained.
Connect(d) ==
  \E s \in States[d] :
    /\ Changed
    /\ conn' = conn \union {d}
    /\ retained' = [retained EXCEPT ![d] = Full(s)]
    /\ Deliver(d, Full(s))
    /\ UNCHANGED <<stat, ingest, headwind, verdict>>

\* publishState(false), every heartbeat; it is not retained.
Beat(d) ==
  \E v \in Beats[d] :
    /\ d \in conn /\ up /\ Changed
    /\ Handle(d, Heartbeat(v))
    /\ UNCHANGED <<stat, tablets, ingest, headwind, verdict>>

\* Mutant: the last will is not retained.
DisconnectUnretained(d) ==
  /\ d \in conn /\ Changed
  /\ conn' = conn \ {d}
  /\ Deliver(d, Will)
  /\ UNCHANGED <<stat, retained, ingest, headwind, verdict>>

\* The broker publishes the last will and the event that onSys counts.
Disconnect(d) ==
  /\ d \in conn /\ Changed
  /\ conn' = conn \ {d}
  /\ retained' = [retained EXCEPT ![d] = Will]
  /\ Deliver(d, Will)
  /\ stat' = IF up /\ rows[d] # None
             THEN [stat EXCEPT ![d].drops = @ + 1] ELSE stat
  /\ UNCHANGED <<ingest, headwind, verdict>>

\* checkFactoryReset: the tablet has another Android id by now.  Its report is
\* not stored; what was stored is overwritten.
ResetCaps == [NoCaps EXCEPT !.knox = "unlicensed"]
ASSUME ResetIsSome == ResetCaps # None

FactoryReset(d) ==
  \E s \in States[d] :
    /\ up /\ rows[d] # None /\ rows[d].caps # None /\ Changed
    /\ conn' = conn \union {d}
    /\ retained' = [retained EXCEPT ![d] = Full(s)]
    /\ rows' = [rows EXCEPT ![d].seen = "recent", ![d].needs = TRUE, ![d].caps = ResetCaps]
    /\ HandleLive(d, Full(s))
    /\ UNCHANGED <<stat, ingest, headwind, verdict>>

-----------------------------------------------------------------------------
(* Ingest stops and starts; hashes expire; time passes.                    *)

Stop ==
  /\ up /\ Changed
  /\ up' = FALSE /\ pending' = {}
  /\ UNCHANGED <<rows, stat, live, tablets, headwind, verdict, histories>>

\* Mutant: what was published while ingest was down is gone.
StartEmpty ==
  /\ ~up
  /\ up' = TRUE /\ pending' = {}
  /\ UNCHANGED <<rows, stat, live, tablets, headwind, verdict, changes, histories>>

\* The subscription brings every retained message, one by one.
Start ==
  /\ ~up
  /\ up' = TRUE /\ pending' = {d \in Devices : retained[d] # None}
  /\ UNCHANGED <<rows, stat, live, tablets, headwind, verdict, changes, histories>>

Replay(d) ==
  /\ d \in pending
  /\ pending' = pending \ {d}
  /\ Handle(d, retained[d])
  /\ UNCHANGED <<stat, tablets, up, headwind, verdict, changes>>

\* TTL.device: nothing came for 180 seconds.  The heartbeats of a tablet that
\* is connected come in time.
Expire(d) ==
  /\ live[d] # None /\ (d \notin conn \/ ~up) /\ Changed
  /\ live' = [live EXCEPT ![d] = None]
  /\ UNCHANGED <<rows, stat, tablets, ingest, headwind, verdict, histories>>

\* A day after the last message; and the session it had was a week ago.
Age(d) ==
  /\ rows[d] # None /\ rows[d].seen = "recent" /\ live[d] = None
  /\ (d \notin conn \/ ~up) /\ Changed
  /\ rows' = [rows EXCEPT ![d].seen = "long"]
  /\ stat' = [stat EXCEPT ![d].session = IF @ = "recent" THEN "long" ELSE @]
  /\ UNCHANGED <<live, tablets, ingest, headwind, verdict, histories>>

\* POST /sessions.
Session(d) ==
  /\ rows[d] # None /\ stat[d].session # "recent" /\ Changed
  /\ stat' = [stat EXCEPT ![d].session = "recent"]
  /\ UNCHANGED <<rows, live, tablets, ingest, headwind, verdict, histories>>

\* DevicesService.remove.
Remove(d) ==
  /\ rows[d] # None /\ Changed
  /\ rows' = [rows EXCEPT ![d] = None]
  /\ stat' = [stat EXCEPT ![d] = NoStat]
  /\ live' = [live EXCEPT ![d] = None]
  /\ forgotten' = IF d \in conn THEN forgotten \union {d} ELSE forgotten
  /\ monitored' = monitored \ {d}
  /\ UNCHANGED <<tablets, ingest, headwind, verdict>>

-----------------------------------------------------------------------------
(* HmdmSyncService.syncFromHeadwind, every five minutes.                   *)

World == <<stat, live, tablets, ingest, verdict, histories>>

Enrol(d) ==
  /\ Changed
  /\ mdm' = IF d \in mdm THEN mdm \ {d} ELSE mdm \union {d}
  /\ missed' = IF sync.pc = "idle" THEN {} ELSE missed \union {d}
  /\ UNCHANGED <<rows, sync, World>>

\* searchDevices: the list, or nothing when the answer has another shape.
Search ==
  \E list \in {mdm, {}} :
    /\ sync.pc = "idle"
    /\ sync' = [pc |-> "rows", list |-> list, todo |-> list]
    /\ missed' = Devices \ mdm
    /\ UNCHANGED <<rows, mdm, changes, World>>

\* INSERT ... ON CONFLICT DO UPDATE.
SyncRow(d) ==
  /\ sync.pc = "rows" /\ d \in sync.todo
  /\ sync' = [sync EXCEPT !.todo = @ \ {d}]
  /\ rows' = [rows EXCEPT ![d] = IF @ = None THEN NewRow ELSE [@ EXCEPT !.stale = FALSE]]
  /\ UNCHANGED <<mdm, missed, changes, World>>

Hide(list) ==
  rows' = [d \in Devices |-> IF d \in Known \ list THEN [rows[d] EXCEPT !.stale = TRUE]
                             ELSE rows[d]]

\* Mutant: an empty list hides everybody.
HideOthersAlways ==
  /\ sync.pc = "rows" /\ sync.todo = {}
  /\ Hide(sync.list)
  /\ sync' = NoSync
  /\ UNCHANGED <<mdm, missed, changes, World>>

\* UPDATE devices SET stale = true, unless the list was empty.
HideOthers ==
  /\ sync.pc = "rows" /\ sync.todo = {}
  /\ IF sync.list = {} THEN UNCHANGED rows ELSE Hide(sync.list)
  /\ sync' = NoSync
  /\ UNCHANGED <<mdm, missed, changes, World>>

\* Headwind or a statement fails: the rest is left for the next time.
SyncFails ==
  /\ sync.pc = "rows"
  /\ sync' = NoSync
  /\ UNCHANGED <<rows, mdm, missed, changes, World>>

-----------------------------------------------------------------------------
(* What the API makes of it.                                               *)

\* The DashRow of a device.
dashRow(row, hash, st) ==
  [online |-> IsOnline(hash), seen |-> row.seen, agentVer |-> row.agentVer,
   caps |-> row.caps, needs |-> row.needs, volatile |-> volatileFromHash(hash),
   hw |-> hwFromHash(hash), session |-> st.session, drops |-> st.drops]

\* FleetService has its own copy of toDeviceState.
rowToState(row, hash) ==
  [online |-> IsOnline(hash),
   agentVer |-> IF row.agentVer = None THEN NoVersion ELSE row.agentVer,
   caps |-> IF row.caps = None THEN NoCaps ELSE row.caps,
   volatile |-> volatileFromHash(hash), needsReprovisioning |-> row.needs]

toDeviceState(row, hash) ==
  LET caps == IF row.caps = None THEN NoCaps ELSE row.caps
      ver  == IF row.agentVer = None THEN NoVersion ELSE row.agentVer
  IN [online |-> IsOnline(hash), agentVer |-> ver, caps |-> caps,
      volatile |-> volatileFromHash(hash), needsReprovisioning |-> row.needs]

toDto(row, state, hash) ==
  [readiness |-> computeReadiness(state), volatile |-> state.volatile, hw |-> hwFromHash(hash),
   caps |-> state.caps, agentVer |-> state.agentVer, online |-> state.online,
   needs |-> row.needs, stale |-> row.stale, seen |-> row.seen]

\* GET /devices/:id, and the lines of GET /devices with their filters, or None.
get(d) == toDto(rows[d], toDeviceState(rows[d], Hash(d)), Hash(d))
list(tier, stale) ==
  {d \in Known : stale \in {None, rows[d].stale} /\ tier \in {None, get(d).readiness.tier}}

\* What POST /sessions judges; a device without a row has the empty one.
emptyRow == [stale |-> FALSE, needs |-> FALSE, caps |-> None, agentVer |-> None,
             seen |-> "never"]
getState(d) == toDeviceState(IF rows[d] = None THEN emptyRow ELSE rows[d], Hash(d))

\* loadDashRows: what is not stale.
Shown == {d \in Known : ~rows[d].stale}
dash == [d \in Shown |-> dashRow(rows[d], Hash(d), stat[d])]
healthOf == [d \in Shown |-> computeReadiness(rowToState(rows[d], Hash(d)))]

\* FleetService.health.
health ==
  LET of(t) == Cardinality({d \in Shown : healthOf[d].tier = t}) IN
    [ready |-> of("READY"), degraded |-> of("DEGRADED"), notReady |-> of("NOT_READY"),
     offline |-> of("OFFLINE"),
     missing |-> [p \in Permissions |->
       Cardinality({d \in Shown : /\ healthOf[d].tier # "OFFLINE" /\ rows[d].agentVer # None
                                  /\ ~rows[d].caps[p]})]]

KNOWN_LIST_KEYS ==
  {"online", "offline", "offlineOver24h", "neverSeen", "notReady", "flapping",
   "permissionsComplete", "permissionsIncomplete", "permissionsUnknown",
   "missingSecureSettings", "missingA11y", "missingOverlay", "lagging", "hot", "lowMem",
   "lowDisk", "panelOff", "touchGone", "noHwData", "uiIdle6h", "uiIdle24h", "noSession7d",
   "lowBattery", "notCharging", "weakSignal", "wifi", "cellular", "ethernet", "outdated",
   "tier:READY", "tier:DEGRADED", "tier:NOT_READY", "tier:OFFLINE"}

\* The page behind a tile; any other key is 404.  Of a version, likewise.
dashboardList(key, view) ==
  IF key \in KNOWN_LIST_KEYS
  THEN [status |-> 200, rows |-> [d \in List(key, view) |-> briefOf(view[d])]]
  ELSE [status |-> 404]
versionPage(v, view) == [d \in VersionList(v, view) |-> briefOf(view[d])]

\* The tiles of Dashboard.tsx.
TILES == KNOWN_LIST_KEYS \ {"notReady"}

\* Without a target, the highest version that runs is meant.
rollout(target, view) ==
  LET newest == suggestedTarget(view)
      goal   == IF target # None THEN target ELSE IF newest # None THEN newest ELSE NoVersion
      r      == summarizeRollout(view, goal)
  IN [total |-> r.total, counts |-> r.counts, perMille |-> r.perMille, complete |-> r.complete,
      target |-> goal, problemDevices |-> Cardinality(InBucket("updatedUnhealthy", view, goal))]

rolloutList(b, target, view) ==
  [d \in InBucket(b, view, target) |->
     [brief |-> briefOf(view[d]),
      reasons |-> IF b = "updatedUnhealthy" THEN healthProblems(view[d]) ELSE {}]]

\* Mutant: --expect is not looked at.
JudgeAnySize ==
  /\ verdict = None
  /\ verdict' = IF rollout(Target, dash).complete THEN 0 ELSE 1
  /\ UNCHANGED <<rows, mdm, missed, sync, changes, stat, live, tablets, ingest, histories>>

\* verify-rollout.mjs asks for the last time: the rollout is complete, or it is
\* out of time.
Judge ==
  LET r == rollout(Target, dash) IN
    /\ verdict = None
    /\ verdict' = IF r.complete /\ Expect \in {None, r.total} THEN 0 ELSE 1
    /\ UNCHANGED <<rows, mdm, missed, sync, changes, stat, live, tablets, ingest, histories>>

-----------------------------------------------------------------------------
FleetNext ==
  \/ \E d \in Devices :
       \/ Connect(d) \/ Beat(d) \/ Disconnect(d) \/ FactoryReset(d) \/ Replay(d)
       \/ Expire(d) \/ Age(d) \/ Session(d) \/ Remove(d) \/ Enrol(d) \/ SyncRow(d)
  \/ Stop \/ Start \/ Judge \/ Search \/ HideOthers \/ SyncFails

\* Ingest is restarted and gets the retained messages.
FleetSpec ==
  FleetInit /\ [][FleetNext]_fleetVars
    /\ WF_fleetVars(Start) /\ \A d \in Devices : WF_fleetVars(Replay(d))

-----------------------------------------------------------------------------
FleetTypeOK ==
  /\ \A d \in Devices :
       /\ rows[d] # None => /\ rows[d].seen \in {"never", "recent", "long"}
                            /\ (rows[d].caps = None) = (rows[d].agentVer = None)
       /\ live[d] # None => DOMAIN live[d] \subseteq VOLATILE \union HW_FIELDS \union {"online"}
       /\ stat[d].drops \in Nat
  /\ conn \subseteq Devices /\ pending \subseteq Devices /\ mdm \subseteq Devices
  /\ sync.todo \subseteq sync.list /\ sync.list \subseteq Devices
  /\ verdict \in {None, 0, 1}

\* A tablet that is shown online is connected, once ingest has caught up with
\* the broker: neither a heartbeat nor a replayed message makes one online that
\* has left (liveHashPatch, the retained last will).
OnlineIsConnected ==
  up => \A d \in Devices \ pending : IsOnline(Hash(d)) => d \in conn

\* A tablet that stays connected is shown online again after ingest was away
\* for longer than its hash lives; except when its device was removed
\* meanwhile, whose hash heartbeats build up again without "online".
ComesBack ==
  \A d \in Devices :
    d \in conn ~> (IsOnline(Hash(d)) \/ d \notin conn \/ d \in forgotten)

\* The dashboard's limits are those of the readiness: a tablet is listed for
\* its battery or its signal exactly when readiness warns of it, and READY
\* means that no list has anything against it.
LimitsAgree(view, judged) ==
  \A d \in DOMAIN view :
    /\ judged[d].tier \in {"READY", "DEGRADED"} =>
         /\ Listed("lowBattery", view[d]) <=> "LOW_BATTERY" \in judged[d].warns
         /\ Listed("weakSignal", view[d]) <=> "WEAK_SIGNAL" \in judged[d].warns
         /\ ~Listed("outdated", view[d])
    /\ Listed("outdated", view[d]) /\ view[d].online => judged[d].tier = "NOT_READY"

ProblemList == [NOT_READY |-> "notReady", NO_ACCESSIBILITY |-> "missingA11y",
                FLAPPING |-> "flapping", LAG |-> "lagging", PANEL_OFF |-> "panelOff",
                TOUCH_GONE |-> "touchGone"]

\* The rollout judges as the dashboard does: whatever healthProblems, which has
\* a state and conditions of its own, has against a tablet that is online, the
\* dashboard lists it for, and the other way round; and a dead monitor is a
\* problem exactly of an agent that must have one.
RolloutAgrees(view) ==
  \A d \in DOMAIN view : view[d].online =>
    /\ \A c \in DOMAIN ProblemList :
         c \in healthProblems(view[d]) <=> Listed(ProblemList[c], view[d])
    /\ "NO_HW_DATA" \in healthProblems(view[d])
         <=> /\ Listed("noHwData", view[d]) /\ view[d].agentVer # None
             /\ atOrAbove(view[d].agentVer, HW_SINCE)

\* Every view of a device says the same of it: its tier in the device list, on
\* its own page, in the dashboard, behind a tile and in health; a permission is
\* missing for all of them or for none; and a start is let through only for a
\* device that has reported and that the list calls READY or DEGRADED, even
\* when heartbeats of a deleted one rebuild its hash.  The readiness, the
\* dashboard and the rollout, which each write their conditions down, judge by
\* the same limits (LimitsAgree, RolloutAgrees).
ViewsAgree ==
  LET view == dash
      judged == healthOf
      t == tiers(view)
      h == health
  IN /\ \A d \in Shown : /\ briefOf(view[d]).tier = judged[d].tier
                         /\ d \in list(judged[d].tier, FALSE)
                         /\ view[d].agentVer = None => Listed("permissionsUnknown", view[d])
     /\ \A d \in Devices :
          computeReadiness(getState(d)).tier \in {"READY", "DEGRADED"} =>
            /\ d \in list("READY", None) \union list("DEGRADED", None)
            /\ d \in Known /\ rows[d].caps # None
     /\ <<t["READY"], t["DEGRADED"], t["NOT_READY"], t["OFFLINE"]>>
          = <<h.ready, h.degraded, h.notReady, h.offline>>
     /\ h.missing["a11y"]
          = Cardinality(List("missingA11y", view) \intersect List("online", view))
     /\ LimitsAgree(view, judged)
     /\ RolloutAgrees(view)

ListOf == [NOT_READY |-> "notReady", PANEL_OFF |-> "panelOff", TOUCH_GONE |-> "touchGone",
           LAG |-> "lagging", HOT |-> "hot", LOW_MEM |-> "lowMem", LOW_DISK |-> "lowDisk",
           FLAPPING |-> "flapping", MISSING_PERMISSIONS |-> "permissionsIncomplete",
           LOW_BATTERY |-> "lowBattery", OFFLINE_OVER_24H |-> "offlineOver24h"]

\* The attention list, which two loops fill, agrees with the tiles: a device is
\* on it for a reason exactly when it is in the list of that reason.
AttentionMatchesLists(view) ==
  LET shown == attention(view, Cardinality(Devices)) IN
    \A c \in DOMAIN ListOf :
      List(ListOf[c], view) = {d \in shown : c \in ReasonsOf(view[d])}

\* Every figure opens the devices it counts: a tile of the dashboard, a segment
\* of the tiers, a version, a bucket of the rollout; and a reason is given for
\* exactly those that are updated and not healthy.  The attention list likewise.
TilesOpen ==
  LET view == dash
      t == tiers(view)
  IN /\ \A key \in TILES : LET page == dashboardList(key, view) IN
          page.status = 200 /\ Figure(key, view) = Cardinality(DOMAIN page.rows)
     /\ \A tier \in Tiers :
          t[tier] = Cardinality(DOMAIN dashboardList(TIER_KEY[tier], view).rows)
     /\ \A d \in Shown : d \in DOMAIN versionPage(view[d].agentVer, view)
     /\ \A target \in {None, Target} :
          LET r == rollout(target, view) IN
            /\ \A b \in Buckets : LET page == rolloutList(b, r.target, view) IN
                 /\ Cardinality(DOMAIN page) = r.counts[b]
                 /\ \A d \in DOMAIN page : page[d].reasons # {} <=> b = "updatedUnhealthy"
            /\ r.problemDevices = r.counts["updatedUnhealthy"]
     /\ AttentionMatchesLists(view)

\* A device that counts as done is on the target, online, and on none of the
\* dashboard's lists of what an update can break (summarizeRollout against
\* summarizeFleet).
DoneIsHealthy ==
  LET view == dash IN
    \A d \in InBucket("done", view, Target) :
      /\ view[d].online /\ atOrAbove(view[d].agentVer, Target)
      /\ \A key \in {"notReady", "missingA11y", "flapping", "lagging", "panelOff", "touchGone"} :
           ~Listed(key, view[d])
      /\ Listed("noHwData", view[d]) => semverLt(view[d].agentVer, HW_SINCE)

\* verify-rollout exits with 0 only if the inventory has the expected size and
\* every device of it is done.
ExitIsComplete ==
  [][verdict = None /\ verdict' = 0 =>
       /\ Shown # {} /\ Expect \in {None, Cardinality(Shown)}
       /\ \A d \in Shown : bucket(dash[d], Target) = "done"
       /\ summarizeRollout(dash, Target).perMille = 1000]_fleetVars

\* The sync hides a device only if Headwind was without it at some moment of
\* that sync: an empty answer or a failure in the middle hides nobody.
HiddenWasMissing ==
  [][\A d \in Devices :
       (rows[d] # None /\ rows'[d] # None /\ ~rows[d].stale /\ rows'[d].stale)
         => d \in missed]_fleetVars

\* An agent of 1.4.7 or later that stopped sending figures is not done: its old
\* figures do not stay in the hash (the comment in hwLivePatch).
MonitorRuns ==
  \A d \in Known :
    bucket(dashRow(rows[d], Hash(d), stat[d]), HW_SINCE) = "done" => d \in monitored
=============================================================================
