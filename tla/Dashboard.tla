----------------------------- MODULE Dashboard -----------------------------
(***************************************************************************)
(* packages/shared: what the fleet views make of the rows rc-api loaded.   *)
(* rows is a function from the visible devices to their DashRow; a list of *)
(* device ids is a set, a counter the number its own code adds up.  A time *)
(* is "never", "recent" or "long" ago: longer than the limit it is held    *)
(* against.                                                                *)
(***************************************************************************)
EXTENDS Readiness

CONSTANT None

LIMITS == [lagMs |-> 1500, hotBattC |-> 47, hotThermal |-> 3, lowMemMb |-> 250,
           lowDiskMb |-> 300, lowBatteryPct |-> 20, weakRssi |-> -100,
           idleLongH |-> 6, idleVeryLongH |-> 24, flappingDrops |-> 5]

NoCaps == [projectMedia |-> "blocked", a11y |-> FALSE, knox |-> "unsupported",
           overlay |-> FALSE, secureSettings |-> FALSE]

\* Of a device that never reported, everything is missing.
toState(r) ==
  [online |-> r.online, caps |-> IF r.caps = None THEN NoCaps ELSE r.caps,
   agentVer |-> IF r.agentVer = None THEN NoVersion ELSE r.agentVer,
   volatile |-> r.volatile, needsReprovisioning |-> r.needs]

TierOf(r) == computeReadiness(toState(r)).tier

-----------------------------------------------------------------------------
(* Conditions on one row.                                                  *)

Permissions == {"secureSettings", "a11y", "overlay"}
Missing(r) == IF r.caps = None THEN {} ELSE {p \in Permissions : ~r.caps[p]}

LongOffline(r) == ~r.online /\ r.seen = "long"
Flapping(r)    == r.drops >= LIMITS.flappingDrops
LowBattery(r)  == ~r.volatile.charging /\ r.volatile.batteryPct < LIMITS.lowBatteryPct
WeakSignal(r)  == /\ r.volatile.net = "cellular"
                  /\ r.volatile.rssi # 0 /\ r.volatile.rssi < LIMITS.weakRssi

NoHw(r)      == DOMAIN r.hw = {}
Lagging(r)   == Get(r.hw, "mainLagMs", 0) >= LIMITS.lagMs
Hot(r)       == \/ Get(r.hw, "battTempC", 0) >= LIMITS.hotBattC
                \/ Get(r.hw, "thermal", 0) >= LIMITS.hotThermal
LowMem(r)    == "memAvailMb" \in DOMAIN r.hw /\ r.hw["memAvailMb"] < LIMITS.lowMemMb
LowDisk(r)   == "diskFreeMb" \in DOMAIN r.hw /\ r.hw["diskFreeMb"] < LIMITS.lowDiskMb
PanelOff(r)  == r.volatile.screenOn /\ Get(r.hw, "display", 2) \in {1, 3, 4}
TouchGone(r) == Get(r.hw, "touchDevs", 1) = 0
IdleFor(r, hours) == Get(r.hw, "uiIdleMs", -1) >= hours

-----------------------------------------------------------------------------
(* summarizeFleet.                                                         *)

NETS == {"wifi", "cellular", "ethernet"}

WEIGHT == [NOT_READY |-> 5, PANEL_OFF |-> 5, TOUCH_GONE |-> 5, LAG |-> 3, HOT |-> 3,
           LOW_MEM |-> 2, LOW_DISK |-> 2, FLAPPING |-> 3, MISSING_PERMISSIONS |-> 2,
           LOW_BATTERY |-> 1, OFFLINE_OVER_24H |-> 1]

\* The sum of the weights, of which there are four.
Score(reasons) ==
  LET of(w) == Cardinality({c \in reasons : WEIGHT[c] = w}) IN
    of(1) + 2 * of(2) + 3 * of(3) + 5 * of(5)

\* The keys of lists, and which devices each has.  Those that need a tablet to
\* be online come after the loop has left the offline ones.
OfflineToo(key, r) ==
  CASE key = "online" -> r.online
    [] key = "offline" -> ~r.online
    [] key = "neverSeen" -> ~r.online /\ r.seen = "never"
    [] key = "offlineOver24h" -> LongOffline(r)
    [] key = "notReady" -> TierOf(r) = "NOT_READY"
    [] key = "permissionsUnknown" -> r.caps = None
    [] key = "permissionsIncomplete" -> Missing(r) # {}
    [] key = "permissionsComplete" -> r.caps # None /\ Missing(r) = {}
    [] key = "missingSecureSettings" -> "secureSettings" \in Missing(r)
    [] key = "missingA11y" -> "a11y" \in Missing(r)
    [] key = "missingOverlay" -> "overlay" \in Missing(r)
    [] key = "outdated" -> r.agentVer # None /\ semverLt(r.agentVer, MIN_AGENT_VER)
    [] key = "flapping" -> Flapping(r)
    [] key = "noSession7d" -> r.session # "recent"
    [] OTHER -> FALSE
OnlineOnly(key, r) ==
  CASE key \in NETS -> r.volatile.net = key
    [] key = "weakSignal" -> WeakSignal(r)
    [] key = "notCharging" -> ~r.volatile.charging
    [] key = "lowBattery" -> LowBattery(r)
    [] key = "noHwData" -> NoHw(r)
    [] key = "lagging" -> Lagging(r)
    [] key = "hot" -> Hot(r)
    [] key = "lowMem" -> LowMem(r)
    [] key = "lowDisk" -> LowDisk(r)
    [] key = "panelOff" -> PanelOff(r)
    [] key = "touchGone" -> TouchGone(r)
    [] key = "uiIdle24h" -> IdleFor(r, LIMITS.idleVeryLongH)
    [] key = "uiIdle6h" -> IdleFor(r, LIMITS.idleLongH)
    [] OTHER -> FALSE

TIER_KEY == [READY |-> "tier:READY", DEGRADED |-> "tier:DEGRADED",
             NOT_READY |-> "tier:NOT_READY", OFFLINE |-> "tier:OFFLINE"]

Listed(key, r) ==
  \/ OfflineToo(key, r)
  \/ r.online /\ OnlineOnly(key, r)
  \/ \E t \in Tiers : key = TIER_KEY[t] /\ TierOf(r) = t

List(key, rows) == {d \in DOMAIN rows : Listed(key, rows[d])}
VersionList(v, rows) == {d \in DOMAIN rows : rows[d].agentVer = v}

\* The reasons the loop gathers for a tablet that is online.
Reasons(r) ==
  When(TierOf(r) = "NOT_READY", "NOT_READY")
    \union When(Missing(r) # {}, "MISSING_PERMISSIONS")
    \union When(Flapping(r), "FLAPPING")
    \union When(LowBattery(r), "LOW_BATTERY")
    \union When(Lagging(r), "LAG") \union When(Hot(r), "HOT")
    \union When(LowMem(r), "LOW_MEM") \union When(LowDisk(r), "LOW_DISK")
    \union When(PanelOff(r), "PANEL_OFF") \union When(TouchGone(r), "TOUCH_GONE")

\* Mutant: the second loop forgets the drops.
LateReasonsNoDrops(r) ==
  When(r.seen = "long", "OFFLINE_OVER_24H")
    \union When(r.caps # None /\ \E p \in Permissions : ~r.caps[p], "MISSING_PERMISSIONS")

\* And those the second loop, which writes its conditions again, gathers for one
\* that is not.
LateReasons(r) ==
  When(r.drops >= LIMITS.flappingDrops, "FLAPPING")
    \union When(r.seen = "long", "OFFLINE_OVER_24H")
    \union When(r.caps # None /\ \E p \in Permissions : ~r.caps[p], "MISSING_PERMISSIONS")

ReasonsOf(r) == IF r.online THEN Reasons(r) ELSE LateReasons(r)
Scored(rows) == {d \in DOMAIN rows : Score(ReasonsOf(rows[d])) > 0}

\* b comes before d.
Outranks(rows, b, d) ==
  LET score(x) == Score(ReasonsOf(rows[x])) IN
    score(b) > score(d) \/ (score(b) = score(d) /\ b < d)

attention(rows, max) ==
  {d \in Scored(rows) : Cardinality({b \in Scored(rows) : Outranks(rows, b, d)}) < max}

\* The counters that are not the length of a list.
tiers(rows) == [t \in Tiers |-> Cardinality({d \in DOMAIN rows : TierOf(rows[d]) = t})]
On(rows, net) == Cardinality({d \in DOMAIN rows : rows[d].online /\ rows[d].volatile.net = net})
Unplaced(rows) ==
  Cardinality({d \in DOMAIN rows : rows[d].online /\ rows[d].volatile.net \notin NETS})
Weak(rows) == Cardinality({d \in DOMAIN rows : rows[d].online /\ WeakSignal(rows[d])})
NeverSeen(rows) ==
  Cardinality({d \in DOMAIN rows : ~rows[d].online /\ rows[d].seen = "never"})

\* Mutant: those that never reported count as permitted.
WithoutCapsNone(rows) ==
  Cardinality(DOMAIN rows) - Cardinality({d \in DOMAIN rows : Missing(rows[d]) = {}})

WithoutCaps(rows) ==
  Cardinality(DOMAIN rows) - Cardinality({d \in DOMAIN rows : rows[d].caps # None})

\* The figure that stands on the tile of a key.
Figure(key, rows) ==
  IF key \in NETS THEN On(rows, key)
  ELSE IF key = "permissionsUnknown" THEN WithoutCaps(rows)
  ELSE IF key = "weakSignal" THEN Weak(rows)
  ELSE IF key = "neverSeen" THEN NeverSeen(rows)
  ELSE Cardinality(List(key, rows))

-----------------------------------------------------------------------------
(* briefOf: a line of the page behind a tile.                              *)

briefOf(r) ==
  LET now(x) == IF r.online THEN x ELSE None IN
    [online |-> r.online, tier |-> TierOf(r), agentVer |-> r.agentVer,
     missing |-> IF r.caps = None THEN None ELSE Missing(r),
     drops |-> r.drops, seen |-> r.seen, session |-> r.session,
     batteryPct |-> now(r.volatile.batteryPct), net |-> now(r.volatile.net),
     charging |-> now(r.volatile.charging), rssi |-> now(r.volatile.rssi),
     hw |-> now(r.hw)]

-----------------------------------------------------------------------------
(* The rollout of a version.                                               *)

atOrAbove(ver, target) == ~semverLt(ver, target)

\* rollout.ts has a state and conditions of its own; only LIMITS is shared.
stateOf(r) ==
  LET caps == IF r.caps = None THEN NoCaps ELSE r.caps
      ver  == IF r.agentVer = None THEN NoVersion ELSE r.agentVer
  IN [online |-> r.online, agentVer |-> ver, caps |-> caps, volatile |-> r.volatile,
      needsReprovisioning |-> r.needs]

\* Mutant: one drop more than the dashboard allows.
BrokenOver(r) ==
  When(computeReadiness(stateOf(r)).tier = "NOT_READY", "NOT_READY")
    \union When(r.caps # None /\ ~r.caps.a11y, "NO_ACCESSIBILITY")
    \union When(r.drops > LIMITS.flappingDrops, "FLAPPING")

\* What ails a tablet whatever its monitor says,
Broken(r) ==
  When(computeReadiness(stateOf(r)).tier = "NOT_READY", "NOT_READY")
    \union When(r.caps # None /\ ~r.caps.a11y, "NO_ACCESSIBILITY")
    \union When(r.drops >= LIMITS.flappingDrops, "FLAPPING")

\* and what the figures of the monitor say.
Ailing(r) ==
  When(Get(r.hw, "mainLagMs", 0) >= LIMITS.lagMs, "LAG")
    \union When(/\ r.volatile.screenOn
                /\ "display" \in DOMAIN r.hw /\ r.hw["display"] \in {1, 3, 4}, "PANEL_OFF")
    \union When("touchDevs" \in DOMAIN r.hw /\ r.hw["touchDevs"] = 0, "TOUCH_GONE")

\* Mutant: a dead monitor is no problem.
healthProblemsNoHw(r) == Broken(r) \union Ailing(r)

healthProblems(r) ==
  Broken(r)
    \union IF DOMAIN r.hw = {}
           THEN When(r.agentVer # None /\ atOrAbove(r.agentVer, HW_SINCE), "NO_HW_DATA")
           ELSE Ailing(r)

Buckets == {"done", "updatedUnhealthy", "updatedOffline", "pendingOnline",
            "pendingOffline", "unknown"}

bucket(r, target) ==
  IF r.agentVer = None THEN "unknown"
  ELSE IF ~atOrAbove(r.agentVer, target)
  THEN IF r.online THEN "pendingOnline" ELSE "pendingOffline"
  ELSE IF ~r.online THEN "updatedOffline"
  ELSE IF healthProblems(r) # {} THEN "updatedUnhealthy" ELSE "done"

InBucket(b, rows, target) == {d \in DOMAIN rows : bucket(rows[d], target) = b}

summarizeRollout(rows, target) ==
  LET total  == Cardinality(DOMAIN rows)
      counts == [b \in Buckets |-> Cardinality(InBucket(b, rows, target))]
  IN [total |-> total, counts |-> counts,
      perMille |-> IF total = 0 THEN 0 ELSE (counts["done"] * 1000) \div total,
      complete |-> total > 0 /\ counts["done"] = total]

Running(rows) == {rows[d].agentVer : d \in DOMAIN rows} \ {None}

\* The highest version that runs, if any does.
suggestedTarget(rows) ==
  IF Running(rows) = {} THEN None
  ELSE CHOOSE v \in Running(rows) : \A w \in Running(rows) : ~semverLt(v, w)
=============================================================================
