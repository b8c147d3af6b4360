----------------------------- MODULE Readiness -----------------------------
(***************************************************************************)
(* packages/shared: how a device is judged.  computeReadiness, the order   *)
(* of versions, and the hash device:<d> as ingest writes it from a message *)
(* and as the API reads it back.  A version is a triple of numbers; a hash *)
(* and the hardware figures in it are functions whose domain is the set of *)
(* fields that are there, so that "absent" differs from every value.       *)
(***************************************************************************)
EXTENDS Integers, FiniteSets

When(p, x) == IF p THEN {x} ELSE {}
Get(f, k, default) == IF k \in DOMAIN f THEN f[k] ELSE default

-----------------------------------------------------------------------------
(* Versions.                                                               *)

\* The first number that differs decides.
semverLt(a, b) ==
  \E i \in 1..3 : a[i] < b[i] /\ \A j \in 1..(i - 1) : a[j] = b[j]

NoVersion == <<0, 0, 0>>
MIN_AGENT_VER == <<1, 2, 0>>
HW_SINCE == <<1, 4, 7>>

-----------------------------------------------------------------------------
(* The live hash.                                                          *)

HW_FIELDS == {"thermal", "battTempC", "memAvailMb", "diskFreeMb", "cpuPct", "gpuPct",
              "display", "touchDevs", "mainLagMs", "uiIdleMs", "fgPkg"}
UNKNOWN_IS_MINUS_ONE == {"thermal", "diskFreeMb", "touchDevs", "uiIdleMs"}
VOLATILE == {"screenOn", "charging", "batteryPct", "net", "rssi"}

\* What hset writes for every message: a field the message does not carry is
\* written as false, 0 or the empty string; online only when it is there.
liveHashPatch(msg) ==
  [k \in VOLATILE \union (DOMAIN msg \intersect {"online"}) |->
     CASE k \in {"screenOn", "charging"} -> Get(msg, k, FALSE)
       [] k \in {"batteryPct", "rssi"}   -> Get(msg, k, 0)
       [] k = "net"                      -> Get(msg, k, "")
       [] OTHER                          -> msg[k]]

volatileHasHw(msg) == DOMAIN msg \intersect HW_FIELDS # {}

\* Figures the tablet could not read count as absent.
Readable(msg) ==
  {k \in DOMAIN msg \intersect HW_FIELDS :
     /\ ~(k \in UNKNOWN_IS_MINUS_ONE /\ msg[k] = -1)
     /\ ~(k = "display" /\ msg[k] = 0)
     /\ ~(k = "fgPkg" /\ msg[k] = "")}

\* A message without any figure leaves those of the hash alone; any other
\* replaces them all.
hwLivePatch(msg) ==
  IF volatileHasHw(msg)
  THEN [set |-> Readable(msg), del |-> HW_FIELDS \ Readable(msg)]
  ELSE [set |-> {}, del |-> {}]

\* The hash after hset, hset and hdel; a hash that was not there is created.
writeLive(hash, msg) ==
  LET patch == liveHashPatch(msg)
      hw    == hwLivePatch(msg)
  IN [k \in ((DOMAIN hash \union DOMAIN patch) \ hw.del) \union hw.set |->
        IF k \in hw.set THEN msg[k]
        ELSE IF k \in DOMAIN patch THEN patch[k] ELSE hash[k]]

hwFromHash(hash) ==
  [k \in DOMAIN hash \intersect HW_FIELDS |-> hash[k]]

volatileFromHash(hash) ==
  [screenOn   |-> Get(hash, "screenOn", FALSE),
   charging   |-> Get(hash, "charging", FALSE),
   batteryPct |-> Get(hash, "batteryPct", 0),
   net        |-> Get(hash, "net", "unknown"),
   rssi       |-> Get(hash, "rssi", 0)]

-----------------------------------------------------------------------------
(* computeReadiness.                                                       *)

Blockers(s) ==
  LET blind == s.caps.projectMedia # "allow" /\ ~s.caps.a11y IN
    When(blind, "NO_CAPTURE_PATH")
      \union When(s.caps.knox # "licensed" /\ ~s.caps.a11y, "NO_INPUT_PATH")
      \union When(blind /\ ~s.caps.overlay, "NO_BG_ACTIVITY_START")
      \union When(semverLt(s.agentVer, MIN_AGENT_VER), "AGENT_OUTDATED")
      \union When(s.needsReprovisioning, "NEEDS_REPROVISIONING")

\* Mutant: the limit itself is already low.
WarnsAtLimit(s) ==
  When(~s.volatile.charging /\ s.volatile.batteryPct <= 20, "LOW_BATTERY")

Warns(s) ==
  When(s.caps.projectMedia # "allow", "NEEDS_AUTOCLICK")
    \union When(~s.volatile.screenOn, "SCREEN_OFF")
    \union When(s.caps.knox # "licensed", "GESTURE_INPUT_ONLY")
    \union When(~s.volatile.charging /\ s.volatile.batteryPct < 20, "LOW_BATTERY")
    \union When(s.volatile.net = "cellular" /\ s.volatile.rssi < -100, "WEAK_SIGNAL")

Tiers == {"READY", "DEGRADED", "NOT_READY", "OFFLINE"}

computeReadiness(s) ==
  IF ~s.online THEN [tier |-> "OFFLINE", blockers |-> {}, warns |-> {}]
  ELSE IF Blockers(s) # {}
       THEN [tier |-> "NOT_READY", blockers |-> Blockers(s), warns |-> {}]
       ELSE [tier     |-> IF Warns(s) = {} THEN "READY" ELSE "DEGRADED",
             blockers |-> {}, warns |-> Warns(s)]
=============================================================================
