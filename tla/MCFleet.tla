------------------------------ MODULE MCFleet ------------------------------
(* Two tablets: one that sends everything there is to say, on the edges of *)
(* the limits, and one that has been dropped four times today.             *)
EXTENDS Fleet

Caps(pm, a11y, knox, overlay, secure) ==
  [projectMedia |-> pm, a11y |-> a11y, knox |-> knox, overlay |-> overlay, secureSettings |-> secure]
Agent(caps, ver) == [caps |-> caps, agentVer |-> ver]
FullCaps == Caps("allow", TRUE, "licensed", TRUE, TRUE)

Moment(screen, charging, battery, net, rssi) ==
  [screenOn |-> screen, charging |-> charging, batteryPct |-> battery, net |-> net, rssi |-> rssi]
With(a, b) == [k \in DOMAIN a \union DOMAIN b |-> IF k \in DOMAIN b THEN b[k] ELSE a[k]]

Fine == With(Moment(TRUE, TRUE, 20, "wifi", 0),
             [display |-> 2, touchDevs |-> 2, mainLagMs |-> 1499, thermal |-> -1, fgPkg |-> "app"])
Cell == Moment(TRUE, FALSE, 20, "cellular", -100)
Faint == With(Moment(FALSE, FALSE, 19, "cellular", -101),
              [display |-> 1, memAvailMb |-> 249, fgPkg |-> ""])
Sick == With(Moment(TRUE, TRUE, 20, "ethernet", 0),
             [display |-> 3, touchDevs |-> 0, mainLagMs |-> 1500, battTempC |-> 47, uiIdleMs |-> 24])

Says(caps, ver, v) == [caps |-> caps, agentVer |-> ver, volatile |-> v]
Good == Says(FullCaps, <<1, 5, 0>>, Fine)
MCStates ==
  [d \in Devices |->
     IF d = 2 THEN {Good}
     ELSE {Good, Says(FullCaps, <<1, 1, 9>>, Cell), Says(FullCaps, <<2, 0, 0>>, Cell),
           Says(Caps("default", FALSE, "licensed", TRUE, TRUE), <<1, 4, 8>>, Sick),
           Says(Caps("allow", FALSE, "licensed", FALSE, TRUE), <<2, 0, 0>>, Fine)}]
MCBeats == [d \in Devices |-> IF d = 2 THEN {} ELSE {Cell, Faint, Sick}]
MCInitial == [d \in Devices |-> Good]
MCDrops == [d \in Devices |-> IF d = 2 THEN 4 ELSE 0]
MCTarget == <<1, 4, 8>>
=============================================================================
