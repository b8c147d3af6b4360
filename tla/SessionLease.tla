---------------------------- MODULE SessionLease ----------------------------
(***************************************************************************)
(* What device:activeSession:<d> promises: a lease on a device.  A session *)
(* takes it once, when nobody holds it; it ends in one way or another.     *)
(* Nothing is said of who ends it, for the code lets everybody.            *)
(***************************************************************************)
CONSTANTS Sids, Devices, DeviceOf, None

VARIABLES
  holder,  \* who holds the lease on a device
  taken    \* sessions that have had their lease

leaseVars == <<holder, taken>>

Init ==
  /\ holder = [d \in Devices |-> None]
  /\ taken = {}

Grant(s) ==
  /\ s \notin taken
  /\ holder[DeviceOf[s]] = None
  /\ holder' = [holder EXCEPT ![DeviceOf[s]] = s]
  /\ taken' = taken \union {s}

End(d) ==
  /\ holder[d] # None
  /\ holder' = [holder EXCEPT ![d] = None]
  /\ UNCHANGED taken

Next == (\E s \in Sids : Grant(s)) \/ (\E d \in Devices : End(d))

Spec == Init /\ [][Next]_leaseVars
=============================================================================
