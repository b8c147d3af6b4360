---------------------------- MODULE SessionLife ----------------------------
(***************************************************************************)
(* What the row of a session promises about its state (SessionState):      *)
(* its own start, and nothing else, begins it, places it or fails it, each *)
(* once; it becomes active only after it was placed; anybody may close it, *)
(* even before; and the rows of a device are forgotten together.  An       *)
(* UPDATE of a row that is not there does nothing.                         *)
(***************************************************************************)
CONSTANTS Sids, Devices, DeviceOf

VARIABLES
  state,  \* of each row; "none": there is no row
  stage   \* of each start: "new", "begun", and "settled" once it has placed
          \* its session, failed it, or given up

lifeVars == <<state, stage>>

Init ==
  /\ state = [s \in Sids |-> "none"]
  /\ stage = [s \in Sids |-> "new"]

Settle(s)     == stage' = [stage EXCEPT ![s] = "settled"]
Enter(s, new) == state' = [state EXCEPT ![s] = IF @ = "none" THEN "none" ELSE new]

Begin(s) ==
  /\ stage[s] = "new"
  /\ stage' = [stage EXCEPT ![s] = "begun"]
  /\ state' = [state EXCEPT ![s] = "probing"]

Place(s)  == stage[s] = "begun" /\ Settle(s) /\ Enter(s, "starting")
Fail(s)   == stage[s] = "begun" /\ Settle(s) /\ Enter(s, "failed")
GiveUp(s) == stage[s] # "settled" /\ Settle(s) /\ UNCHANGED state

Activate(s) ==
  /\ state[s] = "starting"
  /\ state' = [state EXCEPT ![s] = "active"]
  /\ UNCHANGED stage

Close(s) == Enter(s, "closed") /\ UNCHANGED stage

Forget(d) ==
  /\ state' = [s \in Sids |-> IF DeviceOf[s] = d THEN "none" ELSE state[s]]
  /\ UNCHANGED stage

Next ==
  \/ \E s \in Sids :
       Begin(s) \/ Place(s) \/ Fail(s) \/ GiveUp(s) \/ Activate(s) \/ Close(s)
  \/ \E d \in Devices : Forget(d)

Spec == Init /\ [][Next]_lifeVars
=============================================================================
