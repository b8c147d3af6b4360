------------------------------ MODULE MCRemote ------------------------------
(* Up to three requests for one tablet; the first session gets two         *)
(* attempts of its agent and two viewers.                                  *)
EXTENDS RemoteControl

CONSTANTS s1, s2, s3, tab, ann, bob, kim, a1, a2, v1, v2

MCDeviceOf == [s \in Sids |-> tab]
MCOperatorOf == [s \in Sids |-> ann]
MCThreeOperators == [s \in Sids |-> IF s = s1 THEN ann ELSE IF s = s2 THEN bob ELSE kim]
MCRoleOf == [k \in Conns |-> IF k \in {a1, a2} THEN "agent" ELSE "viewer"]
MCSidOf == [k \in Conns |-> s1]
=============================================================================
