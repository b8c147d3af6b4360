----------------------------- MODULE MCSessions -----------------------------
(* Three requests for one tablet: two of one operator, one of another.     *)
EXTENDS Sessions

CONSTANTS s1, s2, s3, tab, ann, bob

MCDeviceOf == [s \in Sids |-> tab]
MCOperatorOf == [s \in Sids |-> IF s = s3 THEN bob ELSE ann]
=============================================================================
