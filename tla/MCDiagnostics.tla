---------------------------- MODULE MCDiagnostics ----------------------------
(***************************************************************************)
(* Two dumps and two probes of one tablet, an event of it, and a probe of  *)
(* another tablet; one worker, as docker-compose.yml starts.               *)
(***************************************************************************)
EXTENDS Diagnostics, TLC

MCDumps   == {"r1", "r2"}
MCProbes  == {"p1", "p2", "p3"}
MCEvents  == {"e"}
MCAutos   == {"a"}
MCStrays  == {"s"}
MCAutoOf  == [e \in MCEvents |-> "a"]
MCDeviceOf == [x \in {"r1", "r2", "p1", "p2", "e", "a", "s"} |-> "d1"] @@ [x \in {"p3"} |-> "d2"]
=============================================================================
