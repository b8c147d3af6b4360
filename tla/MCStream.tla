------------------------------ MODULE MCStream ------------------------------
(* Two viewers of one agent, the second of which may replace the first.    *)
EXTENDS Stream
=============================================================================
