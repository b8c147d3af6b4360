------------------------------ MODULE MCIngest ------------------------------
(* Ingest with two tablets' worth of ids and four reports: two that differ  *)
(* in the agent's version only, others that differ in the capabilities, and *)
(* one of a tablet that has none, which a reset writes as well.             *)
EXTENDS Ingest

Report(c, v) == [caps |-> c, ver |-> v]
MCReports == {Report("full", "v1"), Report("full", "v2"), Report("none", "v1"),
              Report(Blocked, "v1")}
FewReports == {Report("full", "v1"), Report("none", "v1")}
=============================================================================
