-------------------------- MODULE MCReportPipeline --------------------------
(* Instances of ReportPipeline for TLC. *)
EXTENDS ReportPipeline

\* A behaviour has reports or files, not both: they meet in the sweep only,
\* which handles each key on its own.  Nobody is ever obliged to create a
\* report, to upload or to delete, so no fairness is cut off.
ReportsOrFiles ==
  \/ \A r \in Reports : creator[r] = "idle"
  \/ /\ \A f \in Files : upload[f] = "idle"
     /\ \A d \in Deletions : deletion[d].pc = "idle"
     /\ parents = {"content", "plan"}
=============================================================================
