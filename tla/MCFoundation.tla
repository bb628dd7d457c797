---------------------------- MODULE MCFoundation ----------------------------
(***************************************************************************)
(* The foundation graph with the outcomes its handlers (demo/nodes.py) can *)
(* return.  A handler may also raise; which faults a run explores is in    *)
(* FaultyOutcomes.                                                         *)
(***************************************************************************)
EXTENDS EngineUninterrupted, FoundationGraph

FoundationResumeNode == [n \in FoundationNodes |->
  IF n = "lineage.dba_request" THEN "lineage.ingest_dba" ELSE n]
FoundationAskedOutcomes == [n \in FoundationNodes |->
  IF n = "intake.coverage" THEN {"success"} ELSE {"waiting_for_input"}]

\* What the handlers return when their material is there.
SuppliedOutcomes == [n \in FoundationNodes |->
  CASE n = "lineage.dba_request" -> {"skipped"}
    [] n = "inventory.extract" -> {"success", "skipped"}
    [] OTHER -> {"success"}]
\* ... and when something goes wrong on the way.
FaultyOutcomes == [n \in FoundationNodes |->
  CASE n = "quality.gate" -> {"success", "failed"}
    [] n = "runtime.legacy_interpret" -> {"success", "quota", "rejected"}
    [] n \in {"sas.discover", "doc.map_apps"} -> {"success", "raised"}
    [] OTHER -> SuppliedOutcomes[n]]
\* ... and when a handler finds nothing to work on and waits without asking.
UnsuppliedOutcomes == [n \in FoundationNodes |->
  IF n \in {"intake.register", "sas.discover", "inventory.extract", "doc.map_apps"}
    THEN {"success", "waiting_for_input"} ELSE SuppliedOutcomes[n]]

\* What the theorems about the plan suppose is true of the shipped graph when
\* lineage.dba_request is the only node that asks.
ASSUME FoundationIsOrderly ==
  Askers \subseteq {"lineage.dba_request"} /\ "run" \notin Commands => Orderly

\* ... and the theorem about phases, whichever of its nodes ask.
ASSUME FoundationGates == GatesInOrder

\* ... and the theorem about stopped assessments, whichever of its nodes ask.
ASSUME FoundationIsConnected ==
  Askers \subseteq {"lineage.dba_request", "intake.coverage"} => Connected
=============================================================================
