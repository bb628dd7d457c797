-------------------------- MODULE FoundationGraph --------------------------
(***************************************************************************)
(* graphs/foundation-graph.json, node for node and edge for edge: values   *)
(* for the constants of AssessmentGraph.                                   *)
(***************************************************************************)
EXTENDS Naturals, Sequences

InOrder ==
  <<"audit.export", "doc.map_apps", "intake.coverage", "intake.register",
    "inventory.extract", "lineage.dba_request", "lineage.ingest_dba",
    "quality.gate", "runtime.correlate", "runtime.dmf_logs",
    "runtime.legacy_interpret", "sas.discover", "sys.workspace">>

FoundationNodes == {InOrder[i] : i \in DOMAIN InOrder}
FoundationIdRank == [n \in FoundationNodes |-> CHOOSE i \in DOMAIN InOrder : InOrder[i] = n]
FoundationPhaseOf == [n \in FoundationNodes |->
  CASE n = "sys.workspace" -> 0
    [] n \in {"intake.register", "intake.coverage", "inventory.extract"} -> 1
    [] n = "sas.discover" -> 2
    [] n \in {"runtime.correlate", "runtime.dmf_logs", "runtime.legacy_interpret"} -> 3
    [] n \in {"doc.map_apps", "lineage.dba_request", "lineage.ingest_dba"} -> 4
    [] n \in {"quality.gate", "audit.export"} -> 8]

To(target, name) ==
  [target |-> target, condition |-> [name |-> name, node |-> target, phase |-> 0]]

FoundationOutgoing == [n \in FoundationNodes |->
  CASE n = "sys.workspace" -> <<To("intake.register", "always")>>
    [] n = "intake.register" -> <<To("intake.coverage", "always")>>
    [] n = "intake.coverage" ->
         <<To("inventory.extract", "always"), To("runtime.correlate", "always"),
           To("sas.discover", "always")>>
    [] n = "sas.discover" ->
         <<To("doc.map_apps", "always"), To("lineage.dba_request", "always")>>
    [] n = "lineage.dba_request" -> <<To("lineage.ingest_dba", "always")>>
    [] n = "inventory.extract" -> <<To("doc.map_apps", "always")>>
    [] n = "runtime.correlate" -> <<To("runtime.dmf_logs", "always")>>
    [] n = "runtime.dmf_logs" ->
         <<To("quality.gate", "always"), To("runtime.legacy_interpret", "flag_enabled")>>
    [] n \in {"doc.map_apps", "runtime.legacy_interpret"} -> <<To("quality.gate", "always")>>
    [] n = "quality.gate" -> <<To("audit.export", "always")>>
    [] OTHER -> <<>>]

FoundationRequires == [n \in FoundationNodes |->
  CASE n = "lineage.ingest_dba" -> {"sas.discover"}
    [] n = "quality.gate" ->
         {"sas.discover", "runtime.correlate", "doc.map_apps", "runtime.dmf_logs",
          "lineage.dba_request"}
    [] n = "audit.export" -> {"quality.gate"}
    [] OTHER -> {}]
FoundationJoin == [n \in FoundationNodes |-> "all"]
FoundationMaxAttempts == [n \in FoundationNodes |->
  CASE n = "lineage.dba_request" -> 1
    [] n \in {"intake.register", "quality.gate"} -> 5
    [] OTHER -> 3]

=============================================================================
