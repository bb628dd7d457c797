----------------------------- MODULE MCOperator -----------------------------
(***************************************************************************)
(* A chain with an enrichment request: the coverage node succeeds although *)
(* it asked, like node_intake_coverage, and its request resumes itself.    *)
(* The last edge of "sas" names a predicate nobody registered.             *)
(***************************************************************************)
EXTENDS GraphEngineInvariants

MCNodes == {"sys", "cover", "sas", "gate"}
MCIdRank == [n \in MCNodes |->
  CASE n = "cover" -> 1 [] n = "gate" -> 2 [] n = "sas" -> 3 [] n = "sys" -> 4]
MCPhaseOf == [n \in MCNodes |->
  CASE n = "sys" -> 0 [] n = "cover" -> 1 [] n = "sas" -> 2 [] n = "gate" -> 8]

To(target, name) ==
  [target |-> target, condition |-> [name |-> name, node |-> "cover", phase |-> 0]]

MCOutgoing == [n \in MCNodes |->
  CASE n = "sys" -> <<To("cover", "always"), To("gate", "has_batches")>>
    [] n = "cover" ->
         <<To("sas", "always"), To("gate", "has_open_requests"), To("gate", "never")>>
    [] n = "sas" -> <<To("gate", "request_resolved"), To("sys", "unregistered")>>
    [] OTHER -> <<>>]
MCRequires == [n \in MCNodes |-> IF n = "gate" THEN {"cover", "sas"} ELSE {}]
MCJoin == [n \in MCNodes |-> IF n = "gate" THEN "any" ELSE "all"]
MCMaxAttempts == [n \in MCNodes |-> 2]

MCOutcomes == [n \in MCNodes |->
  CASE n = "gate" -> {"success", "waiting_for_approval", "failed"}
    [] n = "sas" -> {"success", "quota", "skipped"}
    [] OTHER -> {"success"}]
MCAskedOutcomes == [n \in MCNodes |-> {"success"}]
MCResumeNode == [n \in MCNodes |-> n]

\* What the theorem about phases supposes of a graph is true of this one.
ASSUME OperatorGates == GatesInOrder
=============================================================================
