-------------------------- MODULE AssessmentGraph --------------------------
(***************************************************************************)
(* The static assessment graph of graph/model.py: what a graph document    *)
(* fixes before the engine runs, and the pure rules of graph/engine.py over *)
(* it: when the prerequisites of a node are met, how many attempts it has, *)
(* and what becomes of it when its handler ends.                           *)
(***************************************************************************)
EXTENDS Integers, Sequences, FiniteSets

CONSTANTS
  Nodes,            \* ids of the nodes
  Entry,            \* the entry node
  IdRank,           \* position of an id in alphabetical order
  PhaseOf,          \* index of the node's phase, OutsidePhases if not in the order
  PhaseGates,       \* nodes whose success advances the assessment's phase
  Optional,         \* nodes that completion does not wait for
  Outgoing,         \* the edges leaving a node, by priority
  Requires,         \* the nodes a node requires
  Join,             \* "all" or "any"
  MaxAttempts,      \* the node's own attempt budget
  MaxNodeAttempts   \* the budget limits.max_node_attempts puts on every node

NodeStatuses ==
  {"PENDING", "READY", "RUNNING", "WAITING_FOR_INPUT", "WAITING_FOR_APPROVAL",
   "SUCCEEDED", "FAILED", "CANCELLED", "SUPERSEDED", "SKIPPED"}

BlockedStatuses ==
  {"WAITING_FOR_INPUT", "WAITING_FOR_APPROVAL", "CANCELLED", "SKIPPED"}

SatisfiedStatuses == {"SUCCEEDED", "SKIPPED"}

LastPhase == 8        \* PHASE_ORDER runs from phase0 to phase8
OutsidePhases == 99   \* rank of a phase that is not in PHASE_ORDER
PhaseIndexes == 0..LastPhase

(***************************************************************************)
(* An edge names its target and a condition; a condition is a predicate    *)
(* name with the arguments the named predicate looks at.  "unregistered"   *)
(* stands for a name the registry does not hold: the graph validator never *)
(* looks at condition names.  A request is named by the node that asked.   *)
(***************************************************************************)
PredicateNames ==
  {"always", "never", "node_succeeded", "node_failed", "node_waiting", "has_batches",
   "phase_at_least", "has_open_requests", "request_resolved", "flag_enabled",
   "unregistered"}

Conditions == [name: PredicateNames, node: Nodes, phase: PhaseIndexes]
Edges == [target: Nodes, condition: Conditions]

ASSUME GraphAssumption ==
  /\ Entry \in Nodes
  /\ IdRank \in [Nodes -> Nat]
  /\ \A m, n \in Nodes : IdRank[m] = IdRank[n] => m = n
  /\ PhaseOf \in [Nodes -> PhaseIndexes \cup {OutsidePhases}]
  /\ PhaseGates \subseteq Nodes
  /\ Optional \subseteq Nodes
  /\ Outgoing \in [Nodes -> Seq(Edges)]
  /\ Requires \in [Nodes -> SUBSET Nodes]
  /\ Join \in [Nodes -> {"all", "any"}]
  /\ MaxAttempts \in [Nodes -> Nat]
  /\ MaxNodeAttempts \in Nat

Targets(m) == {Outgoing[m][i].target : i \in DOMAIN Outgoing[m]}

\* With join "any" and nothing required a node is never runnable.
PrerequisitesMet(n, status) ==
  IF Join[n] = "any"
    THEN \E r \in Requires[n] : status[r] \in SatisfiedStatuses
    ELSE \A r \in Requires[n] : status[r] \in SatisfiedStatuses

AttemptLimit(n) ==
  IF MaxAttempts[n] <= MaxNodeAttempts THEN MaxAttempts[n] ELSE MaxNodeAttempts

\* The order next_runnable sorts its candidates by: phase, then id.
RunsBefore(m, n) ==
  \/ PhaseOf[m] < PhaseOf[n]
  \/ PhaseOf[m] = PhaseOf[n] /\ IdRank[m] < IdRank[n]

(***************************************************************************)
(* A handler returns one of five statuses or fails in one of three ways:   *)
(* it raises, it hits the provider's quota, or it claims success with an   *)
(* envelope that does not validate.                                        *)
(***************************************************************************)
Faults == {"failed", "raised", "rejected", "quota"}
OutcomeNames ==
  {"success", "waiting_for_input", "waiting_for_approval", "skipped"} \cup Faults

\* The status a finished node and its execution are given.
PersistedStatus(o) ==
  IF o = "success" THEN "SUCCEEDED"
  ELSE IF o = "waiting_for_input" THEN "WAITING_FOR_INPUT"
  ELSE IF o \in {"waiting_for_approval", "quota"} THEN "WAITING_FOR_APPROVAL"
  ELSE IF o = "skipped" THEN "SKIPPED" ELSE "FAILED"

\* Variant: every fault gives the attempt back.
AttemptsAfterAnyFault(o, attempt) == IF o \in Faults THEN attempt - 1 ELSE attempt

\* A quota hold gives the attempt back.
AttemptsAfter(o, attempt) == IF o = "quota" THEN attempt - 1 ELSE attempt

\* Variant: a failed node routes as well.
RoutesAfterFailure(o) == o \in {"success", "failed"}

RoutesAfter(o) == o = "success"

=============================================================================
