----------------------- MODULE GraphEngineRefinement -----------------------
(***************************************************************************)
(* The engine implements the plan: of the node rows, the plan sees which   *)
(* nodes were activated and which are satisfied.                           *)
(***************************************************************************)
EXTENDS GraphEngineLive

Activated == {n \in Nodes : nodeStatus[n] # "PENDING"}
Satisfied == {n \in Nodes : nodeStatus[n] \in SatisfiedStatuses}

Plan == INSTANCE AssessmentPlan WITH activated <- Activated, done <- Satisfied

(***************************************************************************)
(* Driven by `start`, `answer` and `unblock`, through crashes, holds and   *)
(* failures, the engine only ever takes steps of the plan: no node runs to *)
(* success before what it requires, none is activated out of nowhere, and  *)
(* what is satisfied stays satisfied.                                      *)
(***************************************************************************)
ImplementsPlan == Plan!Spec

(***************************************************************************)
(* When it does: nobody runs a node by name, and a node that asks (as      *)
(* lineage.dba_request does in graphs/foundation-graph.json) is skipped or *)
(* answered but does not succeed by itself, and is alone in leading to the *)
(* node its answer activates.                                              *)
(***************************************************************************)
Orderly ==
  /\ "run" \notin Commands
  /\ \A n \in Askers :
       /\ "success" \notin Outcomes[n] \cup AskedOutcomes[n]
       /\ ResumeNode[n] # Entry
       /\ \A m \in Nodes : ResumeNode[n] \in Targets(m) => m = n
       /\ \A m \in Askers : ResumeNode[m] = ResumeNode[n] => m = n

(***************************************************************************)
(* What is then true at every point of a command.                          *)
(***************************************************************************)
ActivatedInOrder ==
  \A n \in Activated : n = Entry \/ \E m \in Satisfied : n \in Plan!Follows(m)

\* What a node requires is satisfied before it runs, and it runs before it
\* asks, succeeds or is satisfied.
PreparedInOrder ==
  /\ Asked \subseteq Activated
  /\ \A n \in Satisfied \cup Asked : PrerequisitesMet(n, nodeStatus)
  /\ PrerequisitesOutlive

\* The node an answer activates is not reached before the answer is complete.
AnswersInOrder ==
  \A n \in Askers :
    /\ ~Succeeded(n)
    /\ pc \in {"finish", "settle"} /\ cur = n => outcome # "success"
    /\ pc \in Answering /\ cur = n => n \notin openRequests
    /\ ResumeNode[n] \in Activated =>
         /\ n \in Satisfied
         /\ n \notin openRequests
         /\ ~(pc \in Answering /\ cur = n)

CommandInOrder ==
  /\ mode # "run"
  /\ mode = "start" => Entry \in Activated
  /\ pc = "select" => mode = "start"
  /\ pc \in InFlight \cup {"begin"} =>
       /\ mode = "start"
       /\ nodeStatus[cur] \in {"READY", "RUNNING"}
       /\ PrerequisitesMet(cur, nodeStatus)
  /\ pc \in Routing \cup {"advance", "resume"} => nodeStatus[cur] = "SUCCEEDED"

PlanInv ==
  /\ ActivatedInOrder /\ PreparedInOrder /\ AnswersInOrder /\ CommandInOrder

=============================================================================
