-------------------------- MODULE GraphEngineLive --------------------------
(***************************************************************************)
(* Progress of the engine under a diligent operator: one who runs `start`  *)
(* while there is something to run and releases the nodes that are held    *)
(* or failed, but who may never deliver the material a request asks for.   *)
(***************************************************************************)
EXTENDS GraphEngineInvariants

WorthStarting ==
  nodeStatus[Entry] = "PENDING" \/ StaleRows # {} \/ Candidates # {}

Diligent(n) ==
  \/ WorthStarting /\ OpenEngine("start", n)
  \/ nodeStatus[n] \in {"WAITING_FOR_APPROVAL", "FAILED"} /\ Unblock(n)

LiveNext ==
  \/ EngineStep
  \/ \E n \in Nodes : Diligent(n)
  \/ \E n \in Nodes : ResolveRequest(n)

(***************************************************************************)
(* A command that was started is executed to its end, for the process has  *)
(* nothing to wait for and the machine stays up, and the operator does not *)
(* stop being diligent.  Nothing makes a human answer.                     *)
(***************************************************************************)
LiveSpec ==
  /\ Init /\ [][LiveNext]_vars
  /\ WF_vars(EngineStep)
  /\ WF_vars(\E n \in Nodes : Diligent(n))

\* The nodes that are activated and prepared while no request is answered:
\* a skipped node satisfies what requires it but routes to nothing.
IndependentNodes ==
  LET Grow[k \in 0..Cardinality(Nodes)] ==
        IF k = 0 THEN {Entry}
        ELSE LET ran == Grow[k - 1] IN
               ran \cup {n \in Nodes \ Askers :
                 /\ Requires[n] \subseteq ran
                 /\ \E m \in ran : \E i \in DOMAIN Outgoing[m] :
                      /\ "skipped" \notin Outcomes[m]
                      /\ Outgoing[m][i].target = n
                      /\ Outgoing[m][i].condition.name = "always"}
  IN Grow[Cardinality(Nodes)]

(***************************************************************************)
(* "waiting branches block only themselves" (graph/engine.py): whatever    *)
(* request stays open for ever, the nodes that do not depend on it finish. *)
(***************************************************************************)
WaitingBlocksOnlyItself ==
  \A n \in IndependentNodes : <>[](nodeStatus[n] \in SatisfiedStatuses)

(***************************************************************************)
(* operator-guide.md, "After answering a request, the resume node becomes  *)
(* READY and the next start runs it", and with it the assessment ends.     *)
(***************************************************************************)
AnswerCompletes ==
  (Askers \subseteq registered)
    ~> (AssessmentCompletion \in {"COMPLETED", "COMPLETED_WITH_LIMITATIONS"})

=============================================================================
