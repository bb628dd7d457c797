----------------------- MODULE GraphEngineProperties -----------------------
(***************************************************************************)
(* What graph/engine.py, cli/main.py and their documents promise of the    *)
(* engine, stated over the persisted state.                                *)
(***************************************************************************)
EXTENDS GraphEngine

\* Executions that used up the attempt they were given.
ConsumedStatuses == {"SUCCEEDED", "FAILED", "WAITING_FOR_INPUT", "SKIPPED"}
Consumed(i) == execs[i].status \in ConsumedStatuses

Succeeded(n) ==
  \E i \in DOMAIN execs : execs[i].node = n /\ execs[i].status = "SUCCEEDED"

(***************************************************************************)
(* "attempts and cycles are hard-bounded" (graph/engine.py): the           *)
(* executions of a node that ended for good carry distinct attempt numbers *)
(* between 1 and its limit, so there are at most that many of them however *)
(* often the process dies, is resumed, or the node is released.            *)
(***************************************************************************)
AttemptsHardBounded ==
  /\ \A i \in DOMAIN execs : execs[i].attempt \in 1..AttemptLimit(execs[i].node)
  /\ \A i, j \in DOMAIN execs :
       Consumed(i) /\ Consumed(j) /\ i # j /\ execs[i].node = execs[j].node
         => execs[i].attempt # execs[j].attempt

(***************************************************************************)
(* Recovery on engine start leaves at most one node RUNNING at any time,   *)
(* and a command that executes a node finds that node to be the one.       *)
(***************************************************************************)
OneNodeRunning ==
  /\ \A m, n \in Nodes :
       nodeStatus[m] = "RUNNING" /\ nodeStatus[n] = "RUNNING" => m = n
  /\ pc \in {"execute", "asked", "finish", "settle"} => nodeStatus[cur] = "RUNNING"

(***************************************************************************)
(* ADR-013, "only two activation paths exist", with the third that         *)
(* answer_request adds: a node other than the entry leaves PENDING only    *)
(* because a node with an edge to it has a successful execution, or        *)
(* because a resolved request names it as resume node.                     *)
(***************************************************************************)
ActivationBacked ==
  \A n \in Nodes \ {Entry} :
    nodeStatus[n] # "PENDING" =>
      \/ \E m \in Nodes : n \in Targets(m) /\ Succeeded(m)
      \/ \E m \in resolvedRequests : ResumeNode[m] = n

(***************************************************************************)
(* A SUCCEEDED row is backed by an execution that succeeded or by a        *)
(* request a human resolved, never by a crash, a hold or a release.        *)
(***************************************************************************)
SuccessBacked ==
  \A n \in Nodes :
    nodeStatus[n] = "SUCCEEDED" => Succeeded(n) \/ n \in resolvedRequests

(***************************************************************************)
(* "a node never runs before its requires are SUCCEEDED" (graph/engine.py, *)
(* for what `start` runs): once a node has succeeded by an execution, what *)
(* it requires is satisfied, and stays so.                                 *)
(***************************************************************************)
PrerequisitesOutlive ==
  \A n \in Nodes : Succeeded(n) => PrerequisitesMet(n, nodeStatus)

(***************************************************************************)
(* operator-guide.md, "The graph is resumable at any point": when `start`  *)
(* has drained the graph, no edge that always fires leads from a node that *)
(* succeeded by an execution to a node never activated.                    *)
(***************************************************************************)
NoLostActivation ==
  pc = "idle" /\ last = "drained" =>
    \A m \in Nodes : nodeStatus[m] = "SUCCEEDED" /\ Succeeded(m) =>
      \A i \in DOMAIN Outgoing[m] :
        Outgoing[m][i].condition.name = "always"
          => nodeStatus[Outgoing[m][i].target] # "PENDING"

(***************************************************************************)
(* The decision log never contradicts the nodes: a decision was made for a *)
(* node that succeeded, and the target of a taken one was activated.       *)
(***************************************************************************)
DecisionsBacked ==
  \A d \in decisions :
    /\ Succeeded(d.source)
    /\ d.taken => nodeStatus[d.target] # "PENDING"

\* "... and cycles are hard-bounded": the transition bound and the cycle bound
\* are looked at after a node has run, so one transition is always allowed.
CyclesHardBounded ==
  steps <= MaxSteps /\ (steps <= 1 \/ steps <= CycleBound)

(***************************************************************************)
(* A gate sets the phase after its own whatever the current one is, and it *)
(* may run again: by name, or as the resume node of an answer.  That is    *)
(* the only way back: no gate takes an assessment to an earlier phase when *)
(* it succeeds for the first time, whatever was killed or held before.     *)
(***************************************************************************)
PhaseRecedesByRerunOnly ==
  [][phase' < phase =>
       \E i \in DOMAIN execs \ {curExec} :
         execs[i].node = cur /\ execs[i].status = "SUCCEEDED"]_vars

\* The graphs on which it is: the nodes of U are reached through g alone.
OnlyThrough(g, U) ==
  /\ Entry \notin U
  /\ \A m \in Nodes :
       /\ Targets(m) \cap U # {} => m \in U \cup {g}
       /\ ResumeNode[m] \in U => m \in U

\* A gate is reached only through the gates of the phases before its own.
GatesInOrder ==
  \A g, h \in PhaseGates :
    PhaseOf[g] < PhaseOf[h] => \E U \in SUBSET Nodes : h \in U /\ OnlyThrough(g, U)

(***************************************************************************)
(* Statements of the documents the engine does not keep (README, section   *)
(* on divergences).                                                        *)
(***************************************************************************)
\* graph-model.md: a phase gate "gates phase advancement": the phase an
\* assessment has reached is not taken back.
PhaseNeverRecedes == [][phase' >= phase]_vars

\* engine.py, recover_stale_running: the executions of stale nodes "are
\* marked CANCELLED".
NoOrphanExecution ==
  pc = "select" /\ steps = 0 =>
    \A i \in DOMAIN execs : execs[i].status # "RUNNING"

\* engine.py, recover_stale_running: "attempt not consumed".  After recovery
\* a node has used no more attempts than it has executions that ended.
CrashConsumesNoAttempt ==
  pc = "select" =>
    \A n \in Nodes :
      attempts[n] <= Cardinality({i \in DOMAIN execs :
        execs[i].node = n /\ execs[i].status \notin {"RUNNING", "CANCELLED"}})

\* engine.py: "a node never runs before its `requires` are SUCCEEDED".
NeverRunsUnprepared == pc = "execute" => PrerequisitesMet(cur, nodeStatus)

\* graph-model.md: "After exhaustion the node stays FAILED".
ExhaustedStaysFailed ==
  [][\A n \in Nodes : nodeStatus[n] = "FAILED" /\ Exhausted(n)
                        => nodeStatus'[n] = "FAILED"]_vars

\* state-and-persistence.md: WAITING_FOR_INPUT is "blocked on human request".
WaitingHasRequest ==
  pc = "idle" =>
    \A n \in Nodes : nodeStatus[n] = "WAITING_FOR_INPUT" => n \in openRequests

(***************************************************************************)
(* A node that asked and waits can be released: between commands, it has   *)
(* an OPEN request for `answer` (cmd_unblock refuses WAITING_FOR_INPUT).   *)
(***************************************************************************)
WaitingIsAnswerable ==
  pc = "idle" =>
    \A n \in Askers : nodeStatus[n] = "WAITING_FOR_INPUT" => n \in openRequests

(***************************************************************************)
(* "SUCCEEDED nodes are never re-run" (operator-guide.md).                 *)
(***************************************************************************)
SucceededIsFinal ==
  [][\A n \in Nodes : nodeStatus[n] = "SUCCEEDED" => nodeStatus'[n] = "SUCCEEDED"]_vars

=============================================================================
