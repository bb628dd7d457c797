---------------------------- MODULE EngineReports ----------------------------
(***************************************************************************)
(* What the engine tells the operator of an assessment that has stopped:   *)
(* blocked_summary of graph/engine.py beside assessment_completion, which  *)
(* status and run print after every command.                               *)
(***************************************************************************)
EXTENDS GraphEngine

\* With join "any" and nothing satisfied, all that is required is missing.
MissingRequires(n) ==
  IF PrerequisitesMet(n, nodeStatus) THEN {}
  ELSE {r \in Requires[n] : nodeStatus[r] \notin SatisfiedStatuses}

\* _has_successful_runnable_prereq, of all nodes at once: something is
\* runnable, or what is missing is READY, or was never activated and has what
\* it requires or is in the same case.
RunnableSoon ==
  LET Within[k \in 0..Cardinality(Nodes)] ==
        IF k = 0 THEN {}
        ELSE {n \in Nodes : \E r \in MissingRequires(n) :
                \/ Candidates # {} \/ nodeStatus[r] = "READY"
                \/ /\ nodeStatus[r] = "PENDING"
                   /\ PrerequisitesMet(r, nodeStatus) \/ r \in Within[k - 1]}
  IN Within[Cardinality(Nodes)]

NotReachable ==
  {n \in Nodes : /\ nodeStatus[n] = "PENDING"
                 /\ ~PrerequisitesMet(n, nodeStatus)
                 /\ n \notin RunnableSoon}

\* blocked_summary, by the node an entry is about.
BlockedSummary == NotReachable \cup openRequests

\* A mandatory node that was not activated although all it requires is
\* satisfied: no entry of the summary is about it.
LeftOut ==
  {n \in Nodes \ Optional : nodeStatus[n] = "PENDING" /\ PrerequisitesMet(n, nodeStatus)}

(***************************************************************************)
(* BACKLOG.md, "status shows node states, blockers, open requests": an     *)
(* assessment that is reported BLOCKED shows a blocker or a failed node,   *)
(* or mandatory nodes are left over, each led to by a node it skipped.     *)
(***************************************************************************)
StopIsExplained ==
  pc = "idle" /\ AssessmentCompletion = "BLOCKED" =>
    \/ BlockedSummary # {}
    \/ \E n \in Nodes : nodeStatus[n] = "FAILED"
    \/ /\ LeftOut # {}
       /\ \A m \in LeftOut :
            \E n \in Nodes : nodeStatus[n] = "SKIPPED" /\ m \in Targets(n)

(***************************************************************************)
(* Statements of the documents the code does not keep.                     *)
(***************************************************************************)
\* operator-guide.md and BACKLOG.md: a stop has blockers to show.  What only a
\* skipped node leads to is left over without an entry.
BlockedShowsWhy ==
  pc = "idle" /\ AssessmentCompletion = "BLOCKED" =>
    BlockedSummary # {} \/ \E n \in Nodes : nodeStatus[n] = "FAILED"

\* graph-model.md, completion classification: RUNNING when "any node RUNNING or
\* runnable work exists", so COMPLETED leaves nothing to run.
CompletedHasNoWork ==
  pc = "idle" /\ AssessmentCompletion \in {"COMPLETED", "COMPLETED_WITH_LIMITATIONS"} =>
    Candidates = {}

=============================================================================
