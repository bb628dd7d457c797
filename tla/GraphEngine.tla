---------------------------- MODULE GraphEngine ----------------------------
(***************************************************************************)
(* The graph engine of graph/engine.py driven by the commands of           *)
(* cli/main.py over the SQLite state of state/repository.py.               *)
(*                                                                         *)
(* One command runs at a time (docs/threat-model.md: single-writer         *)
(* operation).  The database commits each repository call on its own, so   *)
(* every call that writes is a step of its own and the process may be      *)
(* killed between any two of them; a kill loses the locals of the command  *)
(* and nothing else.                                                       *)
(***************************************************************************)
EXTENDS AssessmentGraph

CONSTANTS
  Outcomes,       \* what the handler of a node may return or raise
  Askers,         \* nodes whose handler may create a human request
  AskedOutcomes,  \* what such a handler may return once it has asked
  BlockingAskers, \* askers whose request has priority BLOCKING
  ResumeNode,     \* the resume node named in the request of an asker
  FlagRaisers,    \* nodes whose handler may store the routing flag
  BatchRegistrars, \* nodes whose handler may register a batch
  Commands,       \* the commands the operator issues
  MaxSteps,       \* max_steps of run()
  MaxCycles,      \* max_cycles of the graph
  MaxCommands,    \* bound: commands issued
  MaxCrashes,     \* bound: times the process is killed
  MaxFaults       \* bound: handler failures, quota holds, failed registrations

NoExec == 0       \* a NULL last_execution_id

CommandNames == {"start", "run", "inspect", "answer", "unblock"}

ASSUME EngineAssumption ==
  /\ Outcomes \in [Nodes -> SUBSET OutcomeNames]
  /\ Askers \subseteq Nodes
  /\ BlockingAskers \subseteq Askers
  /\ AskedOutcomes \in [Nodes -> SUBSET OutcomeNames]
  /\ ResumeNode \in [Nodes -> Nodes]
  /\ FlagRaisers \subseteq Nodes /\ BatchRegistrars \subseteq Nodes
  /\ Commands \subseteq CommandNames
  /\ MaxSteps \in Nat
  /\ MaxCycles \in Nat
  /\ MaxCommands \in Nat
  /\ MaxCrashes \in Nat
  /\ MaxFaults \in Nat

VARIABLES
  \* node_states: a node without a row is "PENDING"
  nodeStatus, attempts, lastExec,
  \* executions, in the order they were created
  execs,
  \* human_requests, by the node that asked: at most one is OPEN per node
  openRequests, resolvedRequests,
  \* batches registered, by the node that asked for them or whose handler did
  registered,
  \* decisions, assessments.current_phase, the meta row of the routing flag
  decisions, phase, flag,
  \* the command in progress and its locals
  pc, mode, cur, curExec, outcome, todo, steps,
  \* how the last command ended
  last,
  \* what the environment has done so far
  commands, crashes, faults

nodeRow == <<nodeStatus, attempts, lastExec>>
requestRows == <<openRequests, resolvedRequests, registered>>
routing == <<decisions, phase, flag>>
locals == <<mode, cur, curExec, outcome, todo, steps>>
budgets == <<commands, crashes, faults>>
vars == <<nodeRow, execs, requestRows, routing, pc, locals, last, budgets>>

ExecStatuses ==
  {"RUNNING", "SUCCEEDED", "FAILED", "WAITING_FOR_INPUT",
   "WAITING_FOR_APPROVAL", "SKIPPED", "CANCELLED"}
Executions == [node: Nodes, attempt: Nat \ {0}, status: ExecStatuses]

\* An edge of the current node with what its condition came to.
Verdicts == {"taken", "not_taken", "raises"}
Routes == [target: Nodes, verdict: Verdicts]
Decisions == [source: Nodes, target: Nodes, taken: BOOLEAN]
Locations ==
  {"idle", "recover", "select", "begin", "mark", "execute", "asked", "finish",
   "settle", "snapshot", "route", "decide", "advance",
   "register", "release", "resume"}
Endings ==
  {"none", "drained", "max_steps", "returned", "error", "answered",
   "unblocked", "crashed"}

RowsOK ==
  /\ nodeStatus \in [Nodes -> NodeStatuses]
  /\ attempts \in [Nodes -> Nat]
  /\ lastExec \in [Nodes -> Nat]

RequestsOK ==
  /\ openRequests \subseteq Askers
  /\ resolvedRequests \subseteq Askers
  /\ registered \subseteq Askers \cup BatchRegistrars

RoutingOK ==
  /\ decisions \subseteq Decisions
  /\ phase \in PhaseIndexes
  /\ flag \in BOOLEAN

CommandOK ==
  /\ pc \in Locations
  /\ mode \in CommandNames
  /\ cur \in Nodes
  /\ curExec \in Nat
  /\ outcome \in OutcomeNames
  /\ todo \in Seq(Routes)
  /\ steps \in Nat
  /\ last \in Endings

BudgetsOK == commands \in Nat /\ crashes \in Nat /\ faults \in Nat

TypeOK ==
  /\ RowsOK /\ execs \in Seq(Executions) /\ RequestsOK /\ RoutingOK
  /\ CommandOK /\ BudgetsOK

\* The locals of no command: a dead process and a returned one look alike.
IdleLocals ==
  /\ mode = "inspect" /\ cur = Entry /\ curExec = NoExec
  /\ outcome = "success" /\ todo = <<>> /\ steps = 0

Init ==
  /\ nodeStatus = [n \in Nodes |-> "PENDING"]
  /\ attempts = [n \in Nodes |-> 0]
  /\ lastExec = [n \in Nodes |-> NoExec]
  /\ execs = <<>>
  /\ openRequests = {} /\ resolvedRequests = {} /\ registered = {}
  /\ decisions = {} /\ phase = 0 /\ flag = FALSE
  /\ pc = "idle" /\ IdleLocals /\ last = "none"
  /\ commands = 0 /\ crashes = 0 /\ faults = 0

(***************************************************************************)
(* Helpers of the actions.                                                 *)
(***************************************************************************)
Goto(l) == pc' = l

\* The process of a command ends.
EndCommand(how) ==
  /\ pc' = "idle"
  /\ last' = how
  /\ mode' = "inspect" /\ cur' = Entry /\ curExec' = NoExec
  /\ outcome' = "success" /\ todo' = <<>> /\ steps' = 0

\* upsert_node_state writes status and last_execution_id whatever they were;
\* an attempts that is not passed keeps its value.
Upsert(n, status, tries, exec) ==
  /\ nodeStatus' = [nodeStatus EXCEPT ![n] = status]
  /\ attempts' = [attempts EXCEPT ![n] = tries]
  /\ lastExec' = [lastExec EXCEPT ![n] = exec]

\* finish_execution: the row keeps its node and its attempt.
Finished(execution, status) ==
  [node |-> execution.node, attempt |-> execution.attempt, status |-> status]

\* run_node returns: to the loop of run(), which counts one transition, or
\* to a command that runs this node alone.
ReturnFromRunNode ==
  IF mode = "start"
    THEN /\ Goto("select")
         /\ steps' = steps + 1
         /\ curExec' = NoExec /\ outcome' = "success" /\ todo' = <<>>
         /\ UNCHANGED <<mode, cur, last>>
    ELSE EndCommand("returned")

Issue(command) ==
  /\ pc = "idle"
  /\ command \in Commands
  /\ commands < MaxCommands
  /\ commands' = commands + 1
  /\ UNCHANGED <<crashes, faults>>

(***************************************************************************)
(* ApplicationContext.engine(), which every command but answer and unblock *)
(* goes through (status, next and show blockers are "inspect"): activate   *)
(* the entry node, then release what a killed process left RUNNING.        *)
(***************************************************************************)
OpenEngine(command, n) ==
  /\ command \in {"start", "run", "inspect"}
  /\ command = "run" \/ n = Entry
  /\ Issue(command)
  /\ IF nodeStatus[Entry] = "PENDING"
       THEN Upsert(Entry, "READY", attempts[Entry], NoExec)
       ELSE UNCHANGED nodeRow
  /\ Goto("recover")
  /\ mode' = command
  /\ cur' = n
  /\ UNCHANGED <<execs, requestRows, routing, curExec, outcome, todo, steps, last>>

StaleRows == {n \in Nodes : nodeStatus[n] = "RUNNING"}

\* The row keeps its attempts, and the execution to cancel is looked up by
\* the last_execution_id the row had.
RecoverStaleRunning(n) ==
  /\ pc = "recover"
  /\ n \in StaleRows
  /\ Upsert(n, "READY", attempts[n], NoExec)
  /\ execs' = [i \in DOMAIN execs |->
                 IF i = lastExec[n] /\ execs[i].status = "RUNNING"
                   THEN Finished(execs[i], "CANCELLED")
                   ELSE execs[i]]
  /\ UNCHANGED <<requestRows, routing, pc, locals, last, budgets>>

EngineReady ==
  /\ pc = "recover"
  /\ StaleRows = {}
  /\ \/ mode = "start" /\ Goto("select") /\ UNCHANGED <<locals, last>>
     \/ mode = "run" /\ Goto("begin") /\ UNCHANGED <<locals, last>>
     \/ mode = "inspect" /\ EndCommand("returned")
  /\ UNCHANGED <<nodeRow, execs, requestRows, routing, budgets>>

(***************************************************************************)
(* run(): select the next runnable node until none is left or a bound is   *)
(* reached.                                                                *)
(***************************************************************************)
NoRows == \A n \in Nodes : nodeStatus[n] = "PENDING"

\* Variant: a READY node is selected whatever it requires.
CandidatesUnchecked ==
  {n \in Nodes : nodeStatus[n] = "READY"} \cup (IF NoRows THEN {Entry} ELSE {})

\* Variant: nothing is selected while a request is open.
CandidatesUnlessWaiting ==
  {n \in Nodes : nodeStatus[n] = "READY" /\ PrerequisitesMet(n, nodeStatus)
                   /\ openRequests = {}}
    \cup (IF NoRows THEN {Entry} ELSE {})

Candidates ==
  {n \in Nodes : nodeStatus[n] = "READY" /\ PrerequisitesMet(n, nodeStatus)}
    \cup (IF NoRows THEN {Entry} ELSE {})

CycleBound == MaxCycles * Cardinality(Nodes)
\* The transition bound is looked at after a node has run, never before.
LoopMayContinue == steps < MaxSteps /\ (steps = 0 \/ steps < CycleBound)

SelectNext ==
  /\ pc = "select"
  /\ LoopMayContinue
  /\ \E n \in Candidates :
       /\ \A m \in Candidates \ {n} : RunsBefore(n, m)
       /\ cur' = n
  /\ Goto("begin")
  /\ UNCHANGED <<nodeRow, execs, requestRows, routing, budgets,
                 mode, curExec, outcome, todo, steps, last>>

LeaveLoop ==
  /\ pc = "select"
  /\ ~LoopMayContinue \/ Candidates = {}
  /\ EndCommand(IF steps >= CycleBound THEN "error"
                ELSE IF LoopMayContinue THEN "drained" ELSE "max_steps")
  /\ UNCHANGED <<nodeRow, execs, requestRows, routing, budgets>>

(***************************************************************************)
(* run_node(): the checks, then one step for each row it writes.           *)
(***************************************************************************)
Blocked(n) == nodeStatus[n] \in BlockedStatuses
Exhausted(n) == attempts[n] >= AttemptLimit(n)

\* Variant: a node is run by name whether or not it was activated.
NotActivatedUnchecked(n) == FALSE

NotActivated(n) == nodeStatus[n] = "PENDING" /\ n # Entry

SkipBlocked ==
  /\ pc = "begin"
  /\ Blocked(cur)
  /\ ReturnFromRunNode
  /\ UNCHANGED <<nodeRow, execs, requestRows, routing, budgets>>

RefuseNode ==
  /\ pc = "begin"
  /\ ~Blocked(cur)
  /\ Exhausted(cur) \/ NotActivated(cur)
  /\ EndCommand("error")
  /\ UNCHANGED <<nodeRow, execs, requestRows, routing, budgets>>

CreateExecution ==
  /\ pc = "begin"
  /\ ~Blocked(cur) /\ ~Exhausted(cur) /\ ~NotActivated(cur)
  /\ execs' = Append(execs, [node |-> cur, attempt |-> attempts[cur] + 1,
                             status |-> "RUNNING"])
  /\ curExec' = Len(execs) + 1
  /\ Goto("mark")
  /\ UNCHANGED <<nodeRow, requestRows, routing, budgets,
                 mode, cur, outcome, todo, steps, last>>

MarkRunning ==
  /\ pc = "mark"
  /\ Upsert(cur, "RUNNING", execs[curExec].attempt, NoExec)
  /\ Goto("execute")
  /\ UNCHANGED <<execs, requestRows, routing, locals, last, budgets>>

\* request_human_input: an OPEN request of the node is found, not repeated.
AskForInput ==
  /\ pc = "execute"
  /\ cur \in Askers
  /\ openRequests' = openRequests \cup {cur}
  /\ Goto("asked")
  /\ UNCHANGED <<nodeRow, execs, resolvedRequests, registered, routing,
                 locals, last, budgets>>

HandlerEnds ==
  /\ pc \in {"execute", "asked"}
  /\ outcome' \in (IF pc = "asked" THEN AskedOutcomes[cur] ELSE Outcomes[cur])
  /\ outcome' \in Faults => faults < MaxFaults
  /\ faults' = IF outcome' \in Faults THEN faults + 1 ELSE faults
  /\ flag' \in (IF cur \in FlagRaisers THEN {flag, TRUE} ELSE {flag})
  /\ registered' \in {registered} \cup {registered \cup {n} : n \in {cur} \cap BatchRegistrars}
  /\ Goto("finish")
  /\ UNCHANGED <<nodeRow, execs, openRequests, resolvedRequests, decisions, phase,
                 mode, cur, curExec, todo, steps, last, commands, crashes>>

\* Variant: the execution row is never finished.
FinishExecutionForgotten ==
  /\ pc = "finish"
  /\ Goto("settle")
  /\ UNCHANGED <<nodeRow, execs, requestRows, routing, locals, last, budgets>>

FinishExecution ==
  /\ pc = "finish"
  /\ execs' = [execs EXCEPT ![curExec] = Finished(@, PersistedStatus(outcome))]
  /\ Goto("settle")
  /\ UNCHANGED <<nodeRow, requestRows, routing, locals, last, budgets>>

SettleNode ==
  /\ pc = "settle"
  /\ Upsert(cur, PersistedStatus(outcome),
            AttemptsAfter(outcome, execs[curExec].attempt), curExec)
  /\ IF RoutesAfter(outcome)
       THEN Goto("snapshot") /\ UNCHANGED <<locals, last>>
       ELSE ReturnFromRunNode
  /\ UNCHANGED <<execs, requestRows, routing, budgets>>

(***************************************************************************)
(* _route_from(): every condition is evaluated against one snapshot, the   *)
(* state of the targets is read edge by edge.                              *)
(***************************************************************************)
Holds(c) ==
  CASE c.name = "always" -> TRUE
    [] c.name = "never" -> FALSE
    [] c.name = "node_succeeded" -> nodeStatus[c.node] = "SUCCEEDED"
    [] c.name = "node_failed" -> nodeStatus[c.node] = "FAILED"
    [] c.name = "node_waiting" ->
         nodeStatus[c.node] \in {"WAITING_FOR_INPUT", "WAITING_FOR_APPROVAL"}
    [] c.name = "has_batches" -> registered # {}
    [] c.name = "phase_at_least" -> phase >= c.phase
    [] c.name = "has_open_requests" -> openRequests # {}
    [] c.name = "request_resolved" -> c.node \in resolvedRequests
    [] c.name = "flag_enabled" -> flag
    [] c.name = "unregistered" -> FALSE

Evaluate(c) ==
  IF c.name = "unregistered" THEN "raises"
  ELSE IF Holds(c) THEN "taken" ELSE "not_taken"

TakeSnapshot ==
  /\ pc = "snapshot"
  /\ todo' = [i \in DOMAIN Outgoing[cur] |->
                [target |-> Outgoing[cur][i].target,
                 verdict |-> Evaluate(Outgoing[cur][i].condition)]]
  /\ Goto("route")
  /\ UNCHANGED <<nodeRow, execs, requestRows, routing, budgets,
                 mode, cur, curExec, outcome, steps, last>>

\* Variant: a target that has SUCCEEDED is activated again.
UntouchableIfBlocked(n) == Blocked(n)

Untouchable(n) == nodeStatus[n] = "SUCCEEDED" \/ Blocked(n)

ActivateTarget ==
  /\ pc = "route" /\ todo # <<>>
  /\ Head(todo).verdict = "taken"
  /\ LET t == Head(todo).target IN
       /\ ~Untouchable(t)
       /\ Upsert(t, "READY", attempts[t], NoExec)
  /\ Goto("decide")
  /\ UNCHANGED <<execs, requestRows, routing, locals, last, budgets>>

\* No decision row is written for a fired edge whose target is left alone.
LeaveTargetAlone ==
  /\ pc = "route" /\ todo # <<>>
  /\ Head(todo).verdict = "taken" /\ Untouchable(Head(todo).target)
  /\ todo' = Tail(todo)
  /\ UNCHANGED <<nodeRow, execs, requestRows, routing, pc, budgets,
                 mode, cur, curExec, outcome, steps, last>>

PassEdgeOver ==
  /\ pc = "route" /\ todo # <<>>
  /\ Head(todo).verdict = "not_taken"
  /\ Goto("decide")
  /\ UNCHANGED <<nodeRow, execs, requestRows, routing, locals, last, budgets>>

ConditionRaises ==
  /\ pc = "route" /\ todo # <<>>
  /\ Head(todo).verdict = "raises"
  /\ EndCommand("error")
  /\ UNCHANGED <<nodeRow, execs, requestRows, routing, budgets>>

\* Variant: routing stops at the first edge that fires.
CreateDecisionFirstEdgeOnly ==
  /\ pc = "decide"
  /\ decisions' = decisions \cup
       {[source |-> cur, target |-> Head(todo).target,
         taken |-> Head(todo).verdict = "taken"]}
  /\ todo' = IF Head(todo).verdict = "taken" THEN <<>> ELSE Tail(todo)
  /\ Goto("route")
  /\ UNCHANGED <<nodeRow, execs, requestRows, phase, flag, budgets,
                 mode, cur, curExec, outcome, steps, last>>

CreateDecision ==
  /\ pc = "decide"
  /\ decisions' = decisions \cup
       {[source |-> cur, target |-> Head(todo).target,
         taken |-> Head(todo).verdict = "taken"]}
  /\ todo' = Tail(todo)
  /\ Goto("route")
  /\ UNCHANGED <<nodeRow, execs, requestRows, phase, flag, budgets,
                 mode, cur, curExec, outcome, steps, last>>

EndRouting ==
  /\ pc = "route" /\ todo = <<>>
  /\ Goto("advance")
  /\ UNCHANGED <<nodeRow, execs, requestRows, routing, locals, last, budgets>>

\* The gate sets the phase that follows its own, whatever the current one is.
PhaseAfter(n) ==
  IF n \in PhaseGates /\ PhaseOf[n] < LastPhase THEN PhaseOf[n] + 1 ELSE phase

MaybeAdvancePhase ==
  /\ pc = "advance"
  /\ phase' = PhaseAfter(cur)
  /\ ReturnFromRunNode
  /\ UNCHANGED <<nodeRow, execs, requestRows, decisions, flag, budgets>>

(***************************************************************************)
(* answer_request(), once the material is in place: resolve the request,   *)
(* register the batch, then write the two nodes.                           *)
(***************************************************************************)
ResolveRequest(n) ==
  /\ Issue("answer")
  /\ n \in openRequests
  /\ openRequests' = openRequests \ {n}
  /\ resolvedRequests' = resolvedRequests \cup {n}
  /\ mode' = "answer" /\ cur' = n
  /\ Goto("register")
  /\ UNCHANGED <<nodeRow, execs, registered, routing,
                 curExec, outcome, todo, steps, last>>

RegisterBatch ==
  /\ pc = "register"
  /\ registered' = registered \cup {cur}
  /\ Goto("release")
  /\ UNCHANGED <<nodeRow, execs, openRequests, resolvedRequests, routing,
                 locals, last, budgets>>

RegisterRaises ==
  /\ pc = "register"
  /\ faults < MaxFaults
  /\ faults' = faults + 1
  /\ EndCommand("error")
  /\ UNCHANGED <<nodeRow, execs, requestRows, routing, commands, crashes>>

ReleaseWaitingNode ==
  /\ pc = "release"
  /\ IF nodeStatus[cur] = "PENDING"
       THEN UNCHANGED nodeRow
       ELSE Upsert(cur, "SUCCEEDED", attempts[cur], NoExec)
  /\ Goto("resume")
  /\ UNCHANGED <<execs, requestRows, routing, locals, last, budgets>>

\* Variant: the answer releases the waiting node only.
ActivateResumeNodeForgotten ==
  /\ pc = "resume"
  /\ EndCommand("answered")
  /\ UNCHANGED <<nodeRow, execs, requestRows, routing, budgets>>

ActivateResumeNode ==
  /\ pc = "resume"
  /\ LET r == ResumeNode[cur] IN Upsert(r, "READY", attempts[r], NoExec)
  /\ EndCommand("answered")
  /\ UNCHANGED <<execs, requestRows, routing, budgets>>

\* Variant: releasing a node refills its budget.
AttemptsOnUnblockReset(n) == 0

AttemptsOnUnblock(n) == attempts[n]

\* cmd_unblock writes one row; it never touches an execution.
Unblock(n) ==
  /\ Issue("unblock")
  /\ nodeStatus[n] \in {"WAITING_FOR_APPROVAL", "FAILED", "RUNNING", "READY"}
  /\ Upsert(n, "READY", AttemptsOnUnblock(n), NoExec)
  /\ last' = "unblocked"
  /\ UNCHANGED <<execs, requestRows, routing, pc, locals>>

(***************************************************************************)
(* assessment_completion(): what status and run report of the assessment.  *)
(***************************************************************************)
Mandatory == Nodes \ Optional
Waiting(n) == nodeStatus[n] \in {"WAITING_FOR_INPUT", "WAITING_FOR_APPROVAL"}

AssessmentCompletion ==
  IF \E n \in Nodes : nodeStatus[n] = "RUNNING" THEN "RUNNING"
  ELSE IF openRequests \cap BlockingAskers # {} \/ \E n \in Mandatory : Waiting(n)
    THEN "WAITING_FOR_INPUT"
  ELSE IF \E n \in Mandatory : nodeStatus[n] = "FAILED" THEN "BLOCKED"
  ELSE IF \E n \in Mandatory : nodeStatus[n] \notin SatisfiedStatuses
    THEN IF Candidates # {} THEN "RUNNING" ELSE "BLOCKED"
  ELSE IF openRequests # {} \/ \E n \in Optional : Waiting(n)
    THEN "COMPLETED_WITH_LIMITATIONS"
  ELSE "COMPLETED"

(***************************************************************************)
(* The machine dies, or the process is killed.                             *)
(***************************************************************************)
Crash ==
  /\ pc # "idle"
  /\ crashes < MaxCrashes
  /\ crashes' = crashes + 1
  /\ EndCommand("crashed")
  /\ UNCHANGED <<nodeRow, execs, requestRows, routing, commands, faults>>

(***************************************************************************)
(* Specification.                                                          *)
(***************************************************************************)
\* What a command in progress does next.
EngineStep ==
  \/ \E n \in Nodes : RecoverStaleRunning(n)
  \/ EngineReady \/ SelectNext \/ LeaveLoop
  \/ SkipBlocked \/ RefuseNode
  \/ CreateExecution \/ MarkRunning \/ AskForInput \/ HandlerEnds
  \/ FinishExecution \/ SettleNode
  \/ TakeSnapshot \/ ActivateTarget \/ LeaveTargetAlone \/ PassEdgeOver
  \/ ConditionRaises \/ CreateDecision \/ EndRouting \/ MaybeAdvancePhase
  \/ RegisterBatch \/ RegisterRaises \/ ReleaseWaitingNode
  \/ ActivateResumeNode

OperatorStep ==
  \E n \in Nodes :
    \/ \E c \in {"start", "run", "inspect"} : OpenEngine(c, n)
    \/ ResolveRequest(n)
    \/ Unblock(n)

Next == EngineStep \/ OperatorStep \/ Crash

Spec == Init /\ [][Next]_vars

=============================================================================
