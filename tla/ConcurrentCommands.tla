------------------------- MODULE ConcurrentCommands -------------------------
(***************************************************************************)
(* Several commands at once over one database.  Nothing in cli/main.py     *)
(* keeps a second terminal from typing one, and SQLite only orders the     *)
(* statements: each commits on its own, so what a command has read may be  *)
(* stale when it writes.  GraphEngine takes a repository call as one step  *)
(* of one process; here a read and the write that relies on it are steps   *)
(* of their own, and the rest of the engine is reduced to the rows they    *)
(* touch: edges always fire, phases and flags are left out, registering a  *)
(* batch is its row and its seal (BatchIntake has the rest).               *)
(***************************************************************************)
EXTENDS AssessmentGraph

CONSTANTS
  Processes,      \* the processes that may execute a command
  Askers,         \* nodes whose handler may create a human request
  Outcomes,       \* what the handler of a node may return or raise
  AskedOutcomes,  \* what it may return once it has asked
  ResumeNode,     \* the resume node named in the request of an asker
  Commands,       \* the commands the operators issue
  MaxSteps,       \* max_steps of run()
  MaxCommands,    \* bound: commands issued
  MaxKills        \* bound: processes killed

CommandNames == {"start", "run", "inspect", "answer", "unblock"}
NoExec == 0       \* a NULL last_execution_id
NoRequest == 0
KeepAttempts == -1   \* upsert_node_state without its attempts argument

ASSUME ConcurrencyAssumption ==
  /\ Askers \subseteq Nodes
  /\ Outcomes \in [Nodes -> SUBSET OutcomeNames]
  /\ AskedOutcomes \in [Nodes -> SUBSET OutcomeNames]
  /\ ResumeNode \in [Nodes -> Nodes]
  /\ Commands \subseteq CommandNames
  /\ MaxSteps \in Nat /\ MaxCommands \in Nat /\ MaxKills \in Nat

VARIABLES
  nodeStatus, attempts, lastExec,   \* node_states: no row is "PENDING"
  execs,                            \* executions, as created
  requests,                         \* human_requests, as created
  batches,                          \* the resolution batch of each request
  decisions,                        \* taken edges on record
  proc,                             \* process -> the locals of its command
  commands, kills                   \* what the environment has done so far

rows == <<nodeStatus, attempts, lastExec>>
store == <<rows, execs, requests, batches, decisions>>
budgets == <<commands, kills>>
vars == <<store, proc, budgets>>

Executions == [node: Nodes, attempt: Nat \ {0}, status: NodeStatuses]
Requests == [node: Nodes, status: {"OPEN", "RESOLVED"}]
BatchStates == {"none", "placed", "sealed"}

\* A row of node_states as a process has read it.
Rows == [node: Nodes, status: NodeStatuses, attempts: Nat, exec: Nat]
Locations ==
  {"idle", "open", "list", "recover", "cancel", "select", "begin", "execute",
   "insert", "lookup", "asked", "finish", "route", "decide", "resolve", "resolving",
   "register", "place", "seal", "release", "resume", "unblock", "upsert", "write"}
Writing == {"upsert", "write"}
\* The arguments of upsert_node_state, and where its caller goes on.
Calls ==
  [node: Nodes, status: NodeStatuses, tries: Nat \cup {KeepAttempts}, exec: Nat,
   next: Locations \ Writing]
Locals ==
  [pc: Locations, mode: CommandNames, node: Nodes, request: Nat, row: Rows, call: Calls,
   stale: SUBSET Rows, exec: Nat, outcome: OutcomeNames, todo: Seq(Nodes), steps: Nat]

NoRow == [node |-> Entry, status |-> "PENDING", attempts |-> 0, exec |-> NoExec]
NoCall == [node |-> Entry, status |-> "READY", tries |-> 0, exec |-> NoExec, next |-> "idle"]
Idle ==
  [pc |-> "idle", mode |-> "inspect", node |-> Entry, request |-> NoRequest, row |-> NoRow,
   call |-> NoCall, stale |-> {}, exec |-> NoExec, outcome |-> "success", todo |-> <<>>,
   steps |-> 0]

StoreOK ==
  /\ nodeStatus \in [Nodes -> NodeStatuses]
  /\ attempts \in [Nodes -> Nat]
  /\ lastExec \in [Nodes -> Nat]
  /\ execs \in Seq(Executions)
  /\ requests \in Seq(Requests)
  /\ batches \in Seq(BatchStates) /\ Len(batches) = Len(requests)
  /\ decisions \subseteq Nodes \X Nodes

TypeOK ==
  /\ StoreOK
  /\ proc \in [Processes -> Locals]
  /\ commands \in Nat /\ kills \in Nat

Init ==
  /\ nodeStatus = [n \in Nodes |-> "PENDING"]
  /\ attempts = [n \in Nodes |-> 0]
  /\ lastExec = [n \in Nodes |-> NoExec]
  /\ execs = <<>> /\ requests = <<>> /\ batches = <<>> /\ decisions = {}
  /\ proc = [p \in Processes |-> Idle]
  /\ commands = 0 /\ kills = 0

(***************************************************************************)
(* Steps of a process.                                                     *)
(***************************************************************************)
At(p, location) == proc[p].pc = location
Become(p, locals) == proc' = [proc EXCEPT ![p] = locals]
Goto(p, location) == Become(p, [proc[p] EXCEPT !.pc = location])
End(p) == Become(p, Idle)

RowOf(n) ==
  [node |-> n, status |-> nodeStatus[n], attempts |-> attempts[n], exec |-> lastExec[n]]

\* The process, its locals as given, calls upsert_node_state and goes on at next.
Call(p, locals, n, status, tries, exec, next) ==
  Become(p, [locals EXCEPT !.pc = "upsert",
    !.call = [node |-> n, status |-> status, tries |-> tries, exec |-> exec, next |-> next]])

\* upsert_node_state reads the row ...
UpsertReads(p) ==
  /\ At(p, "upsert")
  /\ Become(p, [proc[p] EXCEPT !.pc = "write", !.row = RowOf(proc[p].call.node)])
  /\ UNCHANGED <<store, budgets>>

\* ... and updates it by key, whatever it has become, or inserts one; if there
\* is a row by now, the primary key refuses it and the error ends the command.
UpsertWrites(p) ==
  LET call == proc[p].call
      old == proc[p].row
      n == call.node
  IN /\ At(p, "write")
     /\ IF old.status = "PENDING" /\ nodeStatus[n] # "PENDING"
          THEN End(p) /\ UNCHANGED rows
          ELSE /\ nodeStatus' = [nodeStatus EXCEPT ![n] = call.status]
               /\ attempts' = [attempts EXCEPT ![n] =
                    IF call.tries = KeepAttempts THEN old.attempts ELSE call.tries]
               /\ lastExec' = [lastExec EXCEPT ![n] = call.exec]
               /\ IF call.next = "idle" THEN End(p)
                  ELSE Become(p, [proc[p] EXCEPT !.pc = call.next, !.row = NoRow,
                                    !.call = NoCall])
     /\ UNCHANGED <<execs, requests, batches, decisions, budgets>>

(***************************************************************************)
(* Opening the engine: the entry row, then recovery of every row that is   *)
(* RUNNING in one listing, its process dead or not.                        *)
(***************************************************************************)
Issue(p, command, n, r) ==
  /\ At(p, "idle")
  /\ command \in Commands
  /\ commands < MaxCommands
  /\ commands' = commands + 1
  /\ Become(p, [Idle EXCEPT !.mode = command, !.node = n, !.request = r,
                  !.pc = CASE command = "answer" -> "resolve"
                           [] command = "unblock" -> "unblock"
                           [] OTHER -> "open"])
  /\ UNCHANGED <<store, kills>>

IssueCommand(p) ==
  \/ \E command \in {"start", "inspect"} : Issue(p, command, Entry, NoRequest)
  \/ \E command \in {"run", "unblock"}, n \in Nodes : Issue(p, command, n, NoRequest)
  \/ \E r \in DOMAIN requests : Issue(p, "answer", requests[r].node, r)

OpenEngine(p) ==
  /\ At(p, "open")
  /\ IF nodeStatus[Entry] = "PENDING"
       THEN Call(p, proc[p], Entry, "READY", KeepAttempts, NoExec, "list")
       ELSE Goto(p, "list")
  /\ UNCHANGED <<store, budgets>>

ListStale(p) ==
  /\ At(p, "list")
  /\ Become(p, [proc[p] EXCEPT !.pc = "recover",
                  !.stale = {RowOf(n) : n \in {m \in Nodes : nodeStatus[m] = "RUNNING"}}])
  /\ UNCHANGED <<store, budgets>>

\* The listing is by id.
NextStale(p, row) ==
  /\ row \in proc[p].stale
  /\ \A other \in proc[p].stale : IdRank[row.node] <= IdRank[other.node]

RecoverNode(p) ==
  /\ At(p, "recover")
  /\ \E row \in proc[p].stale :
       /\ NextStale(p, row)
       /\ Call(p, proc[p], row.node, "READY", row.attempts, NoExec, "cancel")
  /\ UNCHANGED <<store, budgets>>

\* The execution the listed row named, if it is still RUNNING.
CancelStale(p) ==
  /\ At(p, "cancel")
  /\ \E row \in proc[p].stale :
       /\ NextStale(p, row)
       /\ execs' = IF row.exec \in DOMAIN execs /\ execs[row.exec].status = "RUNNING"
                     THEN [execs EXCEPT ![row.exec].status = "CANCELLED"] ELSE execs
       /\ Become(p, [proc[p] EXCEPT !.pc = "recover", !.stale = @ \ {row}])
  /\ UNCHANGED <<rows, requests, batches, decisions, budgets>>

EngineOpened(p) ==
  /\ At(p, "recover")
  /\ proc[p].stale = {}
  /\ CASE proc[p].mode = "start" -> Goto(p, "select")
       [] proc[p].mode = "run" -> Goto(p, "begin")
       [] OTHER -> End(p)
  /\ UNCHANGED <<store, budgets>>

(***************************************************************************)
(* run() and run_node().                                                   *)
(***************************************************************************)
Candidates ==
  {n \in Nodes : nodeStatus[n] = "READY" /\ PrerequisitesMet(n, nodeStatus)}
    \cup {n \in {Entry} : \A m \in Nodes : nodeStatus[m] = "PENDING"}

SelectNext(p) ==
  /\ At(p, "select")
  /\ proc[p].steps < MaxSteps
  /\ \E n \in Candidates :
       /\ \A m \in Candidates \ {n} : RunsBefore(n, m)
       /\ Become(p, [proc[p] EXCEPT !.pc = "begin", !.node = n, !.steps = @ + 1])
  /\ UNCHANGED <<store, budgets>>

LeaveLoop(p) ==
  /\ At(p, "select")
  /\ proc[p].steps >= MaxSteps \/ Candidates = {}
  /\ End(p)
  /\ UNCHANGED <<store, budgets>>

\* run_node returns to the loop of run() or to the command.
AfterNode(p) == IF proc[p].mode = "start" THEN "select" ELSE "idle"
ReturnFromRunNode(p) ==
  IF proc[p].mode = "start"
    THEN Goto(p, "select")
    ELSE End(p)

\* Variant: run accepts a node that was never activated.
RunnableAnyway(n) == nodeStatus[n] \notin BlockedStatuses /\ attempts[n] < AttemptLimit(n)

Runnable(n) ==
  /\ nodeStatus[n] \notin BlockedStatuses
  /\ attempts[n] < AttemptLimit(n)
  /\ nodeStatus[n] = "PENDING" => n = Entry

\* Variant: the RUNNING row names its execution.
ExecutionWhileRunningNamed(e) == e

ExecutionWhileRunning(e) == NoExec

\* The row is read once; the execution it leads to is a new row that no other
\* process writes, so reading and creating it are one step.
CreateExecution(p) ==
  LET n == proc[p].node
      e == Len(execs) + 1
  IN /\ At(p, "begin")
     /\ Runnable(n)
     /\ execs' = Append(execs, [node |-> n, attempt |-> attempts[n] + 1,
                                status |-> "RUNNING"])
     /\ Call(p, [proc[p] EXCEPT !.exec = e], n, "RUNNING", attempts[n] + 1,
             ExecutionWhileRunning(e), "execute")
     /\ UNCHANGED <<rows, requests, batches, decisions, budgets>>

\* A blocked node is skipped; a node that may not run ends the command.
DeclineNode(p) ==
  LET n == proc[p].node
  IN /\ At(p, "begin")
     /\ ~Runnable(n)
     /\ IF nodeStatus[n] \in BlockedStatuses THEN ReturnFromRunNode(p) ELSE End(p)
     /\ UNCHANGED <<store, budgets>>

OpenRequest(n) ==
  \E r \in DOMAIN requests : requests[r].node = n /\ requests[r].status = "OPEN"

HandlerRaises(p) == Become(p, [proc[p] EXCEPT !.pc = "finish", !.outcome = "raised"])

\* create_request looks for an open request of the node ...
AskForInput(p) ==
  /\ At(p, "execute")
  /\ proc[p].node \in Askers
  /\ Goto(p, IF OpenRequest(proc[p].node) THEN "lookup" ELSE "insert")
  /\ UNCHANGED <<store, budgets>>

\* Variant: no unique index over the open requests.
RefusedByIndexNever(n) == FALSE

RefusedByIndex(n) == OpenRequest(n)

\* ... and inserts one: the partial unique index refuses a second.
InsertRequest(p) ==
  LET n == proc[p].node
  IN /\ At(p, "insert")
     /\ IF RefusedByIndex(n)
          THEN HandlerRaises(p) /\ UNCHANGED <<requests, batches>>
          ELSE /\ requests' = Append(requests, [node |-> n, status |-> "OPEN"])
               /\ batches' = Append(batches, "none")
               /\ Goto(p, "asked")
     /\ UNCHANGED <<rows, execs, decisions, budgets>>

\* The open request is looked up again, to return its id.
LookUpRequest(p) ==
  /\ At(p, "lookup")
  /\ IF OpenRequest(proc[p].node) THEN Goto(p, "asked") ELSE HandlerRaises(p)
  /\ UNCHANGED <<store, budgets>>

HandlerEnds(p) ==
  /\ \/ At(p, "execute") /\ \E o \in Outcomes[proc[p].node] :
          Become(p, [proc[p] EXCEPT !.pc = "finish", !.outcome = o])
     \/ At(p, "asked") /\ \E o \in AskedOutcomes[proc[p].node] :
          Become(p, [proc[p] EXCEPT !.pc = "finish", !.outcome = o])
  /\ UNCHANGED <<store, budgets>>

RouteTargets(m) == [i \in DOMAIN Outgoing[m] |-> Outgoing[m][i].target]

FinishExecution(p) ==
  LET me == proc[p]
      o == me.outcome
      settled == PersistedStatus(o)
      locals == [me EXCEPT !.exec = NoExec, !.outcome = "success",
                   !.todo = IF RoutesAfter(o) THEN RouteTargets(me.node) ELSE <<>>]
  IN /\ At(p, "finish")
     /\ execs' = [execs EXCEPT ![me.exec].status = settled]
     /\ Call(p, locals, me.node, settled, AttemptsAfter(o, execs[me.exec].attempt), me.exec,
             IF RoutesAfter(o) THEN "route" ELSE AfterNode(p))
     /\ UNCHANGED <<rows, requests, batches, decisions, budgets>>

(***************************************************************************)
(* _route_from() with every edge fired.                                    *)
(***************************************************************************)
Untouchable(n) == nodeStatus[n] = "SUCCEEDED" \/ nodeStatus[n] \in BlockedStatuses

RouteEdge(p) ==
  /\ At(p, "route")
  /\ proc[p].todo # <<>>
  /\ LET t == Head(proc[p].todo) IN
       IF Untouchable(t)
         THEN Become(p, [proc[p] EXCEPT !.todo = Tail(@)])
         ELSE Call(p, proc[p], t, "READY", KeepAttempts, NoExec, "decide")
  /\ UNCHANGED <<store, budgets>>

CreateDecision(p) ==
  /\ At(p, "decide")
  /\ decisions' = decisions \cup {<<proc[p].node, Head(proc[p].todo)>>}
  /\ Become(p, [proc[p] EXCEPT !.pc = "route", !.todo = Tail(@)])
  /\ UNCHANGED <<rows, execs, requests, batches, budgets>>

EndRouting(p) ==
  /\ At(p, "route")
  /\ proc[p].todo = <<>>
  /\ ReturnFromRunNode(p)
  /\ UNCHANGED <<store, budgets>>

(***************************************************************************)
(* answer_request(): the check of the request and the update that relies   *)
(* on it are two statements.  A batch row that is there and not sealed is  *)
(* refused by the unique index over batch_dir.                             *)
(***************************************************************************)
CheckRequest(p) ==
  /\ At(p, "resolve")
  /\ IF requests[proc[p].request].status = "OPEN" THEN Goto(p, "resolving") ELSE End(p)
  /\ UNCHANGED <<store, budgets>>

ResolveRequest(p) ==
  /\ At(p, "resolving")
  /\ requests' = [requests EXCEPT ![proc[p].request].status = "RESOLVED"]
  /\ Goto(p, "register")
  /\ UNCHANGED <<rows, execs, batches, decisions, budgets>>

LookUpBatch(p) ==
  /\ At(p, "register")
  /\ Goto(p, IF batches[proc[p].request] = "sealed" THEN "release" ELSE "place")
  /\ UNCHANGED <<store, budgets>>

PlaceBatch(p) ==
  LET r == proc[p].request
  IN /\ At(p, "place")
     /\ IF batches[r] = "none"
          THEN batches' = [batches EXCEPT ![r] = "placed"] /\ Goto(p, "seal")
          ELSE End(p) /\ UNCHANGED batches
     /\ UNCHANGED <<rows, execs, requests, decisions, budgets>>

SealBatch(p) ==
  /\ At(p, "seal")
  /\ batches' = [batches EXCEPT ![proc[p].request] = "sealed"]
  /\ Goto(p, "release")
  /\ UNCHANGED <<rows, execs, requests, decisions, budgets>>

ReleaseWaitingNode(p) ==
  LET n == proc[p].node
  IN /\ At(p, "release")
     /\ IF nodeStatus[n] = "PENDING"
          THEN Goto(p, "resume")
          ELSE Call(p, proc[p], n, "SUCCEEDED", attempts[n], NoExec, "resume")
     /\ UNCHANGED <<store, budgets>>

ActivateResumeNode(p) ==
  /\ At(p, "resume")
  /\ Call(p, proc[p], ResumeNode[proc[p].node], "READY", KeepAttempts, NoExec, "idle")
  /\ UNCHANGED <<store, budgets>>

Unblock(p) ==
  LET n == proc[p].node
  IN /\ At(p, "unblock")
     /\ IF nodeStatus[n] \in {"WAITING_FOR_APPROVAL", "FAILED", "RUNNING", "READY"}
          THEN Call(p, proc[p], n, "READY", attempts[n], NoExec, "idle")
          ELSE End(p)
     /\ UNCHANGED <<store, budgets>>

Kill(p) ==
  /\ ~At(p, "idle")
  /\ kills < MaxKills
  /\ kills' = kills + 1
  /\ End(p)
  /\ UNCHANGED <<store, commands>>

(***************************************************************************)
(* Specification.                                                          *)
(***************************************************************************)
OpeningStep(p) ==
  OpenEngine(p) \/ ListStale(p) \/ RecoverNode(p) \/ CancelStale(p) \/ EngineOpened(p)

NodeStep(p) ==
  \/ SelectNext(p) \/ LeaveLoop(p) \/ CreateExecution(p) \/ DeclineNode(p)
  \/ AskForInput(p) \/ InsertRequest(p) \/ LookUpRequest(p)
  \/ HandlerEnds(p) \/ FinishExecution(p)
  \/ RouteEdge(p) \/ CreateDecision(p) \/ EndRouting(p)

AnswerStep(p) ==
  \/ CheckRequest(p) \/ ResolveRequest(p) \/ LookUpBatch(p) \/ PlaceBatch(p)
  \/ SealBatch(p) \/ ReleaseWaitingNode(p) \/ ActivateResumeNode(p)

ProcessStep(p) ==
  \/ UpsertReads(p) \/ UpsertWrites(p)
  \/ OpeningStep(p) \/ NodeStep(p) \/ AnswerStep(p) \/ Unblock(p)

Next == \E p \in Processes : IssueCommand(p) \/ ProcessStep(p) \/ Kill(p)

Spec == Init /\ [][Next]_vars

(***************************************************************************)
(* Properties.                                                             *)
(***************************************************************************)
\* Where a process is, or goes on once its row is written.
Where(l) == IF l.pc \in Writing THEN l.call.next ELSE l.pc

Executing == {"execute", "insert", "lookup", "asked", "finish"}

Succeeded(m) ==
  \E i \in DOMAIN execs : execs[i].node = m /\ execs[i].status = "SUCCEEDED"
Answered(n) ==
  \E r \in DOMAIN requests : requests[r].node = n /\ requests[r].status = "RESOLVED"

Activated(n) ==
  \/ n = Entry
  \/ \E m \in Nodes : n \in Targets(m) /\ Succeeded(m)
  \/ Answered(n) \/ \E m \in Nodes : n = ResumeNode[m] /\ Answered(m)

\* What backs a row, or the write of one, with a given status.
Backed(n, status) ==
  /\ Activated(n)
  /\ status = "SUCCEEDED" => Succeeded(n) \/ Answered(n)

\* Whatever two commands do to each other, a row only says what happened: the
\* node was activated by a success along an edge or by an answer, a SUCCEEDED
\* one ran with success or was answered, and a decision has its success.
RowsBacked == \A n \in Nodes : nodeStatus[n] # "PENDING" => Backed(n, nodeStatus[n])
DecisionsBacked == \A d \in decisions : Succeeded(d[1]) /\ d[2] \in Targets(d[1])
WritesBacked == RowsBacked /\ DecisionsBacked

\* An execution that has ended is history: no other process ends it again, and
\* recovery never cancels it.
EndedIsFinal ==
  [][\A i \in DOMAIN execs : execs[i].status # "RUNNING" => execs'[i] = execs[i]]_vars

\* A row that names an execution agrees with it: the two are written by
\* different statements, and any other process may write the row in between.
RowMatchesExecution ==
  \A n \in Nodes : lastExec[n] # NoExec =>
    /\ lastExec[n] \in DOMAIN execs
    /\ execs[lastExec[n]].node = n /\ execs[lastExec[n]].status = nodeStatus[n]

\* Two processes that run one node at once never leave two open requests of it,
\* "even under concurrent insertion" (docs/threat-model.md).
OneOpenRequest ==
  \A r, s \in {i \in DOMAIN requests : requests[i].status = "OPEN"} :
    requests[r].node = requests[s].node => r = s

\* No execution, and no row, is numbered past the node's budget.
NumberedWithinBudget ==
  /\ \A i \in DOMAIN execs : execs[i].attempt <= AttemptLimit(execs[i].node)
  /\ \A n \in Nodes : attempts[n] <= AttemptLimit(n)

\* What the statements of several commands keep true between them.
ConcurrencyInv == TypeOK /\ RowMatchesExecution /\ OneOpenRequest /\ NumberedWithinBudget

(***************************************************************************)
(* Statements the code does not keep while a second command runs.          *)
(***************************************************************************)
\* graph/engine.py, recover_stale_running: it normalizes "nodes left RUNNING
\* after a crash", not one that another process is executing.
OnlyTheDeadRecover ==
  \A p, q \in Processes : \A row \in proc[p].stale :
    ~(At(p, "recover") /\ Where(proc[q]) \in Executing /\ proc[q].node = row.node)

\* docs/state-and-persistence.md: a WAITING_FOR_INPUT node is "blocked on human
\* request", one that is still there to be answered.
WaitingHasRequest ==
  (\A p \in Processes : At(p, "idle")) =>
    \A n \in Askers : nodeStatus[n] = "WAITING_FOR_INPUT" => OpenRequest(n)

(***************************************************************************)
(* The inductive invariant: what each process knows to have happened when  *)
(* it writes, and which execution is its own.                              *)
(***************************************************************************)
Routing == {"route", "decide"}
Delivering == {"register", "place", "seal", "release", "resume"}
Answering == Delivering \cup {"resolve", "resolving"}

\* The locals a step reads are there.
LocalsReady(l) ==
  /\ l.exec # NoExec <=> Where(l) \in Executing
  /\ l.exec # NoExec => l.exec \in DOMAIN execs /\ execs[l.exec].node = l.node
  /\ Where(l) = "decide" => l.todo # <<>>
  /\ Where(l) \in Answering =>
       l.request \in DOMAIN requests /\ requests[l.request].node = l.node

TypeInv == TypeOK /\ \A p \in Processes : LocalsReady(proc[p])

\* A running execution belongs to one process; a RUNNING row and a listing of
\* it name no execution, so recovery has none to cancel.
LocalsOwn(l) ==
  /\ l.exec # NoExec => execs[l.exec].status = "RUNNING"
  /\ \A row \in l.stale : row.exec = NoExec
  /\ l.pc \in Writing /\ l.call.status = "RUNNING" => l.call.exec = NoExec

OwnInv ==
  /\ \A n \in Nodes : nodeStatus[n] = "RUNNING" => lastExec[n] = NoExec
  /\ \A p \in Processes : LocalsOwn(proc[p])
  /\ \A p, q \in Processes :
       proc[p].exec = proc[q].exec /\ proc[p].exec # NoExec => p = q

\* What a process is about to write, or to conclude from, has happened.
LocalsBacked(l) ==
  /\ l.pc \in Writing => Backed(l.call.node, l.call.status)
  /\ \A row \in l.stale : Activated(row.node)
  /\ Where(l) \in Executing => Activated(l.node)
  /\ Where(l) \in Routing =>
       Succeeded(l.node) /\ \A i \in DOMAIN l.todo : l.todo[i] \in Targets(l.node)
  /\ Where(l) \in Delivering => Answered(l.node)

BackedInv == WritesBacked /\ \A p \in Processes : LocalsBacked(proc[p])

\* What a process has read or is about to write is within the budget, and an
\* execution it is about to name agrees with what it writes beside it.
LocalsAgree(l) ==
  /\ l.pc \in Writing /\ l.call.exec # NoExec =>
       /\ l.call.exec \in DOMAIN execs
       /\ execs[l.call.exec].node = l.call.node
       /\ execs[l.call.exec].status = l.call.status
  /\ l.pc \in Writing /\ l.call.tries # KeepAttempts =>
       l.call.tries <= AttemptLimit(l.call.node)
  /\ l.pc = "write" => l.row.attempts <= AttemptLimit(l.call.node)
  /\ \A row \in l.stale : row.attempts <= AttemptLimit(row.node)

AgreeInv ==
  RowMatchesExecution /\ NumberedWithinBudget /\ \A p \in Processes : LocalsAgree(proc[p])

IInv == TypeInv /\ OwnInv /\ BackedInv /\ AgreeInv /\ OneOpenRequest

=============================================================================
